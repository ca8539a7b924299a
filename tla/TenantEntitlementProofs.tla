------------------------ MODULE TenantEntitlementProofs ------------------------
(***************************************************************************)
(* Theorems about TenantEntitlement, for any deliveries and workers, any   *)
(* thresholds in order, and any bounds.                                    *)
(***************************************************************************)
EXTENDS TenantEntitlement, TLAPS

LEMMA PcFacts ==
    /\ Working \cup {"idle", "dup"} =
         {"work", "record", "recover", "write", "tell", "finish", "idle", "dup"}
    /\ Idle \in CallRecord
  BY DEF Working, CallRecord, Idle

(* The rungs and their successors, one by one.                               *)
LEMMA RungFacts ==
    ASSUME NEW i \in 1 .. 3
    PROVE  /\ Rungs[i] \in Dunning
           /\ To[Rungs[i]] \in Status
           /\ Rungs[i] = "past_due" => To[Rungs[i]] = "publish_locked"
           /\ Rungs[i] = "publish_locked" => To[Rungs[i]] = "suspended"
           /\ Rungs[i] = "suspended" => To[Rungs[i]] = "canceled"
           /\ Rungs[i] = "past_due" => Threshold[Rungs[i]] = DaysToPublishLock
           /\ Rungs[i] = "publish_locked" => Threshold[Rungs[i]] = DaysToSuspend
           /\ Threshold[Rungs[i]] \in Nat
<1>1. Rungs[1] = "past_due" /\ Rungs[2] = "publish_locked" /\ Rungs[3] = "suspended"
  BY DEF Rungs
<1>2. i = 1 \/ i = 2 \/ i = 3
  OBVIOUS
<1>3. /\ To["past_due"] = "publish_locked" /\ To["publish_locked"] = "suspended"
      /\ To["suspended"] = "canceled"
  BY DEF To
<1>4. /\ Threshold["past_due"] = DaysToPublishLock /\ Threshold["publish_locked"] = DaysToSuspend
      /\ Threshold["suspended"] = DaysToCancel
  BY DEF Threshold
<1> QED
  BY <1>1, <1>2, <1>3, <1>4, TenantEntitlementAssumption DEF Dunning, Status

-----------------------------------------------------------------------------
(* Types                                                                     *)

(* Assigning the fields of a call or of a job.                               *)
LEMMA GoTyped ==
    ASSUME TypeOK, NEW c \in Call, NEW pc \in Working \cup {"idle", "dup"},
           call[c].pc # "idle", Go(c, pc)
    PROVE  /\ call' \in [Call -> CallRecord]
           /\ \A d \in Call : call'[d].pc # "idle" => call'[d].ev \in Sent
  BY DEF TypeOK, Go, CallRecord

LEMMA EndTyped ==
    ASSUME TypeOK, NEW c \in Call, End(c)
    PROVE  /\ call' \in [Call -> CallRecord]
           /\ \A d \in Call : call'[d].pc # "idle" => call'[d].ev \in Sent
<1>1. Idle \in CallRecord /\ Idle.pc = "idle"
  BY PcFacts DEF Idle
<1>2. call \in [Call -> CallRecord]
      /\ \A d \in Call : call[d].pc # "idle" => call[d].ev \in Sent
  BY DEF TypeOK
<1> QED
  BY <1>1, <1>2 DEF End

LEMMA StatusTyped ==
    ASSUME TypeOK, NEW st \in Status, NEW d \in Day \cup {NoDay}, SetStatus(st, d)
    PROVE  /\ org' \in [status : Status, since : Day \cup {NoDay}]
           /\ entered' \in Day \cup {NoDay}
  BY DEF TypeOK, SetStatus

LEMMA FaultTyped == ASSUME TypeOK, Fault PROVE faults' \in 0 .. MaxFaults
  BY TenantEntitlementAssumption DEF TypeOK, Fault

LEMMA JobEndTyped ==
    ASSUME TypeOK, NEW w \in Worker, JobEnd(w) PROVE job' \in [Worker -> JobRecord]
<1>1. job[w] \in JobRecord /\ job \in [Worker -> JobRecord]
  BY DEF TypeOK
<1>2. [job[w] EXCEPT !.pc = "idle", !.rung = 1, !.since = NoDay] \in JobRecord
  <2>1. ASSUME NEW j \in JobRecord, NEW i \in 1 .. 3, NEW s \in Day \cup {NoDay}
        PROVE  [j EXCEPT !.pc = "idle", !.rung = i, !.since = s] \in JobRecord
    BY DEF JobRecord
  <2>2. 1 \in 1 .. 3 /\ NoDay \in Day \cup {NoDay}
    OBVIOUS
  <2> QED
    BY <1>1, <2>1, <2>2
<1> QED
  BY <1>1, <1>2 DEF JobEnd

LEMMA NextRungTyped ==
    ASSUME TypeOK, NEW w \in Worker, NextRung(w) PROVE job' \in [Worker -> JobRecord]
<1>1. CASE job[w].rung = 3
  BY <1>1, JobEndTyped DEF NextRung
<1>2. CASE job[w].rung # 3
  <2>1. job[w] \in JobRecord /\ job \in [Worker -> JobRecord]
    BY DEF TypeOK
  <2>2. job[w].rung + 1 \in 1 .. 3
    BY <1>2, <2>1 DEF JobRecord
  <2>3. [job[w] EXCEPT !.pc = "find", !.rung = @ + 1, !.since = NoDay] \in JobRecord
    BY <2>1, <2>2 DEF JobRecord
  <2> QED
    BY <1>2, <2>1, <2>3 DEF NextRung
<1> QED
  BY <1>1, <1>2

LEMMA PastTyped ==
    ASSUME past \in Past, NEW b1 \in BOOLEAN, NEW b2 \in BOOLEAN
    PROVE  /\ [past EXCEPT !.carried = b1] \in Past
           /\ [past EXCEPT !.outrun = b1, !.carried = b2] \in Past
           /\ [past EXCEPT !.lost = b1] \in Past
           /\ [past EXCEPT !.overran = TRUE] \in Past
  BY DEF Past

LEMMA StatusOnlyTyped ==
    ASSUME TypeOK, NEW st \in Status, SetStatusOnly(st)
    PROVE  /\ org' \in [status : Status, since : Day \cup {NoDay}]
           /\ entered' \in Day \cup {NoDay} /\ past' \in Past
<1>1. org.since \in Day \cup {NoDay} /\ past \in Past
  BY DEF TypeOK
<1>2. past' \in Past
  BY <1>1 DEF SetStatusOnly, Past
<1> QED
  BY <1>1, <1>2, StatusTyped DEF SetStatusOnly

LEMMA WorkingCall ==
    ASSUME TypeOK, NEW c \in Call
    PROVE  /\ call[c] \in CallRecord
           /\ call[c].pc \in Working \cup {"idle", "dup"}
           /\ call[c].pc # "idle" => call[c].ev \in Sent /\ call[c].ev \in Event
           /\ Sent \subseteq Event
<1>1. Sent = 1 .. Len(kind) /\ Len(kind) \in Nat /\ Len(kind) <= MaxEvents
  BY DEF Sent, TypeOK
<1> QED
  BY <1>1, TenantEntitlementAssumption DEF TypeOK, CallRecord, Event

(* The provider's steps keep every variable's type.                          *)
ProviderMoves ==
    Checkout \/ ChargeFails \/ ChargeSucceeds \/ Cancel \/ BeginTrial \/ Lapse

LEMMA ProviderTyped ==
    ASSUME TypeOK, ProviderMoves
    PROVE  TypeOK'
<1>1. PICK from \in {"none", "paid", "unpaid"}, to \in {"none", "paid", "unpaid"},
           kinds \in Seq(Kind) : ProviderStep(from, to, kinds)
  <2>1. /\ <<"checkout">> \in Seq(Kind) /\ <<"failed", "updatedPastDue">> \in Seq(Kind)
        /\ <<"succeeded", "updatedActive">> \in Seq(Kind) /\ <<"deleted">> \in Seq(Kind)
        /\ <<"updatedTrial">> \in Seq(Kind) /\ <<"updatedCanceled">> \in Seq(Kind)
    BY DEF Kind
  <2>2. CASE Checkout
    BY <2>1, <2>2 DEF Checkout
  <2>3. CASE ChargeFails
    BY <2>1, <2>3 DEF ChargeFails
  <2>4. CASE ChargeSucceeds
    BY <2>1, <2>4 DEF ChargeSucceeds
  <2>5. CASE Cancel
    BY <2>1, <2>5 DEF Cancel
  <2>6. CASE BeginTrial
    BY <2>1, <2>6 DEF BeginTrial
  <2>7. CASE Lapse
    BY <2>1, <2>7 DEF Lapse
  <2> QED
    BY <2>2, <2>3, <2>4, <2>5, <2>6, <2>7 DEF ProviderMoves
<1>2. kind' \in Seq(Kind) /\ Len(kind') <= MaxEvents /\ DOMAIN kind \subseteq DOMAIN kind'
  BY <1>1 DEF ProviderStep, Send, TypeOK
<1>3. \A c \in Call : call'[c].pc # "idle" => call'[c].ev \in Sent'
  BY <1>1, <1>2 DEF ProviderStep, hookVars, TypeOK, Sent
<1> QED
  BY <1>1, <1>2, <1>3 DEF ProviderStep, TypeOK, orgVars, hookVars

(* So do a delivery's,                                                       *)
LEMMA DeliverTyped ==
    ASSUME TypeOK, NEW c \in Call, NEW e \in Event, Deliver(c, e)
    PROVE  TypeOK'
<1> DEFINE R(pc) == [Idle EXCEPT !.pc = pc, !.ev = e]
<1>1. /\ R("work") \in CallRecord /\ R("work").ev = e
      /\ R("dup") \in CallRecord /\ R("dup").ev = e
  BY DEF Idle, CallRecord, Working
<1>2. /\ e \in Sent /\ call \in [Call -> CallRecord]
      /\ claim \in [Event -> {"absent", "pending", "completed"}]
      /\ \A d \in Call : call[d].pc # "idle" => call[d].ev \in Sent
  BY DEF Deliver, TypeOK
<1>3. call' = [call EXCEPT ![c] = R("work")] \/ call' = [call EXCEPT ![c] = R("dup")]
  BY DEF Deliver
<1>4. /\ call' \in [Call -> CallRecord]
      /\ \A d \in Call : call'[d].pc # "idle" => call'[d].ev \in Sent
  <2> HIDE DEF R
  <2> QED
    BY <1>1, <1>2, <1>3
<1>5. claim' \in [Event -> {"absent", "pending", "completed"}]
  BY <1>2 DEF Deliver
<1> QED
  BY <1>4, <1>5 DEF Deliver, TypeOK, orgVars, providerVars, Sent

(* those of a call that goes on,                                             *)
LEMMA CallStepTyped ==
    ASSUME TypeOK, NEW c \in Call, CallStep(c)
    PROVE  TypeOK'
<1> USE DEF orgVars, providerVars, Sent
<1>1. /\ past \in Past /\ org \in [status : Status, since : Day \cup {NoDay}]
      /\ claim \in [Event -> {"absent", "pending", "completed"}]
      /\ call[c] \in CallRecord /\ call[c].pc # "idle" => call[c].ev \in Event
      /\ call \in [Call -> CallRecord]
  BY WorkingCall DEF TypeOK
<1>2. {"finish", "recover", "write", "tell", "record"} \subseteq Working
  BY DEF Working
<1>3. {"active", "past_due", "canceled"} \subseteq Status
  BY DEF Status, Dunning
<1>4. CASE Duplicate(c)
  <2>1. acked' \subseteq Event
    BY <1>1, <1>4 DEF Duplicate, TypeOK
  <2> QED
    BY <1>1, <1>4, <2>1, EndTyped DEF Duplicate, TypeOK
<1>5. CASE HandleDirect(c)
  <2>1. Written[kind[call[c].ev]] \in Status
    BY <1>5 DEF HandleDirect, Written, Status, Dunning
  <2>2. /\ org' \in [status : Status, since : Day \cup {NoDay}]
        /\ entered' \in Day \cup {NoDay} /\ past' \in Past
    BY <1>5, <2>1, StatusOnlyTyped DEF HandleDirect
  <2> QED
    BY <1>1, <1>2, <1>5, <2>2, GoTyped DEF HandleDirect, TypeOK
<1>6. CASE HandleFailed(c)
  <2>1. today \in Day /\ entered \in Day \cup {NoDay}
    BY DEF TypeOK
  <2>2. /\ org' \in [status : Status, since : Day \cup {NoDay}]
        /\ entered' \in Day \cup {NoDay}
    BY <1>1, <1>3, <1>6, <2>1, StatusTyped DEF HandleFailed
  <2> QED
    BY <1>1, <1>2, <1>6, <2>2, GoTyped DEF HandleFailed, TypeOK
<1>7. CASE HandleSucceeded(c)
  <2>1. /\ call' \in [Call -> CallRecord]
        /\ \A d \in Call : call'[d].pc # "idle" => call'[d].ev \in Sent
    BY <1>1, <1>2, <1>7 DEF HandleSucceeded, TypeOK, CallRecord
  <2> QED
    BY <1>1, <1>7, <2>1 DEF HandleSucceeded, TypeOK
<1>8. CASE Record(c)
  <2>1. /\ call' \in [Call -> CallRecord]
        /\ \A d \in Call : call'[d].pc # "idle" => call'[d].ev \in Sent
    BY <1>1, <1>2, <1>8, GoTyped DEF Record
  <2> QED
    BY <1>1, <1>8, <2>1 DEF Record, TypeOK
<1>9. CASE RecordThrows(c)
  <2>1. claim' \in [Event -> {"absent", "pending", "completed"}]
    BY <1>1, <1>9 DEF RecordThrows, Release
  <2> QED
    BY <1>1, <1>9, <2>1, EndTyped DEF RecordThrows, Release, TypeOK
<1>10. CASE RecoverRead(c)
  <2>1. /\ call' \in [Call -> CallRecord]
        /\ \A d \in Call : call'[d].pc # "idle" => call'[d].ev \in Sent
    BY <1>1, <1>2, <1>10 DEF RecoverRead, TypeOK, CallRecord
  <2> QED
    BY <1>1, <1>10, <2>1 DEF RecoverRead, TypeOK
<1>11. CASE RecoverWrite(c)
  <2>1. /\ org' \in [status : Status, since : Day \cup {NoDay}]
        /\ entered' \in Day \cup {NoDay}
    BY <1>3, <1>11, StatusTyped DEF RecoverWrite
  <2>2. past' \in Past
    BY <1>1, <1>11 DEF RecoverWrite, Past
  <2>3. /\ call' \in [Call -> CallRecord]
        /\ \A d \in Call : call'[d].pc # "idle" => call'[d].ev \in Sent
    BY <1>2, <1>11, GoTyped DEF RecoverWrite
  <2> QED
    BY <1>1, <1>11, <2>1, <2>2, <2>3 DEF RecoverWrite, TypeOK
<1>12. CASE RecoverTell(c)
  <2>1. past' \in Past
    BY <1>1, <1>12 DEF RecoverTell, Past
  <2>2. /\ call' \in [Call -> CallRecord]
        /\ \A d \in Call : call'[d].pc # "idle" => call'[d].ev \in Sent
    BY <1>2, <1>12, GoTyped DEF RecoverTell
  <2> QED
    BY <1>1, <1>12, <2>1, <2>2 DEF RecoverTell, TypeOK
<1>13. CASE Finish(c)
  <2>1. /\ claim' \in [Event -> {"absent", "pending", "completed"}]
        /\ acked' \subseteq Event /\ processed' \subseteq Event
    BY <1>1, <1>13 DEF Finish, TypeOK
  <2>2. faults' \in 0 .. MaxFaults
    BY <1>13, FaultTyped DEF Finish, TypeOK
  <2> QED
    BY <1>1, <1>13, <2>1, <2>2, EndTyped DEF Finish, TypeOK
<1> QED
  BY <1>4, <1>5, <1>6, <1>7, <1>8, <1>9, <1>10, <1>11, <1>12, <1>13 DEF CallStep

(* of one that fails, and of a claim that ends,                              *)
LEMMA CallFailsTyped ==
    ASSUME TypeOK, NEW c \in Call, CallThrows(c) \/ CallDies(c)
    PROVE  TypeOK'
<1> USE DEF orgVars, providerVars, Sent
<1>1. /\ past \in Past /\ claim \in [Event -> {"absent", "pending", "completed"}]
  BY DEF TypeOK
<1>2. CASE CallThrows(c)
  <2>1. claim' \in [Event -> {"absent", "pending", "completed"}]
    BY <1>1, <1>2 DEF CallThrows, Release
  <2> QED
    BY <1>1, <1>2, <2>1, EndTyped, FaultTyped DEF CallThrows, Release, TypeOK
<1>3. CASE CallDies(c)
  <2>1. past' \in Past
    BY <1>1, <1>3 DEF CallDies, Past
  <2> QED
    BY <1>1, <1>3, <2>1, EndTyped, FaultTyped DEF CallDies, TypeOK
<1> QED
  BY <1>2, <1>3

LEMMA ClaimExpireTyped ==
    ASSUME TypeOK, NEW e \in Event, ClaimExpire(e)
    PROVE  TypeOK'
<1>1. past' \in Past /\ faults' \in 0 .. MaxFaults
  BY FaultTyped DEF ClaimExpire, TypeOK, Past
<1>2. claim' \in [Event -> {"absent", "pending", "completed"}]
  BY DEF ClaimExpire, TypeOK
<1> QED
  BY <1>1, <1>2 DEF ClaimExpire, TypeOK, orgVars, providerVars, Sent

(* of a job,                                                                 *)
LEMMA JobStepTyped ==
    ASSUME TypeOK, NEW w \in Worker, JobStart(w) \/ TrialFind(w) \/ JobStep(w) \/ JobFails(w)
    PROVE  TypeOK'
<1> USE DEF orgVars, providerVars, hookVars, Sent
<1>1. /\ past \in Past /\ org \in [status : Status, since : Day \cup {NoDay}]
      /\ job[w] \in JobRecord /\ job \in [Worker -> JobRecord] /\ today \in Day
  BY DEF TypeOK
<1>2. CASE JobStart(w)
  <2>1. job' \in [Worker -> JobRecord]
    <3>1. ASSUME NEW j \in JobRecord, NEW i \in 1 .. 3, NEW d \in Day
          PROVE  [j EXCEPT !.pc = "find", !.rung = i, !.ran = d] \in JobRecord
      BY DEF JobRecord
    <3>2. [job[w] EXCEPT !.pc = "find", !.rung = 1, !.ran = today] \in JobRecord
      <4>1. 1 \in 1 .. 3
        OBVIOUS
      <4> QED
        BY <1>1, <3>1, <4>1
    <3> QED
      BY <1>1, <1>2, <3>2 DEF JobStart
  <2>2. org' \in [status : Status, since : Day \cup {NoDay}]
    BY <1>1, <1>2 DEF JobStart
  <2> QED
    BY <1>1, <1>2, <2>1, <2>2 DEF JobStart, TypeOK
<1>3. CASE TrialFind(w)
  <2>1. job' \in [Worker -> JobRecord]
    BY <1>1, <1>3 DEF TrialFind, JobRecord
  <2> QED
    BY <1>1, <1>3, <2>1 DEF TrialFind, TypeOK
<1>4. CASE TrialExpire(w)
  <2>1. "canceled" \in Status
    BY DEF Status
  <2> QED
    BY <1>1, <1>4, <2>1, StatusOnlyTyped, JobEndTyped DEF TrialExpire, TypeOK
<1>5. CASE JobFind(w)
  <2>1. job' \in [Worker -> JobRecord]
    <3>1. CASE NextRung(w)
      BY <3>1, NextRungTyped
    <3>2. CASE job' = [job EXCEPT ![w].pc = "flip", ![w].since = org.since]
      BY <1>1, <3>2 DEF JobRecord
    <3> QED
      BY <1>5, <3>1, <3>2 DEF JobFind
  <2> QED
    BY <1>1, <1>5, <2>1 DEF JobFind, TypeOK
<1>6. CASE JobFlip(w)
  <2>1. job' \in [Worker -> JobRecord]
    <3>1. CASE NextRung(w)
      BY <3>1, NextRungTyped
    <3>2. CASE job' = [job EXCEPT ![w].pc = "tell"]
      BY <1>1, <3>2 DEF JobRecord
    <3> QED
      BY <1>6, <3>1, <3>2 DEF JobFlip
  <2>2. To[Rungs[job[w].rung]] \in Status /\ org.since \in Day \cup {NoDay}
    BY <1>1, RungFacts DEF JobRecord
  <2>3. /\ org' \in [status : Status, since : Day \cup {NoDay}]
        /\ entered' \in Day \cup {NoDay}
    BY <1>6, <2>2, StatusTyped DEF JobFlip, TypeOK
  <2>4. past' \in Past
    BY <1>1, <1>6 DEF JobFlip, Past
  <2> QED
    BY <1>1, <1>6, <2>1, <2>3, <2>4 DEF JobFlip, TypeOK
<1>7. CASE JobTell(w)
  <2>1. past' \in Past
    BY <1>1, <1>7 DEF JobTell, Past
  <2> QED
    BY <1>1, <1>7, <2>1, NextRungTyped DEF JobTell, TypeOK
<1>8. CASE JobFails(w)
  BY <1>1, <1>8, JobEndTyped, FaultTyped DEF JobFails, TypeOK
<1> QED
  BY <1>2, <1>3, <1>4, <1>5, <1>6, <1>7, <1>8 DEF JobStep

LEMMA InitTyped == ASSUME Init PROVE TypeOK
<1>1. Idle \in CallRecord /\ Idle.pc = "idle"
  BY PcFacts DEF Idle
<1>2. kind \in Seq(Kind) /\ Len(kind) <= MaxEvents
  BY TenantEntitlementAssumption DEF Init
<1>3. job \in [Worker -> JobRecord]
  BY DEF Init, JobRecord
<1>4. past \in Past
  BY DEF Init, Past
<1>5. 0 \in Day /\ {"trial", "active"} \subseteq Status /\ 0 \in 0 .. MaxFaults
  BY TenantEntitlementAssumption DEF Day, Status
<1>6. org \in [status : Status, since : Day \cup {NoDay}]
  BY <1>5 DEF Init
<1> QED
  BY <1>1, <1>2, <1>3, <1>4, <1>5, <1>6 DEF Init, TypeOK

(* and so does every step.                                                   *)
LEMMA NextTyped == ASSUME TypeOK, [Next]_vars PROVE TypeOK'
<1>1. CASE DayPasses
  <2>1. today' \in Day
    BY <1>1, TenantEntitlementAssumption DEF DayPasses, TypeOK, Day
  <2> QED
    BY <1>1, <2>1 DEF DayPasses, TypeOK, orgVars, hookVars, providerVars, Sent
<1>2. CASE UNCHANGED vars
  BY <1>2 DEF vars, orgVars, hookVars, providerVars, TypeOK, Sent
<1> QED
  BY <1>1, <1>2, ProviderTyped, DeliverTyped, CallStepTyped, CallFailsTyped, ClaimExpireTyped,
     JobStepTyped DEF Next, ProviderMoves

-----------------------------------------------------------------------------
(* The claims of the webhook                                                 *)

Claims == /\ AckedWasProcessed /\ CompletedWasProcessed
          /\ CallHoldsClaim /\ OneHandlerPerEvent

(* The step of one call: it ends, or it works on, or it takes up an event    *)
(* nobody works on; and what it does to the claim of its event.              *)
LEMMA ClaimsKept ==
    ASSUME TypeOK, Claims, NEW c \in Call, NEW e \in Event,
           NEW r \in CallRecord, call' = [call EXCEPT ![c] = r],
           r.pc \in Working => r.ev = e /\ (past.overran \/ claim'[e] = "pending"),
           call[c].pc \in Working => call[c].ev = e,
           \/ claim' = claim
           \/ \E k \in {"absent", "pending", "completed"} : claim' = [claim EXCEPT ![e] = k],
           claim' # claim => \/ past.overran \/ call[c].pc \in Working
                             \/ \A d \in Call : call[d].pc \in Working => call[d].ev # e,
           (r.pc \in Working /\ call[c].pc \notin Working) =>
                past.overran \/ \A d \in Call : call[d].pc \in Working => call[d].ev # e,
           claim'[e] = "completed" => e \in processed',
           processed \subseteq processed', acked' \subseteq processed',
           past'.overran = past.overran
    PROVE  Claims'
<1>1. /\ call \in [Call -> CallRecord] /\ claim \in [Event -> {"absent", "pending", "completed"}]
      /\ \A d \in Call : call[d].pc # "idle" => call[d].ev \in Event
  BY WorkingCall DEF TypeOK
<1>2. /\ call'[c] = r /\ \A d \in Call \ {c} : call'[d] = call[d]
      /\ \A f \in Event \ {e} : claim'[f] = claim[f]
  BY <1>1
<1>3. CompletedWasProcessed'
  BY <1>2 DEF Claims, CompletedWasProcessed
<1>4. ASSUME ~past.overran, NEW d \in Call \ {c}, call[d].pc \in Working
      PROVE  claim'[call[d].ev] = "pending" /\ ~(r.pc \in Working /\ r.ev = call[d].ev)
  <2>1. claim[call[d].ev] = "pending" /\ call[d].ev \in Event
    BY <1>1, <1>4, PcFacts DEF Claims, CallHoldsClaim, Working
  <2>2. CASE call[d].ev # e
    BY <1>2, <2>1, <2>2
  <2>3. CASE call[d].ev = e
    <3>1. call[c].pc \notin Working
      BY <1>4, <2>3 DEF Claims, OneHandlerPerEvent, Working
    <3> QED
      BY <1>4, <2>1, <2>3, <3>1
  <2> QED
    BY <2>2, <2>3
<1>5. CallHoldsClaim'
  BY <1>2, <1>4 DEF CallHoldsClaim, Claims
<1>6. ASSUME NEW a \in Call, NEW b \in Call, ~past.overran, a # b,
             call'[a].pc \in Working, call'[b].pc \in Working
      PROVE  call'[a].ev # call'[b].ev
  <2>1. CASE a # c /\ b # c
    BY <1>2, <1>6, <2>1 DEF Claims, OneHandlerPerEvent, Working
  <2>2. CASE a = c \/ b = c
    BY <1>2, <1>4, <1>6, <2>2
  <2> QED
    BY <2>1, <2>2
<1>7. \A d \in Call : call'[d].pc \in Working \cup {"idle", "dup"}
  BY <1>1, <1>2 DEF CallRecord
<1>8. OneHandlerPerEvent'
  BY <1>6, <1>7 DEF OneHandlerPerEvent, Working
<1> QED
  BY <1>3, <1>5, <1>8 DEF Claims, AckedWasProcessed

LEMMA ClaimsUnchanged ==
    ASSUME Claims, UNCHANGED hookVars, past'.overran = past.overran
    PROVE  Claims'
  BY DEF Claims, hookVars, AckedWasProcessed, CompletedWasProcessed, CallHoldsClaim,
         OneHandlerPerEvent

(* A call that works on does so for its event, whose claim it has.           *)
LEMMA WorkKept ==
    ASSUME TypeOK, Claims, NEW c \in Call, call[c].pc \in Working,
           NEW pc \in Working, NEW s \in Status \cup {"none"},
           \/ call' = [call EXCEPT ![c].pc = pc]
           \/ call' = [call EXCEPT ![c].pc = pc, ![c].seen = s],
           UNCHANGED <<claim, acked, processed>>, past'.overran = past.overran
    PROVE  Claims'
<1>1. /\ call \in [Call -> CallRecord] /\ call[c] \in CallRecord /\ call[c].ev \in Event
      /\ claim \in [Event -> {"absent", "pending", "completed"}]
  BY WorkingCall DEF TypeOK, Working
<1>2. PICK r \in CallRecord : call' = [call EXCEPT ![c] = r] /\ r.pc = pc /\ r.ev = call[c].ev
  <2>1. CASE call' = [call EXCEPT ![c].pc = pc]
    <3>1. [call[c] EXCEPT !.pc = pc] \in CallRecord
      BY <1>1 DEF CallRecord
    <3> QED
      BY <1>1, <2>1, <3>1 DEF CallRecord
  <2>2. CASE call' = [call EXCEPT ![c].pc = pc, ![c].seen = s]
    <3>1. [call[c] EXCEPT !.pc = pc, !.seen = s] \in CallRecord
      BY <1>1 DEF CallRecord
    <3> QED
      BY <1>1, <2>2, <3>1 DEF CallRecord
  <2> QED
    BY <2>1, <2>2
<1>3. /\ past.overran \/ claim[call[c].ev] = "pending"
      /\ claim[call[c].ev] = "completed" => call[c].ev \in processed /\ acked \subseteq processed
      /\ acked \subseteq processed
  BY <1>1 DEF Claims, CallHoldsClaim, CompletedWasProcessed, AckedWasProcessed
<1> QED
  BY <1>1, <1>2, <1>3, ClaimsKept

(* A call that ends leaves its event's claim, or sets it.                    *)
LEMMA EndKept ==
    ASSUME TypeOK, Claims, NEW c \in Call, call[c].pc # "idle", End(c),
           \/ UNCHANGED claim
           \/ /\ call[c].pc \in Working
              /\ \E k \in {"absent", "pending", "completed"} :
                   claim' = [claim EXCEPT ![call[c].ev] = k],
           claim'[call[c].ev] = "completed" => call[c].ev \in processed',
           processed \subseteq processed', acked' \subseteq processed',
           past'.overran = past.overran
    PROVE  Claims'
<1>1. /\ call[c].ev \in Event /\ Idle \in CallRecord /\ Idle.pc \notin Working
      /\ call' = [call EXCEPT ![c] = Idle]
  BY WorkingCall, PcFacts DEF Idle, Working, End
<1> QED
  BY <1>1, ClaimsKept

LEMMA ClaimsNext ==
    ASSUME TypeOK, Claims, [Next]_vars
    PROVE  Claims'
<1> USE DEF orgVars, providerVars
<1>1. past \in Past
  BY DEF TypeOK
<1>2. \A c \in Call : call[c].pc # "idle" => call[c].ev \in Event
  BY WorkingCall
<1>3. acked \subseteq processed /\ \A f \in Event : claim[f] = "completed" => f \in processed
  BY DEF Claims, AckedWasProcessed, CompletedWasProcessed
<1>4. ASSUME ProviderMoves \/ DayPasses PROVE Claims'
  BY <1>4, ClaimsUnchanged
     DEF ProviderMoves, Checkout, ChargeFails, ChargeSucceeds, Cancel,
        BeginTrial, Lapse, ProviderStep, DayPasses
<1>5. ASSUME NEW w \in Worker, JobStart(w) \/ TrialFind(w) \/ JobStep(w) \/ JobFails(w)
      PROVE  Claims'
  <2>1. UNCHANGED hookVars /\ past'.overran = past.overran
    BY <1>1, <1>5 DEF JobStart, TrialFind, JobStep, JobFails, TrialExpire, JobFind, JobFlip,
                      JobTell, SetStatusOnly, Past
  <2> QED
    BY <2>1, ClaimsUnchanged
<1>6. ASSUME NEW c \in Call, NEW e \in Event, Deliver(c, e) PROVE Claims'
  <2> DEFINE R(pc) == [Idle EXCEPT !.pc = pc, !.ev = e]
  <2>1. /\ R("work") \in CallRecord /\ R("work").ev = e
        /\ R("dup") \in CallRecord /\ R("dup").pc \notin Working
        /\ call[c].pc \notin Working /\ claim \in [Event -> {"absent", "pending", "completed"}]
    BY <1>6 DEF Idle, CallRecord, Working, Deliver, TypeOK
  <2>2. CASE claim[e] = "absent"
    <3>1. past.overran \/ \A d \in Call : call[d].pc \in Working => call[d].ev # e
      BY <2>2 DEF Claims, CallHoldsClaim
    <3>2. /\ call' = [call EXCEPT ![c] = R("work")]
          /\ claim' = [claim EXCEPT ![e] = "pending"] /\ claim'[e] = "pending"
      BY <1>6, <2>1, <2>2 DEF Deliver
    <3>3. UNCHANGED <<acked, processed, past>>
      BY <1>6 DEF Deliver
    <3> HIDE DEF R
    <3> QED
      BY <1>3, <2>1, <3>1, <3>2, <3>3, ClaimsKept
  <2>3. CASE claim[e] # "absent"
    <3>1. call' = [call EXCEPT ![c] = R("dup")] /\ UNCHANGED <<claim, acked, processed, past>>
      BY <1>6, <2>3 DEF Deliver
    <3> HIDE DEF R
    <3> QED
      BY <1>3, <2>1, <3>1, ClaimsKept
  <2> QED
    BY <2>2, <2>3
<1>7. ASSUME NEW c \in Call, CallStep(c) PROVE Claims'
  <2> USE DEF Working
  <2>1. CASE Duplicate(c)
    <3>1. call[c].pc # "idle" /\ End(c) /\ UNCHANGED <<claim, processed, past>>
      BY <2>1 DEF Duplicate
    <3>2. acked' \subseteq processed'
      BY <1>2, <1>3, <2>1 DEF Duplicate
    <3> QED
      BY <1>2, <1>3, <3>1, <3>2, EndKept
  <2>2. CASE HandleDirect(c) \/ HandleFailed(c) \/ Record(c) \/ RecoverWrite(c) \/ RecoverTell(c)
    <3>1. /\ call[c].pc \in Working /\ UNCHANGED <<claim, acked, processed>>
          /\ \E pc \in Working : Go(c, pc)
      BY <2>2 DEF HandleDirect, HandleFailed, Record, RecoverWrite, RecoverTell
    <3>2. past'.overran = past.overran
      BY <1>1, <2>2 DEF HandleDirect, HandleFailed, Record, RecoverWrite, RecoverTell,
                        SetStatusOnly, Past
    <3> QED
      BY <3>1, <3>2, WorkKept DEF Go
  <2>3. CASE HandleSucceeded(c) \/ RecoverRead(c)
    <3>1. /\ call[c].pc \in Working /\ UNCHANGED <<claim, acked, processed, past>>
          /\ \E pc \in Working : call' = [call EXCEPT ![c].pc = pc, ![c].seen = org.status]
      BY <2>3 DEF HandleSucceeded, RecoverRead
    <3>2. org.status \in Status \cup {"none"}
      BY DEF TypeOK
    <3> QED
      BY <3>1, <3>2, WorkKept
  <2>4. CASE RecordThrows(c)
    <3>1. /\ call[c].pc \in Working /\ End(c) /\ UNCHANGED <<acked, processed, past>>
          /\ claim' = [claim EXCEPT ![call[c].ev] = "absent"]
      BY <2>4 DEF RecordThrows, Release
    <3>2. claim'[call[c].ev] # "completed"
      BY <1>2, <3>1 DEF TypeOK
    <3> QED
      BY <1>3, <3>1, <3>2, EndKept
  <2>5. CASE Finish(c)
    <3>1. /\ call[c].pc \in Working /\ End(c) /\ UNCHANGED past
          /\ processed' = processed \cup {call[c].ev}
          /\ acked' = acked \cup {call[c].ev} \/ acked' = acked
          /\ UNCHANGED claim \/ claim' = [claim EXCEPT ![call[c].ev] = "completed"]
      BY <2>5 DEF Finish
    <3> QED
      BY <1>3, <3>1, EndKept
  <2> QED
    BY <1>7, <2>1, <2>2, <2>3, <2>4, <2>5 DEF CallStep
<1>8. ASSUME NEW c \in Call, CallThrows(c) \/ CallDies(c) PROVE Claims'
  <2>1. CASE CallThrows(c)
    <3>1. /\ call[c].pc \in Working /\ End(c) /\ UNCHANGED <<acked, processed, past>>
          /\ claim' = [claim EXCEPT ![call[c].ev] = "absent"]
      BY <2>1 DEF CallThrows, Release, Working
    <3>2. claim'[call[c].ev] # "completed" /\ call[c].pc # "idle"
      BY <1>2, <3>1 DEF TypeOK, Working
    <3> QED
      BY <1>3, <3>1, <3>2, EndKept
  <2>2. CASE CallDies(c)
    <3>1. /\ call[c].pc \in Working /\ End(c) /\ UNCHANGED <<claim, acked, processed>>
          /\ past'.overran = past.overran
      BY <1>1, <2>2 DEF CallDies, Past
    <3>2. call[c].pc # "idle"
      BY <3>1 DEF Working
    <3> QED
      BY <1>2, <1>3, <3>1, <3>2, EndKept
  <2> QED
    BY <1>8, <2>1, <2>2
<1>9. ASSUME NEW e \in Event, ClaimExpire(e) PROVE Claims'
  <2>1. /\ claim' = [claim EXCEPT ![e] = "absent"] /\ UNCHANGED <<call, acked, processed>>
        /\ claim \in [Event -> {"absent", "pending", "completed"}]
    BY <1>9 DEF ClaimExpire, TypeOK
  <2>2. AckedWasProcessed' /\ CompletedWasProcessed'
    BY <1>3, <2>1 DEF AckedWasProcessed, CompletedWasProcessed
  <2>3. CASE Running(e) = {}
    <3>1. UNCHANGED past /\ \A d \in Call : call[d].pc \in Working => call[d].ev # e
      BY <1>9, <2>3 DEF ClaimExpire, Running
    <3> QED
      BY <2>1, <2>2, <3>1 DEF Claims, CallHoldsClaim, OneHandlerPerEvent
  <2>4. CASE Running(e) # {}
    <3>1. past'.overran
      BY <1>1, <1>9, <2>4 DEF ClaimExpire, Past
    <3> QED
      BY <2>2, <3>1 DEF Claims, CallHoldsClaim, OneHandlerPerEvent
  <2> QED
    BY <2>3, <2>4
<1>10. CASE UNCHANGED vars
  BY <1>10, ClaimsUnchanged DEF vars
<1> QED
  BY <1>4, <1>5, <1>6, <1>7, <1>8, <1>9, <1>10 DEF Next, ProviderMoves

-----------------------------------------------------------------------------
(* The clock of the ladder                                                   *)

Clock == ClockFollows /\ GraceHonoured

LEMMA DayFacts ==
    ASSUME TypeOK
    PROVE  /\ Day \cup {NoDay} \subseteq Int /\ today \in Int /\ today \in Day
           /\ entered \in Int /\ org.since \in Int /\ org.since \in Day \cup {NoDay}
           /\ org.status \in Status /\ NoDay \notin Day /\ NoDay \in Int
           /\ DaysToPublishLock \in Int /\ DaysToSuspend \in Int
  BY TenantEntitlementAssumption DEF TypeOK, Day, NoDay

LEMMA ClockUnchanged ==
    ASSUME Clock, UNCHANGED <<org, entered, today>>,
           past.carried => past'.carried, past.outrun => past'.outrun
    PROVE  Clock'
  BY DEF Clock, ClockFollows, GraceHonoured

(* A direct write keeps the clock, and says so when it should have ended.    *)
LEMMA ClockDirect ==
    ASSUME TypeOK, Clock, NEW st \in {"trial", "past_due", "active", "canceled"}, SetStatusOnly(st),
           UNCHANGED today
    PROVE  Clock'
<1>1. /\ org'.status = st /\ org'.since = org.since
      /\ entered' = IF org.status \notin Dunning /\ st \in Dunning THEN today ELSE entered
      /\ past'.outrun = past.outrun
      /\ past'.carried <=> (past.carried \/ (st \notin Dunning /\ org.since # NoDay))
  BY DEF SetStatusOnly, SetStatus, TypeOK, Past
<1>2. ClockFollows'
  BY <1>1, DayFacts DEF Clock, ClockFollows
<1>3. GraceHonoured'
  BY <1>1 DEF GraceHonoured
<1> QED
  BY <1>2, <1>3 DEF Clock

(* The other writes start the clock today, or end it.                        *)
LEMMA ClockSet ==
    ASSUME TypeOK, Clock, UNCHANGED today,
           \/ org.status \in {"active", "trial"} /\ SetStatus("past_due", today)
           \/ SetStatus("active", NoDay),
           past.carried => past'.carried, past.outrun => past'.outrun
    PROVE  Clock'
<1>1. CASE org.status \in {"active", "trial"} /\ SetStatus("past_due", today)
  <2>1. org'.status = "past_due" /\ org'.since = today /\ entered' = today
    BY <1>1 DEF SetStatus, Dunning
  <2> QED
    BY <2>1, DayFacts DEF Clock, ClockFollows, GraceHonoured, Dunning
<1>2. CASE SetStatus("active", NoDay)
  <2>1. org'.status = "active" /\ org'.since = NoDay
    BY <1>2 DEF SetStatus
  <2> QED
    BY <2>1 DEF Clock, ClockFollows, GraceHonoured, Dunning
<1> QED
  BY <1>1, <1>2

(* The rung that is taken was found old enough by the clock it is taken on.  *)
LEMMA ClockFlip ==
    ASSUME TypeOK, Clock, FoundOldEnough, NEW w \in Worker, JobFlip(w)
    PROVE  Clock'
<1> DEFINE from == Rungs[job[w].rung]
<1>1. job[w].rung \in 1 .. 3 /\ past \in Past
  BY DEF TypeOK, JobRecord
<1>2. CASE org.status # from
  BY <1>2, ClockUnchanged DEF JobFlip
<1>3. CASE org.status = from
  <2>1. /\ org'.status = To[from] /\ org'.since = org.since
        /\ past'.outrun <=> (past.outrun \/ org.since # job[w].since)
        /\ past'.carried <=> (past.carried \/ from = "suspended")
        /\ today' = today
    <3>1. /\ org' = [status |-> To[from], since |-> org.since] /\ today' = today
          /\ past' = [past EXCEPT !.outrun = @ \/ org.since # job[w].since,
                                  !.carried = @ \/ from = "suspended"]
      BY <1>3 DEF JobFlip, SetStatus
    <3> QED
      BY <1>1, <3>1 DEF Past
  <2>2. from \in Dunning
    BY <1>1, RungFacts
  <2>3. entered' = entered
    BY <1>3, <2>2 DEF JobFlip, SetStatus
  <2>4. job[w].since # NoDay /\ today - job[w].since >= Threshold[from]
    BY DEF JobFlip, FoundOldEnough
  <2>8. /\ from \in {"past_due", "publish_locked", "suspended"}
        /\ from = "past_due" => To[from] = "publish_locked"
                               /\ Threshold[from] = DaysToPublishLock
        /\ from = "publish_locked" => To[from] = "suspended" /\ Threshold[from] = DaysToSuspend
        /\ from = "suspended" => To[from] = "canceled"
    BY <1>1, RungFacts DEF Dunning
  <2>5. ClockFollows'
    BY <1>1, <1>3, <2>1, <2>2, <2>3, RungFacts DEF Clock, ClockFollows, Dunning
  <2>6. ASSUME ~past'.carried, ~past'.outrun, org'.status \in {"publish_locked", "suspended"}
        PROVE  today - entered >= Threshold[from]
    <3>1. org.since = job[w].since /\ ~past.carried
      BY <2>1, <2>6
    <3>2. org.since # NoDay
      BY <2>4, <3>1
    <3>3. entered <= org.since
      BY <1>3, <2>2, <3>1, <3>2 DEF Clock, ClockFollows
    <3>4. Threshold[from] \in Int
      BY <1>1, RungFacts
    <3> QED
      BY <2>4, <3>1, <3>3, <3>4, DayFacts
  <2>7. GraceHonoured'
    <3>1. CASE past'.carried \/ past'.outrun
      BY <3>1 DEF GraceHonoured
    <3>2. CASE ~past'.carried /\ ~past'.outrun
      <4>1. org'.status = "publish_locked" => today - entered >= DaysToPublishLock
        BY <2>1, <2>6, <2>8, <3>2
      <4>2. org'.status = "suspended" => today - entered >= DaysToSuspend
        BY <2>1, <2>6, <2>8, <3>2
      <4> QED
        BY <2>1, <2>3, <4>1, <4>2 DEF GraceHonoured
    <3> QED
      BY <3>1, <3>2
  <2> QED
    BY <2>5, <2>7 DEF Clock
<1> QED
  BY <1>2, <1>3

LEMMA ClockNext ==
    ASSUME TypeOK, Clock, FoundOldEnough, [Next]_vars
    PROVE  Clock'
<1> USE DEF orgVars, providerVars
<1>1. past \in Past
  BY DEF TypeOK
<1>2. ASSUME ProviderMoves PROVE Clock'
  BY <1>2, ClockUnchanged DEF ProviderMoves, Checkout, ChargeFails, ChargeSucceeds, Cancel,
        BeginTrial, Lapse, ProviderStep
<1>3. CASE DayPasses
  <2>1. today' = today + 1 /\ UNCHANGED <<org, entered, past>>
    BY <1>3 DEF DayPasses
  <2>2. ClockFollows'
    BY <2>1, DayFacts DEF Clock, ClockFollows
  <2>3. GraceHonoured'
    BY <2>1, DayFacts DEF Clock, GraceHonoured
  <2> QED
    BY <2>2, <2>3 DEF Clock
<1>4. ASSUME NEW c \in Call, NEW e \in Event, Deliver(c, e) \/ ClaimExpire(e) PROVE Clock'
  <2>1. UNCHANGED <<org, entered, today>> /\ past'.carried = past.carried
        /\ past'.outrun = past.outrun
    BY <1>1, <1>4 DEF Deliver, ClaimExpire, Past
  <2> QED
    BY <2>1, ClockUnchanged
<1>5. ASSUME NEW e \in Event, ClaimExpire(e) PROVE Clock'
  <2>1. UNCHANGED <<org, entered, today>> /\ past'.carried = past.carried
        /\ past'.outrun = past.outrun
    BY <1>1, <1>5 DEF ClaimExpire, Past
  <2> QED
    BY <2>1, ClockUnchanged
<1>6. ASSUME NEW c \in Call, CallStep(c) \/ CallThrows(c) \/ CallDies(c) PROVE Clock'
  <2>1. CASE HandleDirect(c)
    <3>1. PICK st \in {"trial", "past_due", "active", "canceled"} : SetStatusOnly(st)
      BY <2>1 DEF HandleDirect, Written
    <3> QED
      BY <2>1, <3>1, ClockDirect DEF HandleDirect
  <2>2. CASE HandleFailed(c)
    BY <2>2, ClockSet, ClockUnchanged DEF HandleFailed
  <2>3. CASE RecoverWrite(c)
    <3>1. past'.carried = past.carried /\ past'.outrun = past.outrun
      BY <1>1, <2>3 DEF RecoverWrite, Past
    <3> QED
      BY <2>3, <3>1, ClockSet DEF RecoverWrite
  <2>4. CASE \/ Duplicate(c) \/ HandleSucceeded(c) \/ Record(c) \/ RecordThrows(c)
             \/ RecoverRead(c) \/ RecoverTell(c) \/ Finish(c) \/ CallThrows(c) \/ CallDies(c)
    <3>1. UNCHANGED <<org, entered, today>> /\ past'.carried = past.carried
          /\ past'.outrun = past.outrun
      BY <1>1, <2>4 DEF Duplicate, HandleSucceeded, Record, RecordThrows, Release, RecoverRead,
                        RecoverTell, Finish, CallThrows, CallDies, Past
    <3> QED
      BY <3>1, ClockUnchanged
  <2> QED
    BY <1>6, <2>1, <2>2, <2>3, <2>4 DEF CallStep
<1>7. ASSUME NEW w \in Worker, JobStart(w) \/ TrialFind(w) \/ JobStep(w) \/ JobFails(w)
      PROVE  Clock'
  <2>1. CASE JobStart(w)
    <3>1. CASE org' = org
      BY <2>1, <3>1, ClockUnchanged DEF JobStart
    <3>2. CASE org' # org
      <4>1. /\ org.status \in Dunning /\ org'.status = org.status /\ org'.since = today
            /\ UNCHANGED <<today, entered, past>>
        BY <2>1, <3>2 DEF JobStart, TypeOK
      <4> QED
        BY <4>1, DayFacts DEF Clock, ClockFollows, GraceHonoured
    <3> QED
      BY <3>1, <3>2
  <2>2. CASE TrialExpire(w)
    BY <2>2, ClockDirect DEF TrialExpire
  <2>3. CASE JobFlip(w)
    BY <2>3, ClockFlip
  <2>4. CASE TrialFind(w) \/ JobFind(w) \/ JobTell(w) \/ JobFails(w)
    <3>1. UNCHANGED <<org, entered, today>> /\ past'.carried = past.carried
          /\ past'.outrun = past.outrun
      BY <1>1, <2>4 DEF TrialFind, JobFind, JobTell, JobFails, Past
    <3> QED
      BY <3>1, ClockUnchanged
  <2> QED
    BY <1>7, <2>1, <2>2, <2>3, <2>4 DEF JobStep
<1>8. CASE UNCHANGED vars
  BY <1>8, ClockUnchanged DEF vars
<1> QED
  BY <1>2, <1>3, <1>4, <1>5, <1>6, <1>7, <1>8 DEF Next, ProviderMoves

LEMMA FoundNext ==
    ASSUME TypeOK, FoundOldEnough, [Next]_vars
    PROVE  FoundOldEnough'
<1> USE DEF orgVars, providerVars, hookVars
<1>1. job \in [Worker -> JobRecord]
  BY DEF TypeOK
<1>2. ASSUME UNCHANGED <<job, today>> PROVE FoundOldEnough'
  BY <1>2 DEF FoundOldEnough
<1>3. ASSUME NEW w \in Worker, UNCHANGED today,
             \A v \in Worker \ {w} : job'[v] = job[v], job'[w].pc # "flip"
      PROVE  FoundOldEnough'
  BY <1>3 DEF FoundOldEnough
<1>4. ASSUME NEW w \in Worker, NextRung(w) \/ JobEnd(w)
      PROVE  (\A v \in Worker \ {w} : job'[v] = job[v]) /\ job'[w].pc # "flip"
  <2>1. ASSUME NEW j \in JobRecord, NEW i, NEW s, NEW p \in {"idle", "find"}
        PROVE  [j EXCEPT !.pc = p, !.rung = i, !.since = s].pc # "flip"
    BY DEF JobRecord
  <2>2. job[w] \in JobRecord
    BY <1>1
  <2>3. CASE JobEnd(w)
    <3>1. job' = [job EXCEPT ![w] = [job[w] EXCEPT !.pc = "idle", !.rung = 1, !.since = NoDay]]
      BY <2>3 DEF JobEnd
    <3> QED
      BY <1>1, <2>1, <2>2, <3>1
  <2>4. CASE job' = [job EXCEPT ![w].pc = "find", ![w].rung = @ + 1, ![w].since = NoDay]
    <3>1. job' = [job EXCEPT ![w] = [job[w] EXCEPT !.pc = "find", !.rung = job[w].rung + 1,
                                                   !.since = NoDay]]
      BY <1>1, <2>4
    <3> QED
      BY <1>1, <2>1, <2>2, <3>1
  <2> QED
    BY <1>4, <2>3, <2>4 DEF NextRung
<1>5. CASE DayPasses
  BY <1>5 DEF DayPasses, FoundOldEnough
<1>6. ASSUME NEW w \in Worker, JobStart(w) \/ TrialFind(w) \/ TrialExpire(w) \/ JobTell(w)
                               \/ JobFails(w)
      PROVE  FoundOldEnough'
  <2>1. (\A v \in Worker \ {w} : job'[v] = job[v]) /\ job'[w].pc # "flip"
    BY <1>1, <1>4, <1>6 DEF JobStart, TrialFind, TrialExpire, JobTell, JobFails, JobRecord
  <2>2. UNCHANGED today
    BY <1>6 DEF JobStart, TrialFind, TrialExpire, JobTell, JobFails
  <2> QED
    BY <1>3, <2>1, <2>2
<1>7. ASSUME NEW w \in Worker, JobFind(w) PROVE FoundOldEnough'
  <2>1. UNCHANGED today
    BY <1>7 DEF JobFind
  <2>2. CASE NextRung(w)
    BY <1>3, <1>4, <2>1, <2>2
  <2>3. CASE ~NextRung(w)
    <3>1. /\ org.since # NoDay /\ today - org.since >= Threshold[Rungs[job[w].rung]]
          /\ job' = [job EXCEPT ![w].pc = "flip", ![w].since = org.since]
      BY <1>7, <2>3 DEF JobFind
    <3>2. /\ \A v \in Worker \ {w} : job'[v] = job[v]
          /\ job'[w].since = org.since /\ job'[w].rung = job[w].rung
      BY <1>1, <3>1 DEF JobRecord
    <3> QED
      BY <2>1, <3>1, <3>2 DEF FoundOldEnough
  <2> QED
    BY <2>2, <2>3
<1>8. ASSUME NEW w \in Worker, JobFlip(w) PROVE FoundOldEnough'
  <2>1. (\A v \in Worker \ {w} : job'[v] = job[v]) /\ job'[w].pc # "flip"
    BY <1>1, <1>4, <1>8 DEF JobFlip, JobRecord
  <2> QED
    BY <1>3, <1>8, <2>1 DEF JobFlip
<1>9. ASSUME ProviderMoves PROVE FoundOldEnough'
  BY <1>2, <1>9 DEF ProviderMoves, Checkout, ChargeFails, ChargeSucceeds, Cancel,
        BeginTrial, Lapse, ProviderStep
<1>10. ASSUME NEW c \in Call, CallStep(c) \/ CallThrows(c) \/ CallDies(c) PROVE FoundOldEnough'
  BY <1>2, <1>10 DEF CallStep, Duplicate, HandleDirect, HandleFailed, HandleSucceeded, Record,
                     RecordThrows, Release, RecoverRead, RecoverWrite, RecoverTell, Finish,
                     CallThrows, CallDies
<1>11. ASSUME NEW c \in Call, NEW e \in Event, Deliver(c, e) PROVE FoundOldEnough'
  BY <1>2, <1>11 DEF Deliver
<1>12. ASSUME NEW e \in Event, ClaimExpire(e) PROVE FoundOldEnough'
  BY <1>2, <1>12 DEF ClaimExpire
<1>13. CASE UNCHANGED vars
  BY <1>2, <1>13 DEF vars
<1> QED
  BY <1>5, <1>6, <1>7, <1>8, <1>9, <1>10, <1>11, <1>12, <1>13 DEF Next, ProviderMoves, JobStep

-----------------------------------------------------------------------------
(* The theorems                                                              *)

LEMMA InitInv == Init => IInv
<1> SUFFICES ASSUME Init PROVE IInv
  OBVIOUS
<1>1. TypeOK
  BY InitTyped
<1>2. AckedWasProcessed /\ CompletedWasProcessed /\ CallHoldsClaim /\ OneHandlerPerEvent
  BY DEF Init, AckedWasProcessed, CompletedWasProcessed, CallHoldsClaim, OneHandlerPerEvent,
         Idle, Working
<1>3. ClockFollows /\ FoundOldEnough /\ GraceHonoured
  BY DEF Init, ClockFollows, FoundOldEnough, GraceHonoured, Dunning
<1> QED
  BY <1>1, <1>2, <1>3 DEF IInv

LEMMA NextInv == IInv /\ [Next]_vars => IInv'
  BY NextTyped, ClaimsNext, ClockNext, FoundNext DEF IInv, Claims, Clock

(* The inductive invariant holds: the claims of the webhook and the clock of *)
(* the ladder are what the code makes of them after every step.              *)
THEOREM Inductive == Spec => []IInv
  BY InitInv, NextInv, PTL DEF Spec

(* Every variable keeps its type, and a call handles an event that was sent. *)
THEOREM TypeCorrect == Spec => []TypeOK
  BY Inductive, PTL DEF IInv

(* An event that was answered with 200 was handled to its end, however many  *)
(* deliveries, crashes and expired claims there are.                         *)
THEOREM AckedHolds == Spec => []AckedWasProcessed
  BY Inductive, PTL DEF IInv

(* One delivery of an event is handled at a time, however many there are,    *)
(* until a claim ends under its handler.                                     *)
THEOREM OneHandlerHolds == Spec => []OneHandlerPerEvent
  BY Inductive, PTL DEF IInv

(* No rung is taken before its day, for any thresholds in order.             *)
THEOREM GraceHolds == Spec => []GraceHonoured
  BY Inductive, PTL DEF IInv

(* Nothing moves the clock of an unpaid organization.                        *)
THEOREM ClockKeptHolds == Spec => ClockKept
<1>1. IInv /\ [Next]_vars => [ClockStands]_vars
  <2> SUFFICES ASSUME IInv, Next, {org.status, org'.status} \subseteq Dunning, org.since # NoDay
               PROVE  org'.since = org.since
    BY DEF ClockStands
  <2> USE DEF orgVars, providerVars, hookVars
  <2>1. ASSUME NEW st, SetStatusOnly(st) PROVE org'.since = org.since
    BY <2>1 DEF SetStatusOnly, SetStatus
  <2>2. ASSUME NEW c \in Call, CallStep(c) PROVE org'.since = org.since
    <3>1. ~HandleFailed(c) \/ UNCHANGED org
      BY DEF HandleFailed, Dunning
    <3>2. ~RecoverWrite(c)
      BY DEF RecoverWrite, SetStatus, Dunning
    <3> QED
      BY <2>1, <2>2, <3>1, <3>2 DEF CallStep, Duplicate, HandleDirect, HandleSucceeded, Record,
                                    RecordThrows, Release, RecoverRead, RecoverTell, Finish
  <2>3. ASSUME NEW c \in Call, CallThrows(c) \/ CallDies(c) PROVE org'.since = org.since
    BY <2>3 DEF CallThrows, CallDies, Release
  <2>4. ASSUME NEW w \in Worker, JobStart(w) \/ TrialFind(w) \/ JobStep(w) \/ JobFails(w)
        PROVE  org'.since = org.since
    BY <2>1, <2>4 DEF JobStart, TrialFind, JobStep, JobFails, TrialExpire, JobFind, JobFlip,
                      JobTell, SetStatus
  <2>5. ASSUME NEW c \in Call, NEW e \in Event, Deliver(c, e) PROVE org'.since = org.since
    BY <2>5 DEF Deliver
  <2>6. ASSUME NEW e \in Event, ClaimExpire(e) PROVE org'.since = org.since
    BY <2>6 DEF ClaimExpire
  <2>7. ASSUME ProviderMoves \/ DayPasses
        PROVE  org'.since = org.since
    BY <2>7 DEF ProviderMoves, Checkout, ChargeFails, ChargeSucceeds, Cancel,
        BeginTrial, Lapse, ProviderStep, DayPasses
  <2> QED
    BY <2>2, <2>3, <2>4, <2>5, <2>6, <2>7 DEF Next, ProviderMoves
<1> QED
  BY <1>1, Inductive, PTL DEF Spec, ClockKept
================================================================================
