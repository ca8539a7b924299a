--------------------------- MODULE TenantEntitlement ---------------------------
(***************************************************************************)
(* The subscription status of ONE organization: the webhooks of the        *)
(* payment provider that change it, delivered again until they are         *)
(* answered with 200 and in any order, and the daily jobs that take an     *)
(* unpaid organization down the ladder                                     *)
(*     past_due -> publish_locked -> suspended -> canceled                 *)
(* and tell its screens when they go dark and when they come back.         *)
(*                                                                         *)
(* A handler is cut at its awaits.  The provider is external: it charges,  *)
(* and sends events about it.                                              *)
(***************************************************************************)
EXTENDS Integers, Sequences

CONSTANTS
    Call,                 \* webhook deliveries being handled at a time
    Worker,               \* middleware processes, each with its own cron
    DaysToPublishLock,    \* LADDER.DAYS_TO_PUBLISH_LOCK
    DaysToSuspend,        \* LADDER.DAYS_TO_SUSPEND
    DaysToCancel,         \* LADDER.DAYS_TO_CANCEL
    MaxDay,               \* bound: days
    MaxEvents,            \* bound: events the provider sends
    MaxFaults             \* bound: throws, crashes, lost answers

ASSUME TenantEntitlementAssumption ==
    /\ DaysToPublishLock \in Nat /\ DaysToSuspend \in Nat /\ DaysToCancel \in Nat
    /\ DaysToPublishLock <= DaysToSuspend /\ DaysToSuspend <= DaysToCancel
    /\ MaxDay \in Nat /\ MaxEvents \in Nat /\ MaxFaults \in Nat

VARIABLES
    org,        \* the organization's row: subscriptionStatus, entitlementStateSince
    recorded,   \* events whose payment is a billingTransaction row
    claim,      \* Redis webhook:processed:{provider}:{event}
    call,       \* the handleWebhookEvent calls
    job,        \* the cron job of each worker
    told,       \* the last tenant:suspended or tenant:resumed its screens got
    today,      \* the UTC day
    provider,   \* the provider: is the subscription paid
    kind,       \* the events sent so far
    acked,      \* those that were answered with 200
    faults,     \* faults so far
    processed,  \* history: events whose handler ran to its end
    entered,    \* history: the day the organization last stopped being in good standing
    past        \* history: see Past

orgVars == <<org, recorded, told, entered>>
hookVars == <<claim, call, acked, processed>>
providerVars == <<provider, kind>>
vars == <<orgVars, hookVars, job, today, providerVars, faults, past>>

Day == 0 .. MaxDay
NoDay == -1
Event == 1 .. MaxEvents
Sent == DOMAIN kind
Kind == {"failed", "succeeded", "updatedTrial", "updatedActive", "updatedPastDue",
         "updatedCanceled", "deleted", "checkout"}

Dunning == {"past_due", "publish_locked", "suspended"}
Status == Dunning \cup {"trial", "active", "canceled"}
Rungs == <<"past_due", "publish_locked", "suspended">>
To == [past_due |-> "publish_locked", publish_locked |-> "suspended", suspended |-> "canceled"]
Threshold == [past_due |-> DaysToPublishLock, publish_locked |-> DaysToSuspend,
              suspended |-> DaysToCancel]

(* What a claimed call still has to do; what it read of the row.             *)
Working == {"work", "record", "recover", "write", "tell", "finish"}
CallRecord == [pc : Working \cup {"idle", "dup"}, ev : Event \cup {0},
               seen : Status \cup {"none"}]
JobRecord == [pc : {"idle", "heal", "find", "flip", "tell", "expire"}, rung : 1 .. 3,
              since : Day \cup {NoDay}, ran : Day \cup {NoDay}]
Idle == [pc |-> "idle", ev |-> 0, seen |-> "none"]

(* Named exceptions of the properties: a clock was left behind when the      *)
(* organization left the ladder (carried); a rung was taken on the age of an *)
(* episode that had ended (outrun); a signal was lost (lost); a claim ended  *)
(* under a running call (overran).                                           *)
Past == [carried : BOOLEAN, outrun : BOOLEAN, lost : BOOLEAN, overran : BOOLEAN]

-----------------------------------------------------------------------------
(* Helpers                                                                   *)

Fault == faults < MaxFaults /\ faults' = faults + 1

(* A write of subscriptionStatus, and of the clock where the code writes it. *)
SetStatus(status, since) ==
    /\ org' = [status |-> status, since |-> since]
    /\ entered' = IF org.status \notin Dunning /\ status \in Dunning THEN today ELSE entered

(* A write of the status alone, by any path but the ladder and recover.      *)
SetStatusOnly(status) ==
    /\ SetStatus(status, org.since)
    /\ past' = [past EXCEPT !.carried = @ \/ (status \notin Dunning /\ org.since # NoDay)]

Go(c, pc) == call' = [call EXCEPT ![c].pc = pc]
End(c) == call' = [call EXCEPT ![c] = Idle]
Running(e) == {c \in Call : call[c].pc \in Working /\ call[c].ev = e}

-----------------------------------------------------------------------------
(* The provider (external)                                                   *)

Send(kinds) ==
    /\ Len(kind) + Len(kinds) <= MaxEvents
    /\ kind' = kind \o kinds

ProviderStep(from, to, kinds) ==
    /\ provider = from /\ provider' = to
    /\ Send(kinds)
    /\ UNCHANGED <<orgVars, hookVars, job, today, faults, past>>

(* Each charge is told twice: as an invoice and as a subscription.           *)
Checkout == ProviderStep("none", "paid", <<"checkout">>)
ChargeFails == ProviderStep("paid", "unpaid", <<"failed", "updatedPastDue">>)
ChargeSucceeds ==
    \E from \in {"paid", "unpaid"} : ProviderStep(from, "paid", <<"succeeded", "updatedActive">>)
Cancel == \E from \in {"paid", "unpaid"} : ProviderStep(from, "none", <<"deleted">>)

(* A subscription begins with a trial, or ends because nobody pays for it.   *)
BeginTrial == ProviderStep("none", "paid", <<"updatedTrial">>)
Lapse == ProviderStep("unpaid", "none", <<"updatedCanceled">>)

-----------------------------------------------------------------------------
(* The webhook: handleWebhookEvent                                           *)

(* Variant: only a completed event is a duplicate.                           *)
DeliverUnlessCompleted(c, e) ==
    /\ call[c].pc = "idle" /\ e \in Sent \ acked
    /\ claim[e] # "completed"
    /\ claim' = [claim EXCEPT ![e] = "pending"]
    /\ call' = [call EXCEPT ![c] = [Idle EXCEPT !.pc = "work", !.ev = e]]
    /\ UNCHANGED <<orgVars, acked, processed, job, today, providerVars, faults, past>>

(* A delivery, the first or a retry, and claimWebhookEvent.                  *)
Deliver(c, e) ==
    /\ call[c].pc = "idle" /\ e \in Sent \ acked
    /\ IF claim[e] = "absent"
         THEN /\ claim' = [claim EXCEPT ![e] = "pending"]
              /\ call' = [call EXCEPT ![c] = [Idle EXCEPT !.pc = "work", !.ev = e]]
         ELSE /\ call' = [call EXCEPT ![c] = [Idle EXCEPT !.pc = "dup", !.ev = e]]
              /\ UNCHANGED claim
    /\ UNCHANGED <<orgVars, acked, processed, job, today, providerVars, faults, past>>

(* Variant: a claim that is pending is answered with 200, too.               *)
DuplicateAlways(c) ==
    /\ call[c].pc = "dup"
    /\ acked' = acked \cup {call[c].ev}
    /\ End(c)
    /\ UNCHANGED <<orgVars, claim, processed, job, today, providerVars, faults, past>>

(* getWebhookEventState: 200 for a completed event, else 503.                *)
Duplicate(c) ==
    /\ call[c].pc = "dup"
    /\ acked' = IF claim[call[c].ev] = "completed" THEN acked \cup {call[c].ev} ELSE acked
    /\ End(c)
    /\ UNCHANGED <<orgVars, claim, processed, job, today, providerVars, faults, past>>

(* handleSubscriptionUpdated, handleSubscriptionCanceled and                 *)
(* handleCheckoutCompleted write the status and leave the clock.             *)
Written == [updatedTrial |-> "trial", updatedActive |-> "active", updatedPastDue |-> "past_due",
            updatedCanceled |-> "canceled", deleted |-> "canceled", checkout |-> "active"]

HandleDirect(c) ==
    /\ call[c].pc = "work" /\ kind[call[c].ev] \in DOMAIN Written
    /\ SetStatusOnly(Written[kind[call[c].ev]])
    /\ Go(c, "finish")
    /\ UNCHANGED <<recorded, told, claim, acked, processed, job, today, providerVars, faults>>

(* Variant: a repeated failure starts the clock again.                       *)
HandleFailedAgain(c) ==
    /\ call[c].pc = "work" /\ kind[call[c].ev] = "failed"
    /\ SetStatus("past_due", today)
    /\ Go(c, "finish")
    /\ UNCHANGED <<recorded, told, claim, acked, processed, job, today, providerVars, faults, past>>

(* handlePaymentFailed, beginPastDue.                                        *)
HandleFailed(c) ==
    /\ call[c].pc = "work" /\ kind[call[c].ev] = "failed"
    /\ IF org.status \in {"active", "trial"}
         THEN SetStatus("past_due", today)
         ELSE UNCHANGED <<org, entered>>
    /\ Go(c, "finish")
    /\ UNCHANGED <<recorded, told, claim, acked, processed, job, today, providerVars, faults, past>>

(* handlePaymentSucceeded reads the row,                                     *)
HandleSucceeded(c) ==
    /\ call[c].pc = "work" /\ kind[call[c].ev] = "succeeded"
    /\ call' = [call EXCEPT ![c].pc = "record", ![c].seen = org.status]
    /\ UNCHANGED <<orgVars, claim, acked, processed, job, today, providerVars, faults, past>>

(* records the transaction, which throws when it is there already,           *)
Record(c) ==
    /\ call[c].pc = "record" /\ call[c].ev \notin recorded
    /\ recorded' = recorded \cup {call[c].ev}
    /\ Go(c, IF call[c].seen \in Dunning THEN "recover" ELSE "finish")
    /\ UNCHANGED <<org, told, entered, claim, acked, processed, job, today, providerVars,
                   faults, past>>

(* and recovers: recover reads the status, writes "active" and clears the    *)
(* clock, and tells the screens if it had read "suspended".                  *)
RecoverRead(c) ==
    /\ call[c].pc = "recover"
    /\ call' = [call EXCEPT ![c].pc = "write", ![c].seen = org.status]
    /\ UNCHANGED <<orgVars, claim, acked, processed, job, today, providerVars, faults, past>>

(* Variant: the clock is not cleared.                                        *)
RecoverWriteKeepsClock(c) ==
    /\ call[c].pc = "write"
    /\ SetStatus("active", org.since)
    /\ Go(c, IF call[c].seen = "suspended" THEN "tell" ELSE "finish")
    /\ UNCHANGED <<recorded, told, claim, acked, processed, job, today, providerVars, faults, past>>

RecoverWrite(c) ==
    /\ call[c].pc = "write"
    /\ SetStatus("active", NoDay)
    /\ Go(c, IF call[c].seen = "suspended" THEN "tell" ELSE "finish")
    /\ UNCHANGED <<recorded, told, claim, acked, processed, job, today, providerVars, faults, past>>

(* The signal is sent once; that it does not arrive is only logged.          *)
RecoverTell(c) ==
    /\ call[c].pc = "tell"
    /\ \/ told' = "resumed" /\ UNCHANGED past
       \/ past' = [past EXCEPT !.lost = TRUE] /\ UNCHANGED told
    /\ Go(c, "finish")
    /\ UNCHANGED <<org, recorded, entered, claim, acked, processed, job, today,
                   providerVars, faults>>

(* completeWebhookEvent and the answer, either of which may be lost.         *)
Finish(c) ==
    /\ call[c].pc = "finish"
    /\ processed' = processed \cup {call[c].ev}
    /\ \/ /\ claim' = [claim EXCEPT ![call[c].ev] = "completed"]
          /\ acked' = acked \cup {call[c].ev}
          /\ UNCHANGED faults
       \/ /\ Fault
          /\ \/ claim' = [claim EXCEPT ![call[c].ev] = "completed"]
             \/ UNCHANGED claim
          /\ UNCHANGED acked
    /\ End(c)
    /\ UNCHANGED <<orgVars, job, today, providerVars, past>>

(* A throw releases the claim, whoever's it is, and the answer is not 200.   *)
Release(c) ==
    /\ claim' = [claim EXCEPT ![call[c].ev] = "absent"]
    /\ End(c)
    /\ UNCHANGED <<orgVars, acked, processed, job, today, providerVars, past>>

RecordThrows(c) ==
    /\ call[c].pc = "record" /\ call[c].ev \in recorded
    /\ Release(c)
    /\ UNCHANGED faults

CallThrows(c) ==
    /\ call[c].pc \in {"work", "record", "recover", "write"}
    /\ Fault
    /\ Release(c)

(* The process dies; the claim stays.                                        *)
CallDies(c) ==
    /\ call[c].pc \in Working
    /\ Fault
    /\ End(c)
    /\ past' = [past EXCEPT !.lost = @ \/ call[c].pc = "tell"]
    /\ UNCHANGED <<orgVars, claim, acked, processed, job, today, providerVars>>

(* Variant: the claim is set without a TTL.                                  *)
ClaimExpireNever(e) == claim[e] = "pending" /\ FALSE /\ UNCHANGED vars

(* WEBHOOK_PENDING_TTL_S, longer than a handler takes but for a fault.       *)
ClaimExpire(e) ==
    /\ claim[e] = "pending"
    /\ claim' = [claim EXCEPT ![e] = "absent"]
    /\ IF Running(e) = {}
         THEN UNCHANGED <<faults, past>>
         ELSE Fault /\ past' = [past EXCEPT !.overran = TRUE]
    /\ UNCHANGED <<orgVars, call, acked, processed, job, today, providerVars>>

-----------------------------------------------------------------------------
(* The daily jobs                                                            *)

JobEnd(w) == job' = [job EXCEPT ![w] = [@ EXCEPT !.pc = "idle", !.rung = 1, !.since = NoDay]]

(* expireTrials, whose find and update are two statements.                   *)
TrialFind(w) ==
    /\ job[w].pc = "idle" /\ org.status = "trial"
    /\ job' = [job EXCEPT ![w].pc = "expire"]
    /\ UNCHANGED <<orgVars, hookVars, today, providerVars, faults, past>>

TrialExpire(w) ==
    /\ job[w].pc = "expire"
    /\ SetStatusOnly("canceled")
    /\ JobEnd(w)
    /\ UNCHANGED <<recorded, told, hookVars, today, providerVars, faults>>

(* advanceLadder: once a day, when the process is up; a ladder organization  *)
(* without a clock gets one.                                                 *)
JobStart(w) ==
    /\ job[w].pc = "idle" /\ job[w].ran < today
    /\ job' = [job EXCEPT ![w].pc = "find", ![w].rung = 1, ![w].ran = today]
    /\ org' = IF org.status \in Dunning /\ org.since = NoDay
                THEN [org EXCEPT !.since = today] ELSE org
    /\ UNCHANGED <<recorded, told, entered, hookVars, today, providerVars, faults, past>>

(* Variant: one rung too many.                                               *)
NextRungBeyond(w) == IF job[w].rung > 3
                       THEN JobEnd(w)
                       ELSE job' = [job EXCEPT ![w].pc = "find", ![w].rung = @ + 1]

NextRung(w) == IF job[w].rung = 3
                 THEN JobEnd(w)
                 ELSE job' = [job EXCEPT ![w].pc = "find", ![w].rung = @ + 1, ![w].since = NoDay]

(* advanceRung finds the organization in its rung, old enough,               *)
JobFind(w) ==
    LET from == Rungs[job[w].rung] IN
    /\ job[w].pc = "find"
    /\ IF org.status = from /\ org.since # NoDay /\ today - org.since >= Threshold[from]
         THEN job' = [job EXCEPT ![w].pc = "flip", ![w].since = org.since]
         ELSE NextRung(w)
    /\ UNCHANGED <<orgVars, hookVars, today, providerVars, faults, past>>

(* and writes the next rung if the status is still the same.                 *)
JobFlip(w) ==
    LET from == Rungs[job[w].rung] IN
    /\ job[w].pc = "flip"
    /\ IF org.status = from
         THEN /\ SetStatus(To[from], org.since)
              /\ past' = [past EXCEPT !.outrun = @ \/ org.since # job[w].since,
                                      !.carried = @ \/ from = "suspended"]
         ELSE UNCHANGED <<org, entered, past>>
    /\ IF org.status = from /\ To[from] = "suspended"
         THEN job' = [job EXCEPT ![w].pc = "tell"]
         ELSE NextRung(w)
    /\ UNCHANGED <<recorded, told, hookVars, today, providerVars, faults>>

JobTell(w) ==
    /\ job[w].pc = "tell"
    /\ \/ told' = "suspended" /\ UNCHANGED past
       \/ past' = [past EXCEPT !.lost = TRUE] /\ UNCHANGED told
    /\ NextRung(w)
    /\ UNCHANGED <<org, recorded, entered, hookVars, today, providerVars, faults>>

(* SQL throws, or the process dies.                                          *)
JobFails(w) ==
    /\ job[w].pc # "idle"
    /\ Fault
    /\ JobEnd(w)
    /\ UNCHANGED <<orgVars, hookVars, today, providerVars, past>>

(* Handlers and jobs take seconds.                                           *)
DayPasses ==
    /\ today < MaxDay
    /\ \A c \in Call : call[c].pc = "idle"
    /\ \A w \in Worker : job[w].pc = "idle"
    /\ today' = today + 1
    /\ UNCHANGED <<orgVars, hookVars, job, providerVars, faults, past>>

-----------------------------------------------------------------------------
(* A trial, or a subscription that is paid.                                  *)
Init ==
    /\ \/ org = [status |-> "trial", since |-> NoDay] /\ provider = "none"
       \/ org = [status |-> "active", since |-> NoDay] /\ provider = "paid"
    /\ recorded = {} /\ told = "resumed" /\ entered = NoDay
    /\ claim = [e \in Event |-> "absent"] /\ call = [c \in Call |-> Idle]
    /\ acked = {} /\ processed = {}
    /\ job = [w \in Worker |-> [pc |-> "idle", rung |-> 1, since |-> NoDay, ran |-> NoDay]]
    /\ today = 0 /\ kind = <<>> /\ faults = 0
    /\ past = [carried |-> FALSE, outrun |-> FALSE, lost |-> FALSE, overran |-> FALSE]

CallStep(c) == \/ Duplicate(c) \/ HandleDirect(c) \/ HandleFailed(c) \/ HandleSucceeded(c)
               \/ Record(c) \/ RecordThrows(c) \/ RecoverRead(c) \/ RecoverWrite(c)
               \/ RecoverTell(c) \/ Finish(c)
JobStep(w) == TrialExpire(w) \/ JobFind(w) \/ JobFlip(w) \/ JobTell(w)

Next ==
    \/ Checkout \/ ChargeFails \/ ChargeSucceeds \/ Cancel \/ BeginTrial \/ Lapse \/ DayPasses
    \/ \E c \in Call : CallStep(c) \/ CallThrows(c) \/ CallDies(c)
    \/ \E c \in Call, e \in Event : Deliver(c, e)
    \/ \E e \in Event : ClaimExpire(e)
    \/ \E w \in Worker : JobStart(w) \/ TrialFind(w) \/ JobStep(w) \/ JobFails(w)

Spec == Init /\ [][Next]_vars

(* Handlers and jobs run to their end, Redis expires keys, and the provider  *)
(* retries what was not answered with 200, between other deliveries.         *)
FairSpec ==
    /\ Spec
    /\ \A c \in Call : WF_vars(CallStep(c))
    /\ \A w \in Worker : WF_vars(JobStep(w))
    /\ \A e \in Event : /\ WF_vars(ClaimExpire(e))
                        /\ SF_vars(\E c \in Call : Deliver(c, e))

-----------------------------------------------------------------------------
(* Properties                                                                *)

(* Every variable keeps its type, and a call handles an event that was sent. *)
TypeOK ==
    /\ org \in [status : Status, since : Day \cup {NoDay}]
    /\ recorded \subseteq Event /\ told \in {"suspended", "resumed"}
    /\ entered \in Day \cup {NoDay} /\ today \in Day
    /\ claim \in [Event -> {"absent", "pending", "completed"}] /\ call \in [Call -> CallRecord]
    /\ \A c \in Call : call[c].pc # "idle" => call[c].ev \in Sent
    /\ acked \subseteq Event /\ processed \subseteq Event
    /\ job \in [Worker -> JobRecord]
    /\ provider \in {"none", "paid", "unpaid"}
    /\ kind \in Seq(Kind) /\ Len(kind) <= MaxEvents
    /\ faults \in 0 .. MaxFaults /\ past \in Past

(* An event the provider may forget (it was answered with 200) was handled   *)
(* to its end: no crash, retry or expired claim drops one (billing.service   *)
(* "closes the claim-then-crash silent-drop").                               *)
AckedWasProcessed == acked \subseteq processed

(* At most one delivery of an event is being handled, unless a claim ended   *)
(* under a handler that took longer than its TTL.                            *)
OneHandlerPerEvent ==
    \A c, d \in Call :
        \/ past.overran \/ c = d \/ call[c].ev # call[d].ev
        \/ {call[c].pc, call[d].pc} \cap {"idle", "dup"} # {}

(* "A failed charge does not darken or publish-lock screens before day 7":   *)
(* a rung is reached only as many days after the organization left good      *)
(* standing as the ladder says, except by a clock that was left behind or    *)
(* the age of an episode that had ended.                                     *)
GraceHonoured ==
    \/ past.carried \/ past.outrun
    \/ /\ org.status = "publish_locked" => today - entered >= DaysToPublishLock
       /\ org.status = "suspended" => today - entered >= DaysToSuspend

(* While an organization is unpaid its clock stands: no repeated failure,    *)
(* retried or late event, and no second worker's run puts the rungs off.     *)
ClockStands ==
    {org.status, org'.status} \subseteq Dunning /\ org.since # NoDay
        => org'.since = org.since
ClockKept == [][ClockStands]_vars

(* "CANCELED ... tenant:resumed for the screens that stay"                   *)
(* (entitlement-state-machine.md): once nothing is running, the screens of a *)
(* canceled organization were told to come back, unless a signal was lost.   *)
CanceledIsResumed ==
    /\ \A c \in Call : call[c].pc = "idle"
    /\ \A w \in Worker : job[w].pc = "idle"
    /\ org.status = "canceled" /\ ~past.lost
    => told = "resumed"

(* Every event is answered with 200 in the end, whatever failed on the way,  *)
(* except a payment that was recorded by a call that did not finish: its     *)
(* retries fail on the recorded transaction for ever.                        *)
EventsAreAcked ==
    \A e \in Event :
        (e \in Sent) ~> (e \in acked \/ (e \in recorded /\ faults > 0))

(* The parts of the inductive invariant.  A call that handles an event holds *)
(* its claim, unless one ended under a call.                                 *)
CallHoldsClaim ==
    past.overran \/ \A c \in Call : call[c].pc \in Working => claim[call[c].ev] = "pending"

CompletedWasProcessed == \A e \in Event : claim[e] = "completed" => e \in processed

(* A clock that was not left behind stands at or after the day on which the  *)
(* organization left good standing, and only while it is unpaid.             *)
ClockFollows ==
    /\ org.status \in Dunning => entered # NoDay /\ entered <= today
    /\ \/ past.carried
       \/ /\ org.status \in Dunning /\ org.since # NoDay => entered <= org.since
          /\ org.status \notin Dunning => org.since = NoDay

(* A rung that is about to be taken was found old enough.                    *)
FoundOldEnough ==
    \A w \in Worker : job[w].pc = "flip" =>
        /\ job[w].since # NoDay
        /\ today - job[w].since >= Threshold[Rungs[job[w].rung]]

(* The inductive invariant: with the safety properties, what makes them hold *)
(* after every step from any state in which it holds.                        *)
IInv ==
    /\ TypeOK /\ AckedWasProcessed /\ CompletedWasProcessed
    /\ CallHoldsClaim /\ OneHandlerPerEvent
    /\ ClockFollows /\ FoundOldEnough /\ GraceHonoured
================================================================================
