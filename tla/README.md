# Vizora in TLA+

Vizora is a digital-signage platform: displays (an Electron client) play the content
that users of an organization manage in a dashboard.  This directory holds TLA+
models of its device path and of the subscription status that can darken its
screens, the TLC configurations that check them, and TLAPS proofs. Paths below are
relative to the repository's `src/` directory; GW is
`realtime/src/gateways/device.gateway.ts`.

## 1. The system

Three processes share a PostgreSQL database and a Redis instance.

| process | where | what it does |
|---|---|---|
| middleware (NestJS, two cluster workers) | `middleware/` | HTTP API of the dashboard and of unpaired devices; cron jobs; webhooks of the payment providers |
| realtime gateway (NestJS + socket.io) | `realtime/` | one socket per device and per dashboard; pushes playlists and commands, receives heartbeats |
| display client (Electron) | `display/` | keeps the device's JWT, polls while unpaired, plays |

The middleware calls the gateway over HTTP, nearly always without waiting for
the outcome and through a circuit breaker; the gateway never calls the
middleware.  They meet in the `Display` row, in Redis keys, and in the hash of a
JWT: the device holds the JWT, the row its SHA-256.

### Inventory

State, operations and the properties that make each component correct.
"Modelled" says where; section 2 gives the plan for the rest.

| component | state it keeps | operations | correct when | modelled |
|---|---|---|---|---|
| Device credential lifecycle (`device-handshake-auth.ts`, `device-token-hash.ts`, `guards/ws-auth.guard.ts`, refresh in GW 1296-1564) | `Display.jwtToken`, `isDisabled`; Redis grace record and cooldown; per-socket hash, expiry and `tokenRefreshIssued` | handshake, stored-hash check, refresh, revoke, re-pair | a device is let in iff its JWT belongs to the current lineage; a lost refresh never locks it out; two refreshes never race | `DeviceToken` |
| Device pairing (`pairing.service.ts`) | Redis requests, code claims, organization claims; the row | request a code, poll it, complete it | one completion per code; no tenant's display is taken; quota respected; the JWT reaches the device | `DevicePairing` |
| Display client (`device-client.ts`, `main.ts`, `renderer/app.ts`) | stored JWT, the socket and its auth, the code on screen | connect, reconnect, store a JWT, purge it, poll | drops its JWT only when told by a verdict about the JWT | both (credential and pairing screen) |
| Displays service (`displays.service.ts`) | the row, assignments | CRUD, pairing token, disable/enable, remove, stale-pairing reset, offline cron | a re-pair or a removal ends what came before; a reset lets the device back | both, in part |
| Delivery of playlists and commands (GW 246, 456-530, 1131-1250, 1902-2145; `redis.service.ts`) | pending playlist and commands in Redis, replay backoff, acknowledgements | push, ack, queue, replay on connect and heartbeat | the device ends on the latest assignment; nothing is dropped while it is within its TTL; a command is executed before the gateway lets go of it | `PlaylistDelivery`, `FleetOverrides` |
| Presence (GW 677-770, 1081-1296, 1565-1792; `notification.service.ts`) | `status`, the gateway's status cache, delayed offline notices | connect, heartbeat, disconnect, offline cron, notification loop | the row's status ends up being the device's; a reconnect cancels the notice; no outage is missed | `DevicePresence`, `OfflineNotices` |
| Entitlement ladder and billing webhooks (`billing/`) | subscription status, `entitlementStateSince`, webhook claims, transactions | start and end an episode, daily advance, provider webhooks | no rung before its day; screens that go dark are told when they may come back; a webhook is answered once it was handled, and handled by one at a time | `TenantEntitlement` |
| Fleet overrides and commands (`fleet.service.ts`) | Redis override records | create, clear, fan-out | a cleared override does not come back; one that is shown can be cleared | `FleetOverrides` |
| User sessions (`auth/`) | refresh-token families | login, rotate, revoke | a reused refresh token revokes its family | planned last |
| Content, playlists, schedules, storage quota, alert rules, webhooks, tag rules, groups, analytics, administration, agents, MCP, web dashboard | rows | CRUD, selection by time, I/O | mostly one conditional statement each | no |

`PROJECT.json` lists all of them with their files.

### What is hard

* Every handler awaits Redis or SQL several times, and what it read before may
  be stale when it writes: the stored-hash check around a rotation, a
  completion around another completion, the session sweep around a reconnect.
* Messages are lost exactly when the state on the two sides differs: a
  `token:refresh` after the database was rotated, a poll's answer after the
  request was deleted.
* A write may commit and be reported to have failed, so the clean-up of a
  failure runs after a success.
* Redis claims end by TTL, whether their owner is done or not.
* The middleware fires its gateway calls and forgets them.
* The only copy of a device's JWT is in one place at a time; losing it is a
  lock-out that an operator must end by hand.

The hazards, with their lines and the properties that answer them, are in
`PROJECT.json`; those without a property say why.

## 2. Modules and plan

| module | what it is | state |
|---|---|---|
| `DeviceToken` | the credential of one paired device, its sockets, the gateway, the grace record | checked, safety proved |
| `DeviceTokenProofs` | theorems about it | proved |
| `DevicePairing` | unpaired devices, codes, concurrent completions, quota | checked, safety proved |
| `DevicePairingProofs` | theorems about it | proved |
| `MCDevicePairing` | quotas and symmetry for TLC | - |
| `PlaylistDelivery` | how an assigned playlist reaches one device's screen: push, acknowledgement, queue, replay, cache | checked, safety proved |
| `PlaylistDeliveryProofs` | theorems about it | proved |
| `MCPlaylistDelivery` | symmetry for TLC | - |
| `AtLeastOnce` | abstract: what the gateway owes the commands it is given | refined |
| `FleetOverrides` | emergency overrides on one device, from the service to the screen, and the delivery of commands; implements `AtLeastOnce` | checked, safety and refinement proved |
| `FleetOverridesProofs` | theorems about it | proved |
| `DeviceConnections` | the sockets of one device, and how far its connect and disconnect handlers have run; no behaviour of its own | shared |
| `DeviceConnectionsProofs` | lemmas about its operations, for the two modules that extend it | proved |
| `DevicePresence` | extends it: the row's status, the status cache, heartbeats, the offline cron | checked, types and the one connection proved |
| `DevicePresenceProofs` | theorems about it | proved |
| `OfflineNotices` | extends it: the delayed offline notice, the loop that raises it, the dashboards | checked, safety proved |
| `OfflineNoticesProofs` | theorems about it | proved |
| `TenantEntitlement` | the subscription status of one organization: provider webhooks, ladder, trial expiry, the signal to its screens | checked, safety proved |
| `TenantEntitlementProofs` | theorems about it | proved |
| `MCTenantEntitlement` | symmetry for TLC | - |

Next, in this order:

1. **User sessions**: refresh-token families (`auth/refresh-token.service.ts`):
   rotate, reuse detection, revoke, with crashes between revoke and insert.
2. An abstract specification of playlist delivery (*the device shows some
   assignment, and after it is quiet the latest*), with the places where the code
   does not implement it.
3. Compositions: pairing hands a JWT to `DeviceToken`'s initial state, and a
   *let in iff current lineage* specification for `DeviceToken`.

## 3. DeviceToken

One paired device.  A JWT is the number of its signature and stands for its
hash.  `root[t]` is history: the operator-issued JWT that `t` descends from by
refreshes; `current` is the last operator-issued one.

| TLA+ | code |
|---|---|
| `display` | the row: existence, `isDisabled`, `jwtToken` |
| `grace` | Redis `device:token:grace:{id}`: {prev, next}, living as long as the JWT of the handshake |
| `cooldown` | Redis `device:token:refresh-cooldown:{id}` |
| `sock[s]` | a socket as the gateway knows it: its stage, the JWT of its handshake, `client.data.deviceTokenHash`, `tokenRefreshIssued` |
| `deviceSockets` | the gateway's Map entry |
| `refresh[s]`, `check[s]` | a `maybeRefreshDeviceToken` call and a stored-hash check, between two awaits |
| `client`, `inbox` | the Electron client and what is on its way to it |
| `HandshakeRow`, `HandshakeGrace` | `authenticateDeviceHandshake`, one action per read |
| `HandleConnection`, `HandleUnverifiedConnection` | `handleConnection` / `authenticateConnection`, with and without the middleware's verdict |
| `CheckRead`, `CheckDecide` | `WsDeviceGuard` and `isCurrentDeliveryDeviceSocket`, before and after the await |
| `Heartbeat` | `handleHeartbeat`, whose last step is the refresh |
| `RefreshClaim` ... `RefreshEmit`, `DeleteOwnedGrace*` | `maybeRefreshDeviceToken`, one action per await |
| `GeneratePairingToken`, `DisableDevice`, `EnableDevice`, `Remove`, `RevokeDevice` | `displays.service.ts` and the gateway's `revokeDevice` |
| `LoseConnection`, `GatewayRestart`, the `Fault` disjuncts | the failures |
| `BecomeNear`, `Expire`, `CooldownExpire`, `GraceExpire` | days passing |

Abstractions.  A failure inside `setupDeviceRooms` or `sendInitialState` is a lost
connection and a skipped refresh.  The JWT that `generatePairingToken` returns to
the operator is not carried to the device.  Moving a row to another organization
is its removal, for the device.  The floor and cap of the grace record's TTL are
left out, its end follows the JWT's.  Whether a tenant is suspended is a free
choice.  Time passes only when the handlers, which take milliseconds, are done,
and a JWT expires under an open socket only once that socket's heartbeats (some
80,000 in fourteen days) have nothing left to do for it.

Runs.

| run | bounds | shows |
|---|---|---|
| `device_token` | 2 sockets, 3 JWTs, 1 fault, 1 operator action (206,000 states) | all the properties below, in every interleaving |

* `NoRevival`: nothing issued before an operator's re-pair is let in, or
  delivered to, after it.
* `SurvivesLostRefresh`: the JWT the device holds is let in until it expires,
  wherever a refresh stopped, with two named exceptions (a refresh begun on a
  grace-accepted socket; a rotation that committed and was reported failed).
* `OneRotationAtATime`: the cooldown serialises refreshes.
* `GoodJwtIsLetIn`: the handshake reads the row, awaits, and reads the grace
  record; a rotation, or several, may come between.  A JWT that is good when the
  handshake is answered is let in all the same.  The code relies for this on two
  orders nobody states together: the record is written before the row, and the
  rotation's `where` names the old hash (the variant `RotatesAny` drops it).  The
  one exception is a record that could not be read, which the code answers with
  the terminal code (section 11): so a failure of Redis alone can make a device
  drop a good JWT after a rotation, and no property denies it.
* `FirstRefreshArrives`: a device connected in the last fourteen days of its first
  JWT holds the next one and is let in on it, unless it disconnects, or a fault or
  an operator comes between.  What a fault then leaves behind is
  `SurvivesLostRefresh`.

Why the bounds are enough: the code compares a JWT with the row's hash and with
the two ends of one grace record, so three JWTs are the device's, the stored one
and an intermediate one; the Map has one entry, so two sockets give the old and
the new one; one fault can fall at any await of a refresh or a handshake, and one
operator action in any place of a refresh is every race with an operator.  The
safety properties are proved for any number of each (section 10).

Fairness: sent messages arrive, handlers finish, Redis expires keys, and a device
that stays connected heartbeats (`DeviceClient` has a 15 s timer).  Heartbeats get
strong fairness because a running check disables and enables them again and
again, while the timer does not stop.  Nothing is assumed of operators or of
faults.

## 4. DevicePairing

Several devices, organizations and completions at once.

| TLA+ | code |
|---|---|
| `row[d]` | the `Display` row with this `deviceIdentifier`; `id` counts its reincarnations |
| `request[c]` | Redis `pairing:{code}` and the JWT in it |
| `claim[c]`, `orgClaim[o]` | the SET NX claims of a code and of an organization's new display; `Orphan` is a claim its call can no longer release |
| `comp[p]` | a `completePairing` call between two awaits, with the row id it read |
| `device[d]`, `poll[d]` | the client and its `checkPairingStatus` call |
| `AskCode`, `StoreCode` | `requestPairingCode`, its check of the row and its write |
| `PollRead`, `PollDelete`, `PollReply` | `checkPairingStatus` |
| `Start` ... `Release`, `FinalizeFails`, `CallThrows` | `completePairing`, with its `finally` |
| `DeviceConnect`, `DevicePurge` | a summary of the gateway that `DeviceToken` details |
| `MiddlewareCrash`, `Fault` | restarts, failed or lost calls |
| `Expire`, `ClaimExpire`, `OrgClaimExpire` | TTLs; a claim that ends under a running call sets `overran` |
| `Remove`, `ResetStale` | `displays.service.ts` |

Abstractions.  A code is drawn once (32^6 codes): the uniqueness loop, and what
it does when Redis fails, are left out.  A request is dropped when its code
expires, because every reader refuses an expired one.  The index of active codes
and `getActivePairings` are left out.  Displays that the dashboard creates or
enables during a pairing do not count in the quota here: `QuotaGuard` checks and
creates without a claim, so the property is about pairings only.  The find and
the write of `remove` and of `resetStalePairingDevices` are one step each.  The
app's restart is `AskCode`, which an unpaired device may do at any time.

Runs.

| run | bounds | shows |
|---|---|---|
| `device_pairing` | 2 devices, 1 organization of 1 screen, 2 calls, 2 codes, 3 JWTs, 1 fault (580,000 states) | quota, one completion at a time, lock-outs only by the named causes |
| `device_pairing_live` | 1 device, 2 organizations, 2 calls, 2 codes, 1 removal (330,000 states) | no display changes tenant; a waiting JWT arrives |
| `pairing_reset` | 1 device, 3 codes, 1 call, no fault | a violation: the reset does not let the device back |

Why the bounds are enough: the quota needs two devices and one free place; a
claim is between two calls; a code matters as the one shown, the one before it,
and (for the reset) one asked after it; a tenant change needs two organizations
and a removed and re-created row; one fault can fall on every await.

Fairness: the client's timer polls, and asks for a code when it shows no
unexpired one; the middleware finishes its calls.  No one has to complete a code.

## 5. PlaylistDelivery

One paired device whose credential does not change, and one gateway.  An
assignment is its number, in the order of the database writes; 0 is what the
device was paired with and shows.

| TLA+ | code |
|---|---|
| `assigned` | `Display.currentPlaylistId`, with the playlist's contents |
| `push[v]` | the HTTP push of assignment `v` and its `sendPlaylistUpdate` call |
| `pending` | Redis `device:pending-playlist:{id}` |
| `cache` | Redis `playlist:{id}` |
| `replayVersion`, `failures` | the gateway's Maps `pendingPlaylistReplayVersions`, `heartbeatReplayState` |
| `sock`, `deviceSockets` | open sockets, and the Map entry for the device |
| `replay[<<s, k>>]` | `sendInitialState` (`k` = "initial") and `replayPendingDeliveries` ("heartbeat") of a socket, each with the playlist it holds and the version it read |
| `request[s]` | the `playlist:request` on a socket |
| `client`, `inbox` | the Electron client, its screen, and what the gateway emitted to it |
| `Assign` | `displays.service.ts` `update`, `bulkAssignPlaylist`, and an edit in `playlists.service.ts`: row first, push after, maybe lost |
| `PushFind`, `PushEmit`, `PushTimeout` | `sendPlaylistUpdate`: `fetchSockets`, filter and emit, ten seconds |
| `InitialTake`, `Heartbeat`, `ReplayEmit`, `ReplayTimeout`, `Requeue`, `ConsumeThrows`, `ReplayThrows` | `deliverPendingPlaylist`, cut at its awaits, with what it does when Redis or SQL throws |
| `InitialRead`, `InitialEmit` | the rest of `sendInitialState` |
| `RequestCache` ... `RequestReply` | `handlePlaylistRequest` and `getDevicePlaylist` |
| `ClientReceive`, `ClientRejects`, `AckLost` | the client's handler, with what its acknowledgement does at the gateway |
| `Connect`, `HandleDisconnect`, `LoseConnection`, `GatewayRestart`, `PendingExpire`, `CacheExpire` | connections, failures, TTLs |

Abstractions.  One Redis connection answers in order, so the consume of the
queued playlist is one step, and a write and the code before it are one step.
The arrival of an acknowledgement at the gateway is merged with the client's
apply; that it gets lost is `AckLost`.  The handshake and the Map entry are one
step.  The client sends its first heartbeat as it connects
(`device-client.ts:329, 498`), so the connect's replay and a heartbeat's run side
by side on one socket; two heartbeats' do not, for they are 15 s apart and an
acknowledgement is waited for 10 s.  What an ended wait gave up may still arrive
(`Forget`).  The delays of the replay's backoff are left
out, its limit is not (5 in the code, 1 in the runs: what matters is being
reached and being reset).  A command replay's failure, which also counts in the
code, is left out with commands, and so are the `config` message and overrides.
Commands being empty, the result of a playlist replay is recorded when it ends.
The client's persisted last-known-good playlist and its app restart are left
out; so is a legacy client without acknowledgements.  A playlist whose row has
none assigned, and the organization's fallback, are left out: a row here always
has one.

Runs.

| run | bounds | shows |
|---|---|---|
| `playlist_delivery` | 2 sockets (interchangeable), 2 new assignments, 1 fault, the device's request at its first connect (605,000 states) | the two safety properties below |
| `playlist_reconnect` | 2 sockets, 1 new assignment, 1 fault, 2 requests | a violation: a reconnected device goes back to an older playlist |

* `NothingLost`: the playlist whose push ended last is queued, was shown, or is
  held by a replay that will show or requeue it, whichever of the two replays of
  whichever socket has it.  Two named exceptions: a Redis or SQL failure with the
  consume or after it, a crash of the gateway, or the end of the queued
  playlist's half hour, while the device is away or the heartbeat's replay has
  given up (`dropped`);
  and the requeue of an older playlist over a newer one queued meanwhile
  (`overwritten`; queueing, unlike an acknowledged push, does not raise
  `replayVersion`).
* `OvertakenStaysOut`: what was queued or held when a push was acknowledged is
  not queued again; this is what `replayVersion` is for.

Why the bounds are enough: a race of delivery is between the playlist a replay
holds and one that is pushed, so two new assignments; sockets matter as the old
and the new one; the fault can fall at any await.  A request touches the safety
properties only by what the screen has shown: one, answered from a cache that
may be filled or empty, comes at any moment of a delivery.  With a request at
both connects the run has 4.9 million states and finds no more.

What the model shows that no line of the repository forbids, and that a property
therefore does not claim: an older push that times out after a newer one was
acknowledged queues itself, and `sendInitialState` then prefers it to the row
(`ordering` hazard at GW 2100); a `sendInitialState` that read the row before an
assignment emits after its push; and the two replays of a socket may each hold a
playlist and emit the older one last (GW 1921).

Fairness (`FairSpec`, for the violation only): handlers end, what is emitted
arrives, the client reconnects (`reconnectionAttempts: Infinity`) and
heartbeats.  A weaker assumption would let the system stop before the reply.

## 6. TenantEntitlement

The row of one organization, the payment provider (external: it charges, sends
events about it, and sends each again until it is answered with 200), the
webhook handlers, and the daily jobs of both middleware processes.

| TLA+ | code |
|---|---|
| `org` | `subscriptionStatus` and `entitlementStateSince`, the clock of an unpaid episode |
| `claim[e]` | Redis `webhook:processed:{provider}:{event}`: absent, pending (with a TTL), completed |
| `recorded` | the `billingTransaction` rows, unique per provider id |
| `call[c]` | a `handleWebhookEvent` call between two awaits, with the status it read |
| `BeginTrial`, `Checkout`, `ChargeFails`, `ChargeSucceeds`, `Cancel`, `Lapse` | the provider: which events follow from what happens to a subscription |
| `Deliver`, `Duplicate`, `Finish`, `Release`, `ClaimExpire` | `claimWebhookEvent`, the 200 or 503 for a duplicate, `completeWebhookEvent`, the release in the catch, the pending TTL |
| `HandleDirect`, `Written` | `handleSubscriptionUpdated` (trial, active, past_due or canceled), `handleSubscriptionCanceled`, `handleCheckoutCompleted`: the status alone, never the clock |
| `HandleFailed` | `handlePaymentFailed` / `beginPastDue`: only from `active` or `trial` |
| `HandleSucceeded`, `Record`, `Recover*` | `handlePaymentSucceeded`: read the row, insert the transaction, `recover` by a read and a later write, the signal to the screens |
| `JobStart`, `JobFind`, `JobFlip`, `JobTell` | `advanceLadder`: heal a missing clock, then per rung find, update if the status is still the same, tell the screens |
| `TrialFind`, `TrialExpire` | `expireTrials` |
| `CallThrows`, `CallDies`, `JobFails` | failures |

Abstractions.  Handlers and jobs take seconds, so a day passes when none runs;
one `updateMany` of the ladder over many organizations is one over this one.  The
completed claim's TTL of days, the provider's statuses that are mapped to none of
ours and leave the row alone, e-mails and the plan's fields are left out.

Runs.

| run | bounds | shows |
|---|---|---|
| `entitlement_ladder` | 4 days with thresholds 1, 2, 3; 4 events, 1 delivery at a time, 2 workers (interchangeable), no fault (2.6 million states) | the ladder's properties with events in any order |
| `entitlement_holding` | 4 days, 2 events, 1 delivery, 1 worker, no fault | a violation: the step from the holding screen to canceled brings no screen back |
| `billing_webhooks` | 2 deliveries at a time, 2 events, 2 faults, 1 day (131,000 states) | the claim's properties and that events are answered |

* `GraceHonoured`: a rung is reached only as many days after the organization
  left good standing as the ladder says.  Exceptions: a clock that a direct write
  left behind (`carried`), and a rung found on the age of an episode that had
  ended and begun again (`outrun`).
* `ClockKept`: while an organization is unpaid, nothing moves its clock.
* `CanceledIsResumed` (violated): an organization that was darkened and is
  canceled has been told to resume, as the design document says of the screens
  that stay.  No path that writes `canceled` tells anybody.  There is no property
  that dark screens always have a suspended organization: a direct write, a
  `recover` that read an earlier rung, a suspension told after the recovery and a
  signal that is lost each leave them dark, and that is every way an organization
  leaves its holding screen but one.
* `AckedWasProcessed`, `OneHandlerPerEvent`: no event is answered with 200 before
  it was handled to its end, and none is handled twice at once (but for a claim
  that ended under its handler).
* `EventsAreAcked`: every event is answered in the end, but for a payment whose
  transaction was recorded by a call that did not finish.

Why the bounds are enough: three thresholds need four days; an episode that ends
and begins again needs two charges, each two events; a duplicate needs two
deliveries, and a fault in each of two handlers.

Fairness: handlers and jobs end, Redis expires keys, and the provider retries.
The retry gets strong fairness because it is possible only between the
deliveries of other events.

## 7. DevicePresence and OfflineNotices

Both extend `DeviceConnections`, which has the sockets of one device, the
gateway's Map entry, and for each socket how far `handleConnection` (`greeting`)
and `handleDisconnect` (`parting`) have run.  `disconnect(true)` on the socket that
is replaced runs its `handleDisconnect` up to the first await before the Map has
the new one (`Accept`), so the two sockets' handlers overlap.

| TLA+ | code |
|---|---|
| `row` | `display.status`, and whether `lastHeartbeat` is younger than the threshold |
| `statusCache` | the gateway's `deviceStatusCache` |
| `GreetCheck`, `GreetWrite` | `setupDeviceRooms`: the row is written unless the cache says online |
| `PartCache`, `PartWrite` | `handleDisconnect`: the cache entry goes, then the row |
| `Heartbeat`, `BeatWrite` | `handleHeartbeat` when `shouldWriteHeartbeatToDb` |
| `CronFind`, `CronMark` | `detectOfflineDevices`: find, then mark by id |
| `CleanupStaleEntries` | the gateway's five-minute clean-up |
| `scheduled`, `fired` | Redis `notify:offline:{id}`, `notify:fired-offline:{id}` |
| `GreetAsk`, `GreetCancel`, `GreetNotify` | `broadcastDeviceOnline` |
| `Show`, `ShowThrows`, `GreetThrows` | `emitToOrganization`; an exception, or one of Redis, ends in the device's disconnect (GW 843) |
| `PartSchedule` | the rest of `handleDisconnect`, whose exceptions are only logged (GW 1658) |
| `ScanFind`, `ScanCreate`, `ScanFire`, `ScanEnd` | `checkPendingNotifications` |
| `FiredExpire`, `KeyExpire` | the TTLs: the marker's day, the waiting key's five minutes |
| `notice`, `dashboard` | the last notification row, the last `device:status` |

Abstractions.  Redis `device:status:{id}` is written and read by nothing.  The
waiting key lives for five minutes, two of them the delay, and the loop runs every
30 s: its expiry is a fault.  The suppression of notices per device, a notification
lost to a removed organization, and `updateHeartbeat` of the HTTP API are left out.
A connected device whose row goes stale is a fault: some 60 s refresh must have
failed.

Runs.

| run | bounds | shows |
|---|---|---|
| `device_presence` | 2 sockets, 2 cron workers, 2 faults | the row of a device that stays connected says online in the end, of one that stays away offline |
| `offline_notices` | 2 sockets, 1 fault (551,000 states) | a device that is back is not alarmed about, no outage is missed |

* `ConnectedIsOnline`, `AwayIsOffline`: the races do write the wrong status (the
  disconnect of the old socket after the connect of the new, the cron after a
  heartbeat, a connect that trusts the cache); what saves the row is that the
  heartbeat and the cron write again, and these properties are about that.
* `ConnectedIsNotAlarmed`: once the handlers have run, a device that is connected
  is shown online, nothing waits to be told of it, and the last alarm about it was
  taken back by a "Device Online".
* `AwayIsAlarmed`: once the handlers have run, a device that is away is shown
  offline and has been alarmed or will be.

  Neither holds of the code without exceptions; these are all there are.  None
  lasts: each excuses one conjunct, and is taken back by the step that begins
  anew what it is about.

  | exception | what happened | excuses | until |
  |---|---|---|---|
  | `crossed` | the old socket's disconnect ended after the new connect's cancel | being shown offline, a notice that waits, an alarm | the next cancel of the current connection |
  | `raced` | the loop created the notification as a connect cancelled it | the alarm | the next alarm or "Device Online" |
  | `masked` | the reconnect that would have taken the alarm back was cut, and the next sees a younger outage's key | the alarm | the same |
  | `expired` | the marker's day was over (`notification.service.ts:155-159`), or the key's five minutes before the marker was set | the alarm | the same |
  | `unanswered` | the "Device Online" could not be created, or the gateway died before it was | the alarm | the same |
  | `outlived` | the connect ended after its own disconnect | both parts of `AwayIsAlarmed` | the next disconnect |
  | `clobbered` | the loop deleted this outage's key with the last one's | the alarm that was not raised | the next disconnect |
  | `unscheduled` | the key was not written, or expired unseen, or the gateway died with the connection | the alarm that was not raised | the next disconnect |
  | `unshown` | telling the dashboards threw, or the gateway died with the connection | being shown online | the next disconnect |

  A fault that is not in the table excuses nothing: a connect that Redis or a
  dashboard's socket fails is disconnected and comes back, and what it had not
  done is done then.
* `AlarmIsSettled`: a waiting notice is raised or called off.

Why the bounds are enough: the Map has one entry, so a race is between the old
socket and the new; each of two crons can have read before the other wrote; a
fault falls at any await.  The safety properties are proved for any number of
sockets and faults (section 10).

Fairness: handlers end, the gateway notices a dead connection (45 s ping
timeout), a connected device heartbeats every 15 s and refreshes its row every
60 s, the cron runs every minute and the notification loop every 30 s.  Nobody
has to reconnect.

## 8. FleetOverrides and AtLeastOnce

`AtLeastOnce` says what the gateway owes a command: it stays open until it was
executed or dropped with a cause (a crash, a TTL, a throwing Redis), and it is
not executed after the gateway has let go of it.  `FleetOverrides` is the code, and
`KeepsPromise` the refinement: `open` is what is running, held by a replay, queued
or on its way.

| TLA+ | code |
|---|---|
| `fleet[n]`, `records` | `sendCommand`/`createOverride` of override `n`, Redis `override:{org}:{commandId}` |
| `call[c]` | the gateway's `sendCommand` of a command, cut at its awaits |
| `queue` | Redis `device:commands:{id}` |
| `initial[s]` | `sendInitialState` of socket `s` has the queue still to drain |
| `replay[r]` | `deliverPendingCommands` after the drain, of a connect or of a heartbeat, with the commands it holds; two may overlap |
| `failures` | `heartbeatReplayState`: heartbeats in a row that requeued something; a connect's drain neither looks at it nor counts |
| `inbox`, `overlay` | what was emitted to the device; its `overrideState` |
| `PushContent`, `CreateOverride`, `SendCommandFails`, `ClearOverride`, `RecordExpire` | `fleet.service.ts` |
| `SendFind`, `SendEmit`, `SendTimeout` | the gateway's `sendCommand` and `emitWithDeliveryAck` |
| `InitialDrain`, `InitialSkip` | the end of `sendInitialState` (GW 1241-1247), and its return before it when a pending playlist was handled (1148) |
| `Heartbeat`, `ReplayNext`, `ReplayTimeout`, `ReplayRequeue`, `ReplayThrows` | `replayPendingDeliveries` and `deliverPendingCommands` |
| `ClientReceive`, `AckLost`, `ClientRejects`, `OverlayExpire` | `handleCommand`, its acknowledgement, and the revert timer |

Abstractions.  One device of the fan-out; one Redis connection answers in order;
the Redis key per device that a log line reads, the index of overrides, several
clears of one override, other commands, legacy sockets without acknowledgements,
and the playlist half of a replay's failure count are left out.  The stored-hash
check on delivery is in `DeviceToken`.

Run `fleet_overrides`: 2 sockets, 2 replays, one override and its clear, 1 failed
replay before the heartbeats' replay gives up (5 in the code: what matters is
being reached and being reset), 2 faults (1.1 million states).

* `KeepsPromise`: no timeout, lost acknowledgement, socket change or overlap of
  replays loses a command.  It is proved, from `IInv`, for every value of the
  constants (section 10).
* `ClearedStaysCleared`: once the clear has been settled, its override is not on
  the screen, unless the clear was lost or the override was still under way when
  it was cleared.
* `ShownCanBeCleared`: an override on the screen is on record or being cleared,
  with the exceptions its comment names.
No property says that a command leaves the gateway in the end, because it need
not: each connect drains the queue whatever the failure counter says, each requeue
gives it another five minutes (`redis.service.ts:172`), and a device that rejects a
command reconnects (`device-client.ts:426-432`).

Why the bounds are enough: a duplicate or a reordering is between an override
and its clear; a connect's drain overlaps a heartbeat's, and a long one the next
heartbeat's, so two replays at a time; two faults lose an acknowledgement and then
the connection.  More overrides and more replays are the proofs' part (section
10): the theorems hold for any number of each.

## 9. Not modelled

Content and storage, CRUD of playlists, schedules, groups, tags, users and
organizations, the dashboard, analytics, agents and scripts: one statement per
operation, or measurements; nothing in them spans several steps that could
interleave.  They are most of the repository's lines.  User sessions are the one
protocol of several steps that is left (section 2).

## 10. What is proved

TLAPS checks these for every value of the constants that satisfies the named
assumption of its module: any sockets, devices, organizations, calls, deliveries,
workers, replays, quotas, and any bounds.  What the assumptions ask for:

| assumption | beyond the bounds being naturals |
|---|---|
| `DeviceTokenAssumption`, `DeviceConnectionsAssumption` | "no socket" is not a socket; at least one JWT is signed |
| `DevicePairingAssumption` | the names for nobody and for a lost claim are nobody's; devices are finitely many, for the quota counts them; a quota is a number or -1 (none) |
| `PlaylistDeliveryAssumption` | "no socket" is not a socket; a replay may fail at least once |
| `FleetOverridesAssumption` | the same, and the names for a call and for nobody are not replays |
| `TenantEntitlementAssumption` | the ladder's three thresholds are in order |
| `DevicePresenceAssumption`, `OfflineNoticesAssumption` | nothing more |

| theorem | says |
|---|---|
| `DeviceTokenProofs!TypeCorrect` | `Spec => []TypeOK`; a paired row's hash is never cleared |
| `DeviceTokenProofs!Inductive` | `Spec => []IInv` |
| `DeviceTokenProofs!NoRevivalHolds` | `Spec => []NoRevival` |
| `DeviceTokenProofs!OneRotationHolds` | `Spec => []OneRotationAtATime` |
| `DeviceTokenProofs!LetInHolds` | `Spec => []GoodJwtIsLetIn` |
| `DeviceTokenProofs!SurvivesHolds` | `Spec => []SurvivesLostRefresh` |
| `DevicePairingProofs!TypeCorrect`, `Inductive` | the same for pairing |
| `DevicePairingProofs!OneCompletionHolds` | `Spec => []OneCompletionAtATime` |
| `DevicePairingProofs!TenantKeptHolds` | `Spec => TenantKept`, an action property |
| `DevicePairingProofs!QuotaKept` | `Spec => []QuotaHolds` |
| `DevicePairingProofs!LockedOutHolds` | `Spec => []LockedOutHasCause` |
| `PlaylistDeliveryProofs!TypeCorrect`, `Inductive` | the same for playlists |
| `PlaylistDeliveryProofs!LastPushKept`, `OvertakenHolds` | `Spec => []NothingLost`, `Spec => []OvertakenStaysOut` |
| `TenantEntitlementProofs!TypeCorrect`, `Inductive` | the same for the entitlement of a tenant |
| `TenantEntitlementProofs!AckedHolds`, `OneHandlerHolds` | `Spec => []AckedWasProcessed`, `Spec => []OneHandlerPerEvent` |
| `TenantEntitlementProofs!GraceHolds` | `Spec => []GraceHonoured` |
| `TenantEntitlementProofs!ClockKeptHolds` | `Spec => ClockKept`, an action property |
| `FleetOverridesProofs!TypeCorrect`, `Inductive` | the same for overrides and commands |
| `FleetOverridesProofs!ClearedHolds`, `ShownHolds` | `Spec => []ClearedStaysCleared`, `Spec => []ShownCanBeCleared` |
| `DevicePresenceProofs!TypeCorrect`, `ConnectionIsOne` | `Spec => []TypeOK`, `Spec => []OneConnection`: one open socket of a device at most, that of its Map entry |
| `OfflineNoticesProofs!TypeCorrect`, `Inductive` | the same for the notices |
| `OfflineNoticesProofs!NotAlarmedWhenBack`, `AlarmedWhenAway` | `Spec => []ConnectedIsNotAlarmed`, `Spec => []AwayIsAlarmed` |
| `FleetOverridesProofs!Implements` | `Spec => KeepsPromise`: `FleetOverrides` implements `AtLeastOnce` |

The arguments.

*NoRevival.*  It is not inductive: it speaks of the JWTs that would be let in
now, and a step later others would.  `IInv` adds that everything in use was
signed (`InUse`: a new signature cannot collide with a JWT that is already
somewhere), and that the two ends of a grace record, the two ends of a running
refresh, and the handshake JWT and hash of a socket have the same root
(`Lineage`).  A re-pair then changes `current` and the stored hash together, and
the only ways in are equality with the stored hash and a grace record whose
`next` is the stored hash, so both lead to the new root.  The record's being
bound to `next` is what the proof uses, and what the variant
`GraceAcceptsAnyNext` removes.

*OneRotationAtATime.*  `RotationsApart` adds what the property leaves unsaid: a
refresh that runs does so under the cooldown.  A refresh begins only by the claim
of an absent cooldown, so none other runs then; and the cooldown ends only when
every refresh has ended, which is the assumption that a refresh is shorter than
the cooldown (`CooldownExpire`).

*GoodJwtIsLetIn.*  The handshake answers with a row it read before the record.
`InOrder` says why that is harmless: what the device holds or connects with is
never younger than the row's JWT (`NoYounger`), so a handshake that did not match
the row it read came with an older JWT; and a refresh's record is out before its
row (`RecordFirst`), so when the record now joins the handshake's JWT to the row's,
no rotation came in between that was not known to the row it read.

*SurvivesLostRefresh.*  It is about the JWT the device holds now; the invariant must
also speak of those it is about to hold.  `Held` says that each JWT in the client or
in the inbox is the stored one, expired, or the `prev` of a grace record that names
it, whose `next` is the stored one and that lives as long as it does.  A rotation
replaces the stored JWT and thereby breaks every record but its own, so nothing but
its `prev` may be in hand then: a refresh rotates the JWT of its socket, which is
none younger than those in hand (`HeldSocket`), and these are none younger than the
stored one.  A socket hash or a check's result that is not the stored JWT is in use
under the cooldown only (`Fresh`), where no rotation begins.  The two exceptions are
the two steps for which `Held` fails.  All this is for JWTs of the first lineage
(`FirstLine`), those of the device: after an operator's re-pair the device's JWT is
of another lineage than `current`, and the property says nothing.

*TenantKept.*  `WriteRow` updates by row id without naming the organization.  The
invariant `CallKnowsRow` says that a call that found an existing row found its
own organization's and that ids only grow, so the row it updates, if it is still
there, is the same one; a removed and re-created row has another id.

*OneCompletionAtATime.*  `CallHoldsClaim`: a call past its claim is the claim's
value, unless a TTL ran out under a running call.  Two calls of the same code
past the claim would both be that value.

*QuotaHolds.*  The count is read by one call and used two steps later.
`CallHoldsOrg` says that whoever is between the claim and the write of a new row
holds the organization's claim, so no other call creates a row of that
organization in between, and `RoomLeft` that what was counted is still below the
quota.  Removals only make room.

*LockedOutHasCause.*  The property is about where the row's JWT is; what makes it
inductive is that it is the only one.  `Smooth` says that no cause has occurred
for the device.  As long as that is so (`OneJwt`), the device polls its only code,
there is no JWT in play before that code is completed, and afterwards the row's is
the only one among those in the request, in a completion, in a poll and on the
device.  A step that would lose it is a fault, an expiry or a second completion;
`PollsOwn` says that a poll carries a JWT while it runs, so that the deletion of
the request loses none.

*PlaylistDelivery.*  `NothingLost` needs to know who holds the queued playlist: a
playlist is queued or in the hands of one handler only, a connect's or a
heartbeat's, of whichever socket, and a handler whose version was overtaken holds
another than the last push (`HeldOnce`); so what a replay drops on its failed
version check was not the last push.  `PushEnded` and `NotPushedBefore` keep a push
that ends apart from all that is queued, held or overtaken.  An acknowledgement ends
the wait of one of its socket's two handlers, so the message must be that handler's
(`ReplaysAwaited`), and one whose wait has ended must be nobody's.
`OvertakenStaysOut` follows from the first half of the last part of `HeldOnce`: a
replay that is still current holds nothing that was overtaken.

*OfflineNotices.*  Both extend `DeviceConnections`, whose operations are shown
once to keep one connection (`OneConnection`): one open socket at most, that of
the Map entry, whose disconnect has not begun.  `AlarmTakenBack` follows an alarm
that has no exception (`Answerable`): a handler is about to take it back, or the
next connect will find that the device was away for long, which the due key or the
marker tells it.  `KeysInStep` says that these two do not change while a connect
or the loop relies on them.  `OutageTold` follows an outage from the end of its
disconnect.  Each exception is set by the step that breaks one of these, and taken
back by the alarm, the cancel or the disconnect that ends it; so the proof has a
step for each action that sets one.

*TenantEntitlement.*  The webhook's part of `IInv` is `CallHoldsClaim` (a call
that handles an event is behind its claim, pending) and `CompletedWasProcessed`:
a duplicate is answered with 200 only by a completed claim, and a second handler
needs the claim to be absent.  The ladder's part is `ClockFollows` (a clock that
was not left behind stands at or after the day the episode began) and
`FoundOldEnough` (the age with which a job found its rung still holds when it
writes, because no day passes while it runs); together they give `GraceHonoured`
when the job's clock is still the row's, and otherwise the step itself sets
`outrun`.

*FleetOverrides implements AtLeastOnce.*  A step is mapped by what it does to the
commands the gateway keeps (running, held by a replay, queued): either it adds one
new command (`Issues`: an abstract `Issue`), or it lets go only of what was
executed or dropped and sends only what is open (`Settles`: `Execute`, `Drop` or a
stutter).  A lost connection takes messages away that no drop records, so `IInv`
needs `Backed`: a command on its way is still kept, or was executed or dropped
before.  And a call or a replay lets go of *its* command on an acknowledgement, so
an acknowledgement must be for the command that is waited for: that is the last
part of `TypeOK`, which is inductive only with `WaitsForOne` (no second message is
waited for by the same call or replay), `ReplaysHold` (a replay that waits holds a
command, one that ended holds none) and `NotSentBefore`.

*ClearedStaysCleared, ShownCanBeCleared.*  No command is forgotten (`Accounted`):
what was issued is open, executed or dropped.  After its clear was issued, an
override is on its way, or on the screen once the clear was executed, only if it
was on its way at the clear (`LateOnlyUnderway`); `OnRecord` follows the record from
the answer to the operator to the clear.  What the refinement shows of each step,
that it executes only what is open, carries both through duplicates.

Each invariant is also checked by TLC, as is each property a theorem states.

Only model-checked: the liveness properties (`FirstRefreshArrives`,
`HandoffArrives`, `ConnectedIsOnline`, `AwayIsOffline`, `AlarmIsSettled`,
`EventsAreAcked`) and the violations.  Liveness needs fairness and ENABLED, about
which the prover does not reason here.  Every invariant and every action property
that a run checks is stated by a theorem.

## 11. Disagreements found

Three texts say more than the code does and are shown by a run that finds a
violation; `PROJECT.json` ("findings") quotes them.

| run | shows |
|---|---|
| `pairing_reset` | the stale-pairing reset leaves `jwtToken`, on which the request for a new code is refused (`displays.service.ts:371`, comment at 337-349) |
| `playlist_reconnect` | a reconnect does not reliably leave the row's playlist on the screen: the device's own request is answered from an hour-old cache (`playlist.service.ts:32`, comment at `playlists.service.ts:558-560`) |
| `entitlement_holding` | the last rung cancels an organization and leaves its screens on their holding page (`entitlement.service.ts:198`, `docs/design/entitlement-state-machine.md:52`) |

Other behaviours the models reach and that a maintainer should know of.  Where a
text says otherwise it is quoted; there is no run for these.

* A grace record that cannot be read is answered like one that is not there
  (`device-handshake-auth.ts:160-162`, against the comment at 20-29: "a transient
  server condition must NEVER surface to a device as a structured terminal code"),
  and a handshake that passed because the row could not be read is decided without
  the record (GW 983): either can make a device drop a good JWT after a rotation
  whose `token:refresh` was lost.

* A stored-hash check between a rotation's commit and the assignment of the
  socket's hash ends the socket with a terminal code, and the client drops its
  JWT (GW 1435/1460, against the comment at 1309-1316).
* A refresh on a grace-accepted socket overwrites the record that covered the JWT
  the device holds (GW 1415, comment at 1326-1330); a socket is refreshed at most
  once (GW 1461, comment at 1766-1768).
* A code can pair a display twice: completion is checked on the request read
  before the claim (`pairing.service.ts:534-556`, test at
  `pairing.service.spec.ts:805`).
* A payment whose transaction was recorded by a call that did not finish can never
  be handled again: the retry fails on the unique transaction, and the
  organization stays on the ladder (`billing.service.ts:926-945`).
* Events out of order (`payment_succeeded` before the `payment_failed` of the same
  dunning) leave a payer in `past_due` until the next event.
* `subscription.updated`, `checkout.session.completed` and the expiry of a trial
  write the status and leave the clock and the screens (`billing.service.ts:846`,
  against `docs/design/entitlement-state-machine.md:41`): an episode may begin with
  an old clock, and a suspended tenant that becomes active this way is not told.
  `recover` reads the status and writes the row in two steps, and may miss a
  suspension in between (`entitlement.service.ts:91-105`).  `expireTrials` cancels
  at once (`billing-lifecycle.service.ts:78`, against the same document at 84 and
  119, "never an instant dark"), and may cancel an organization that checked out
  between its find and its update.
* `advanceLadder` says "each org advances at most one rung" per run
  (`entitlement.service.ts:108`); its three rungs run one after the other, so an
  organization that is old enough takes them all in one run, as in the trace of
  `entitlement_holding`.
* `clear_override` ends whichever override is on the screen
  (`device-client.ts:781`): clearing the older of two takes the newer off.
* `clearOverride` deletes the record before it asks the gateway
  (`fleet.service.ts:492`), so a clear that does not get through cannot be
  repeated; a `sendCommand` whose answer is lost reports "Commands were not
  sent." and writes no record, although they may have been (`fleet.service.ts:297`).
* Queued commands are delivered by each connect, unless a pending playlist was
  handled (GW 1148), and by heartbeats until `HEARTBEAT_REPLAY_MAX_FAILURES` in a
  row failed; a command sent directly overtakes them; and each requeue starts the
  queue's five minutes again (section 8).
* A heartbeat whose replay finds nothing deletes the failure counter, although the
  replay beside it is still delivering (GW 479-482).
* The two replays of a socket may hold a playlist each, and emit the older one last
  (GW 1902, 1921).
* A device that is back more than a day after its alarm is not announced by a
  "Device Online" (GW 1258, `notification.service.ts:155-159`).
* The presence and notice races of section 7.

## 12. Running

    tlc -config DeviceToken.cfg DeviceToken
    tlc -config DevicePairing.cfg MCDevicePairing
    tlc -config PlaylistDelivery.cfg MCPlaylistDelivery
    tlc -config TenantEntitlement.cfg MCTenantEntitlement
    tlc -config DevicePresence.cfg DevicePresence
    tlc -config OfflineNotices.cfg OfflineNotices
    tlc -config FleetOverrides.cfg FleetOverrides
    tlapm DeviceTokenProofs.tla
    tlapm DevicePairingProofs.tla
    tlapm TenantEntitlementProofs.tla
    tlapm PlaylistDeliveryProofs.tla
    tlapm DeviceConnectionsProofs.tla
    tlapm DevicePresenceProofs.tla
    tlapm OfflineNoticesProofs.tla
    tlapm FleetOverridesProofs.tla

`CHECK_DEADLOCK FALSE` is set everywhere because the bounds let every behaviour
end: no JWT left to sign, no code left to draw, no fault left, and because a
device may stay away.
