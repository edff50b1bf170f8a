# A TLA+ development of the ARIA mobile call core

This directory holds TLA+ models of the call engine in `src/src/` (Rust, bound
to Kotlin and Swift through UniFFI), TLC runs over small instances of them, and
TLAPS proofs. Line numbers refer to `src/src/lib.rs` unless a file is named.

    tlc -workers 2 -config MCCallTable.cfg MCCallTable     # one run
    tlapm CallTable_proofs.tla                             # the proofs of one component

The proofs are in `CallTable_proofs`, `OutgoingCall_proofs`, `IncomingCall_proofs`, `Transfer_proofs`, `Session_proofs`,
`Routing_proofs` (with `Resolver`), `Capture_proofs` (with `Media`) and `Delivery_proofs`.

## 1. The system

The engine (`AriaMobileEngine`) is a library inside a softphone app. The app
calls it from any thread; the engine talks HTTP to a gateway that carries the
SIP side, runs RTP media, and reports to the app through callbacks that a
dispatcher thread delivers from one queue. There is no push channel for call
state: after the push notification of an incoming call everything is polled.
Nothing is persisted, so there is no crash recovery.

| Component | State it keeps | Operations |
| --- | --- | --- |
| Call table (432-482, 645) | `calls` (connected calls by call_id), `pending_outgoing` (`ringing`, the window `used` of remembered ids), `accepting` (tokens whose accept counts against the cap) | `reserve_outgoing` 1121, `dial` 1237, `accept_incoming_call` 814, `answer_offer` 907, `hangup` 1500, `set_mute` 1905, `set_hold` 1924, `swap_calls` 1946, `hold_others` 331, `take_call` 146, `stop_call` 156, the connected call's poll 2074 |
| Call events (`events.rs:166-220`) | per call: has Ended been queued | `emit`, `emit_after`, `emit_ended` |
| Outgoing call | `PendingOutgoing` 591: the route last posted to, `dialing`, a cancel signal; the request, cancel and cleanup tasks | `dial` 1237, `hangup` 1500, `cancel_ringing` 1555, `cancel_at_gateway` 232, `hang_up_if_answered` 1461, `hang_up_at_gateway` 172 |
| Incoming call | `pending_incoming` 483: per token the watch's poll, its events, `accepting`, `abandoned`, `rejected` | `handle_push_notification` 790, `accept_incoming_call` 814, `answer_offer` 907, `reject_incoming_call` 1038, `watch_incoming` 2131, `spawn_status_poll` 1994, `GoneDetector` 389 |
| Gateway token (`auth.rs`) | token, generation, the generation whose rejection was reported | `set`, `current`, `snapshot`, `report_rejection` |
| Transfer | locals of the waiting thread: the legs seen transferred, `settle_by`, the deadline | `transfer_call` 1649, `transfer_attended` 1705, `await_transfer_outcome` 1769, `end_transferred_leg` 1888 |
| Routes (`gateway_client.rs:338-455`) | the resolved targets, the route each call is pinned to | `send_on`, `resolve_gateway`, `live_call_route` 351 |
| Network change | `HeartbeatState` 523 | `notify_network_change` 2498, `spawn_heartbeats` 2531 |
| Dispatcher (`events.rs:50-137`) | queue, handler | `queue`, `set_handler`, the thread |
| Registration | device id | `register_device` 710, `unregister_device` 749, `update_push_token` 767 |
| Media (`media.rs`) | RX and TX loops, remote address, SRTP contexts, hold, mute and stop flags, the AI tap | `create_offer_session`, `create_answer_session`, `apply_remote_sdp`, `start_media`, `set_hold`, `set_mute`, `send_dtmf`, `stop` |
| DNS (`dns.rs`) | cache of SRV targets | `resolve_sip_server`, `clear_cache` |
| AI capture (`ai.rs`, 2254-2401) | capture sessions | start, stop, discard, transcribe |
| Bindings (`aria_mobile.udl`, `build.rs`, `uniffi-bindgen.rs`) | none | generated code |

**How they interact.** The call-map lock (`calls`) orders the table, and
`pending_outgoing`, `accepting` and `pending_incoming` have locks of their own.
A call is claimed by removing it from one of these maps under the lock;
whoever removes it owns its next report and its teardown. An incoming call's
`CallEvents` is created by its watch and shared, by `Arc`, with the accept that
finds the watch. Background tasks (polls, cancels, hangups) outlive the API call
that started them and look the call up again when they return.

**What is hard about it.** (1) Two owners of one call: the answer of a dial and
a hangup; a watch, an accept and a reject of one offer; a hangup and a status
poll. (2) What happens between dropping a lock and the next step: media of a
removed call still runs, an accept's reservation is still counted. (3) Requests
whose outcome is unknown: a POST that may have been delivered, a cancel that
overtakes the call it cancels, an accept the gateway takes after the client has
given up. (4) Values used after they were read: a watch entry, a token
generation, a route. (5) Limits: the cap of live calls over three collections, the
window of remembered ids. `PROJECT.json` lists each of these at its line, with the
properties that would catch it.

**What makes each component correct.** *Table*: a call is in one place; at most
one connected call is off hold; never more than `MAX_LIVE_CALLS`; no slot or media
session outlives its call; what the app was told is what the table holds.
*Events*: one Connected, one Ended, nothing after it. *Outgoing*: an ended call
cannot connect; a hangup releases the dialing thread at once; a call hung up
here does not stay up there unnoticed; an accepted cancel is not followed by a hangup.
*Incoming*: an offer that ends is reported ended; the call is never connected
with nobody on this end. *Token*: each rejected token is reported once, a
replaced one never. *Transfer*: each leg ends once, with the transfer's reason when
it succeeded. *Routes*: a call is placed at one instance only and its route leads
there; calls that are live together talk to one instance. *DNS*: no answer is used past its lifetime.
*Media*: a held or muted call is silent both ways; nothing goes out in the clear on an encrypted call; one party per
call; the loops end. *Capture*: audio reaches the capture the app believes to be running, and no other.
*Heartbeats*: a network change is followed by a heartbeat round that began after it.
*Dispatcher*: events in the order queued, one at a time.

## 2. The modules

### CallContract

The abstract specification: per call, the last state reported and the number of
Ended events. It says which state may follow which and that there is one Ended.
`CallTable` and `IncomingCall` are each shown to implement it
(`Contract == INSTANCE CallContract WITH ...`, checked as the property
`ImplementsContract`, and proved). What the callbacks of `Delivery` are given implements it too, and the steps of
`OutgoingCall` keep it (proved only). One step may report several
calls, because a call that connects puts the others on hold.

### CallTable

All calls at once, seen from the table. One action is one critical section of the
call-map lock. What the code does after dropping the lock is an action of its own:
`TakeCall` / `StopCall` / `ReportEnded` for a removed call (1594-1606, 155, 286) and
`DropReservation` for `AcceptReservation::drop` (505), which runs only when
`accept_incoming_call` returns. `BecomeActive` is what `dial` and
`answer_offer` share: hold the others, start media, enter the map, queue Connected.

| Variable | Code |
| --- | --- |
| `calls`, `ringing`, `accepting` | the three collections `live_call_count` (341) adds up |
| `info` | the `CallInfo` in `ActiveCallState` (state and muted; the other fields do not change) |
| `used` | `OutgoingCalls.used`, with the mark of an id hung up before it was dialed |
| `accept`, `drops` | the progress of `accept_incoming_call`, and reservations whose drop is still to come |
| `watched`, `abandoned` | `pending_incoming` |
| `taken` | the local variable of the thread that removed the call |
| `audio` | the calls whose RTP loops run |
| `gw` | external: the call at the gateway |
| `shown`, `ends` | what was queued for the app |

Abstracted: a push is handled before its call is accepted, and the detail of dial,
cancel and watch (next modules); fetching the offer and sending the answer is one
step; a gateway accepts an offer at most once (so dropping a reservation that a
later accept re-entered cannot happen while that accept can succeed, which
`Reservations` states and the proof uses); the audio bridge is set; the id window is
not outrun (`WindowAssumption`; 545-572 keep the most recent ids only). `WatchActive` takes an offer seen active out of
the watch; whether it is then reported answered elsewhere, left to an accept or hung up is in `IncomingCall`. The order
`get_calls` lists calls in and the backlog of `check_remote_hangup` are left out; call
pinning is in `Routing`, and the steps between this module's lock regions are in `Delivery`.

### OutgoingCall

One outgoing call from the moment `reserve_outgoing` has queued Ringing (what comes
before is in `CallTable`). Its actors are the thread in `dial`, a thread in
`hangup`, the request task of POST /v1/calls with `send_on`'s failover, the cancel
task, the task that waits for the answer of a cancelled request
(`hang_up_if_answered`), the background hangup, the owner of the token, and the
gateway. `dial`'s two `select`s are modelled as choices: when both branches are ready
either may be taken, so an answered call whose hangup came first can leave by either.
A request is connecting, sent, or returned; it may fail to connect (the next
route is tried) or lose its response (it is not retried). `auth` is `GatewayAuth`
(generation, blank, reported) with the set of tokens the gateway no longer takes.
`rejection_is_new` is what `report_rejection` returns. A background hangup answered 401 is over either
way: its rejection is reported when it is new, and otherwise the hangup is `dropped`, without a report and
without another attempt (188-190).

Abstracted: taking an active call and queueing its Ended is one step (`CallTable` has the
steps); `CANCEL_OUTCOME_WAIT` (35 s) never fires, because the cancel task ends its
retries when the request has returned and its one request in flight ends within
30 s; a gateway may always answer a cancel with 404, as one without the route does;
one hangup, as further ones are no-ops once the call is out of the maps; deciding about a 401 and queueing
`on_auth_required` are one step, as in `Session`.

`Consistent` is the type invariant and `EndedIsOut`: a call that has been reported ended is in
neither map, so that no answer, however late, can connect it.

### IncomingCall

One incoming call. Its actors are repeated pushes, `accept_incoming_call` (one at a
time, which `reserve_accept` ensures, but several in a row), `reject_incoming_call`,
the watches with their polls, a hangup, the gateway, the caller and another device.
`CallEvents` have identities, since a `CallEvents` refuses to report only after its
own Ended, and a poll looks its entry up by call token and may find that of a later
watch: both are what the races here are about. A poll's status is read in one step
(`PollAsks`) and applied in a later one.

What the surroundings may do is the constant `Environments`: each of its members is the set of
faults that may occur in a behaviour (`may`): another device answers, a watch's time limit
passes (`PENDING_INCOMING_MAX_WATCH`, ten minutes; the entry stays behind, 2023), the reply
to any accept, or to the last one, is lost after the gateway took it. `Consistent` is the type
invariant and `AcceptingIsAnswering`: an entry is marked as being accepted only while an accept of it runs.

A `hang_up_at_gateway` has the outcomes of the code: the call ends; its token is rejected and the app is told,
or the rejection is not new and the hangup is `dropped`; a request that fails, or whose reply is lost after it
was taken, is made once more and then told. There is one per `CallEvents` (`hangup`), because a hangup of the
connected call and that of an abandoned one may both be under way. While the gateway hands an answered call over
a poll may be answered `unknown` (2173-2175), but not three times in a row.

Abstracted: the call is accepted only after some push was handled; a request to hang up and its reply are one
step, and which 401 is new is a choice (the tokens are in `OutgoingCall` and `Session`); a poll that gets 401 or no
answer is asked again and is not a step; `on_incoming_call` is not a call-state event and is not modelled.

### Transfer

A blind transfer (one leg) or an attended one (two), from the REFER on; the checks made
before it (1651-1663, 1710-1733) are its initial states. The transferring thread runs
`await_transfer_outcome` leg by leg: a request for a leg's status and what is done with
the answer are separate steps, between which the leg's own status poll, a hangup, the
far end and the PBX act. Whoever removes a leg from the map reports it later, in a
step of its own, so that a leg can be gone from the map and not yet reported.

| Variable | Code |
| --- | --- |
| `n`, `loop`, `i`, `answer`, `transferred`, `settle`, `late` | `legs`, and the locals of 1769-1884 |
| `result` | what `transfer_call` or `transfer_attended` returned |
| `live`, `ending`, `why` | `calls`, the reason in the hands of whoever removed the leg, the reason reported |
| `moved` | the legs `end_call_locally` was called for by the transfer and did end |
| `poll`, `hup` | each leg's status poll, and its background `hang_up_at_gateway` |
| `gw`, `verdict`, `reporting` | external: the legs and the transfer at the gateway, and whether it reports outcomes |
| `token` | whether there is a token and the gateway accepts it |

Abstracted: `GoneDetector`'s count of `unknown` answers (`IncomingCall` has it); the rejection of
a request of the transfer may come whatever the current token is, as the thread uses the one its round began with; the locals
are cleared when the call returns; a hangup at the gateway succeeds or fails in one
step (`OutgoingCall` has its retries, its report and when it is dropped without one; no property of `Transfer`
speaks of the report). The gateway reports
the first leg it drops after a success as transferred; the other one may be reported
as a BYE, which 1802-1804 allows for. `Consistent` is the type invariant with `OkEndsAllLegs` and
`OkMeansTransferred`: a transfer that returns Ok has ended each leg here, and it took place.

### Session

The gateway token, the background requests that can have it rejected, the heartbeats and
the registration.

| Variable | Code |
| --- | --- |
| `auth` | `GatewayAuth` (`auth.rs:18`); the token itself is its generation and whether it is blank |
| `refused` | external: the generations whose token the gateway does not accept |
| `asked` | how often `on_auth_required` was queued, per generation |
| `req` | the request each poll or heartbeat has in flight, with the generation of its snapshot |
| `state`, `beat` | `HeartbeatState` (523) and the place of each heartbeat task in its loop (2538-2566) |
| `unserved` | a network change that no round has read the device and token after |
| `api` | the registration call under way and how far it is |
| `last`, `device`, `shown` | `last_registration`, `device_id`, the last `on_registration_changed` |
| `gw`, `unsure` | external: the push token the gateway has, and that the last answer was lost |

A registration is represented by its push token, the only part a later call changes.
`update_push_token` is a `register_device` with another push token. Between the answer of
the gateway and the report there are two writes under two locks, and each is a step.
Abstracted: one registration call runs at a time, as the app's single registration flow
makes them (two at once would interleave their writes); a status poll is here only
for its token, whatever call it belongs to; `report_auth_rejected` (134-139) decides under the lock of `auth` and
queues the callback after it, which is one step here, so that a `set_gateway_token` between the two is not seen:
it cannot change the decision, only come before the callback, which is delivered later in any case.

### Media and Capture

The media session of one call. The RX and TX loops are threads that read, at different points of a
frame, flags and keys that other threads set, so each read or hand-over is a step of its own and a hold, a
hangup or a new tap may fall between any two.

| Variable | Code |
| --- | --- |
| `call` | where the engine has the call: its session still with the thread that sets it up, in `calls`, or taken |
| `offer`, `crypto`, `srtp` | `offered_srtp_key`; the crypto line of the answer; `srtp_out` and `srtp_in` |
| `remote`, `muted`, `on_hold`, `running`, `tap` | `remote_addr`, the three flags, `ai_tap` |
| `rx`, `tx` | each loop's place, and the packet it has in hand (from where, sealed or not; to where) |
| `dtmf` | each DTMF thread: packets left and the address it read at its start |
| `uses` | what the app does with the call: dials it or answers it, mutes, holds and sends digits, captures |
| `late`, `parties`, `clear` | observations: frames that passed after the flags forbade it, addresses talked to, voice in the clear |

`Capture` extends `Media` with the app's threads in `ai_start_capture`, `ai_stop_capture`, `ai_transcribe` and
`ai_discard_capture` (2254-2401), which take the call map's lock and that of `AiState.sessions` one after the
other, never together (`host`, `kept`, `session`). `Consistent` is the type invariant and `TapIsKept`.

Abstracted: audio, codecs, packet formats and the platform's bridge (only whether a packet is sealed and a frame
was let through); a replayed or forged packet is one `unprotect_rtp` rejects; `ai_init` was called once. The app does not start a capture of a call while it is
in another AI operation on that call, unless `"overlap"` is among its uses.

### Resolver and Routing

`Resolver` is `dns.rs` and `resolve_gateway`: SRV records ordered by priority and weight with ties in any order,
targets without an address dropped, the fall-back to A/AAAA with its shorter lifetime, and the cache. DNS is external: `zone` is what it answers now, and it may change at any
time. Time passes in units of the lifetimes. `since` is how long ago DNS last gave each of its answers: with it
`TargetsAreRecent` says of every answer in use, however often DNS changed, that it is DNS's now or was within its lifetime.

`Routing` extends it with which instance each request goes to: `send_on`'s failover (to the next route only when it
could not connect, since otherwise the request may have been acted on), the route kept for each call, `reserve_outgoing`'s
two reads (the routes of accepts under way, and then, under the locks, those of live calls) and the pinning that
follows from them, against lists of routes that are replaced meanwhile.

| Variable | Code |
| --- | --- |
| `targets`, `cache` | `GatewayClient.resolved_targets`, `SrvResolver.cache` |
| `route`, `via` | `PendingOutgoing.route`, `PendingIncoming.route` or `ActiveCallState.route`; the route the offer being accepted came from |
| `todo` | the routes `send_on` has still to try |
| `seen`, `pin` | `accepting_routes`, `Placement.pin` |
| `held` | external: the instances that were given the call |
| `settled` | observation: a call whose instance was certain when this one was reserved |

Abstracted: otherwise a call only rings, is offered, is answered and ends, as its own modules have the rest; where a call
was is forgotten when it ends or its dial fails (that it was at one instance only is checked until then). An SRV
route is pinned to its address; the base URL goes to whichever instance DNS says when a connection is made.
`Consistent` is the type invariant and `CallsStayPut`.

### Delivery

What `CallTable` takes as one step is here the steps between two lock operations: the locks of the
call map, of `pending_incoming` and of each call's `CallEvents` (`owner`), the operations that queue events under them
(`emit_after` holds the call's events while it holds the other calls), the queue, and the dispatch thread, whose callbacks
run with no lock held and may begin operations of their own, or panic. The handler may be installed after
events were queued; those are dropped, as in the code. Operations are begun `OPERATIONS` times, so that no fairness between
threads that fight for a lock is assumed: with finitely many of them each lock is free in the end, unless there is a deadlock.
An answer is modelled for an offer that is still watched (`IncomingCall` has the others). `Consistent` is the
type invariant and `DeliveredInOrder`, which speaks of the positions at which a call's events stand in the queue (`Told`; position 0 is
what was delivered last); the rules of what may follow what are `CallContract`'s.

### Bounds

`MAX_*`, `PUSHES`, `ACCEPTS`, `ROUTES`, `CANCEL_RETRIES`, `CAPTURES`, `DIGITS`, `CHANGES`, `OPERATIONS` and
the sets of calls, threads, addresses and instances are CONSTANTS. `OLD` caps the times in `since` (`Resolver`) where
nothing tells two of them apart any more.

## 3. What the runs check

| Run | Bounds | Shows |
| --- | --- | --- |
| `table` | 2 incoming, 1 outgoing, cap 2, window 2; calls of one direction symmetric | `LiveCap`, `OneOffHold`, `ShownMatchesTable`, `AudioOwned`, `NoSlotLeaked`, the inductive invariant `IndInv` (with the type invariant), and `ImplementsContract` |
| `outgoing` | 2 routes, 2 retries, 1 token change | `Consistent`, `OnlySilentRejectionForgets`, `NoHangupAfterCancel`; `HangupReleasesDial`, `NotLeftUp` |
| `outgoing_dropped_hangup` | 1 route, 1 retry, 1 token change | *violated*: `HungUpIsPursued` |
| `incoming` | 1 push, 2 accepts, 3 watches; another device and expiry, with and without the last reply lost | `Consistent`, `ConnectedIsShown`, `ImplementsContract`; `CancelIsReported`, `NeverLeftConnected` |
| `incoming_repeated_push` | 2 pushes, 1 accept | *violated*: `OneEnded` |
| `incoming_elsewhere` | 1 push, 1 accept; another device | *violated*: `AnsweredElsewhereIsReported` |
| `transfer` | 1 and 2 legs | `Consistent`, `ErrorKeepsCalls`; `TransferReturns`, `SucceededIsNotLeftUp`, `RemoteEndReported` |
| `session` | 1 poll, 2 heartbeat tasks, 2 push tokens, 1 token change | `AskedOncePerToken`, `OnlyCurrentTokenAsked`, `OneHeartbeat`, `RegistrationAgrees`, `IndInv`; `RejectionIsReported`, `ChangeIsServed` |
| `media` | 2 addresses, 1 app thread, 2 captures, 1 digit of 2 packets; a dialed call with controls, an answered one with controls, one with captures | `QuietCallIsSilent`, `NoClearVoice`, `OnePeer`, `Consistent`, `FedWhileOpen`; `LoopsEnd` |
| `media_srtp` | a dialed call | *violated*: `PlayedIsDecrypted` |
| `routing` | 2 instances, 3 zones, SRV answers live 2 units and A answers 1, 1 change; 2 dials (symmetric), 1 incoming, cap 2 | `Consistent`, `DialsTogether`, `TargetsAreRecent` |
| `delivery` | 2 calls, 2 threads and the dispatcher, 5 operations | `Consistent`; `EverythingDelivered` |

**Why the bounds are enough.** The table's races are between the call that is
claimed and at most one other: two calls fill a cap of 2, so that the third, in either
direction, meets the limit; holding, swapping and resuming need two connected calls
and a third party that connects or leaves.
One dial meets every combination of its own tasks; two routes are the least at
which a cancel can address another instance than the call, two retries the least at
which one retry is followed by another, and one token change gives both a
stale and a current rejection. (Four retries, as in the code, were also run, with no
token change.) For an incoming call the interesting cases are a second push, a second
accept and a watch started by an accept whose first watch has ended or run out of time: two of each, and
a third watch for an accept after both.
A transfer has one leg or two, and no run bounds its rounds: rounds, polls and token changes
repeat without limit. In `session` two heartbeat tasks are one more than the code should ever run, one
poll and one heartbeat meet a token from both sides, and two generations are a
replaced and a current token.
In `media` the loops run without bound; the second address is anybody who is not the
peer, and the second capture replaces the first. One app thread begins any AI operation while the loops are anywhere; two of them
make the instance too large to finish, and what they could do to each other is cut by the rule that a start overlaps
nothing (`MCCaptureOverlap.cfg` shows what happens without it). In `routing` two
instances are the least that can differ; the zones are two priorities, two equal records of which one is slow, and no
answer at all; two lifetimes of different lengths make an A answer expire before an SRV answer.
In `delivery` each of two threads and a callback can be inside an operation on
either call, and five operations are an answer of both calls and three more that hold, resume or end them.
For the safety properties the proofs of section 5 remove these bounds: they hold for any number of calls, threads, routes,
retries, watches, legs, instances and operations. What depends on a bound still is liveness, and what section 5 gives as a hypothesis.
`CHECK_DEADLOCK FALSE` is set where a finished call has no further step; `routing` checks deadlock.

**Violations are disagreements of the code with its own documentation.**

* `outgoing_dropped_hangup`. A background hangup answered 401 stops (188-190), and `report_rejection` (`auth.rs:83`)
  refuses to report a rejection twice over: when the token was replaced since the hangup was sent, and when it is
  the current one but its rejection was already reported, by a status poll say. Either way the hangup is neither
  repeated nor reported, the app has heard nothing of *this* call, and the far end may stay connected, against 1497
  and `src/README.md:177`. (That `on_auth_required` fires once per token is documented, `src/README.md:195`; that a hangup
  is lost by it is not.) With `MAX_GENERATION = 0` the same configuration finds the second way, as no token is ever
  replaced. `OnlySilentRejectionForgets` shows that there is no third one: apart from a lost response to
  POST /v1/calls, a hung-up call is forgotten only through such a dropped hangup.
* `incoming_repeated_push`. A push fetches the offer and then watches it; if the first watch has
  ended in between, the second one has a `CallEvents` of its own and reports a
  second Ended, against `src/README.md:187`. The same happens with one push when the
  reply to an accept is lost: if the first watch has ended meanwhile, the accept reports on
  the `CallEvents` the watch left behind or makes a new abandoned watch (951-959).
* `incoming_elsewhere`. A watch that sees `active` while this handset is accepting drops its entry (2189);
  when the gateway then refuses the accept there is no entry left to report.
* `media_srtp`. A sealed packet is opened into `plain` (`media.rs:237-257`, "Decrypt before parsing") and its header is
  parsed there, but the payload is cut from `buf` (`media.rs:273`), the packet as it was received: what is decoded,
  tapped and played on an encrypted call is ciphertext. What is *sent* is sealed (`NoClearVoice`).

**Further configurations.** `MCResolver.cfg` checks `TargetsAreRecent` of the resolver alone, with lifetimes of 4 and 2
units and three changes of DNS, so that DNS can go back to an answer it gave before; with the calls of `routing` two changes
make the instance too large for a short run, and the theorem `Recent` holds for any number. Four more disagreements have a configuration here but no entry in `PROJECT.json`; TLC
finds each violated.

* `MCCallTableSpeaker.cfg`, `SpeakerNotShared`. `take_for_hangup` (1601) removes the call from the map and releases
  the lock, and only then stops its media. A call that connects in between finds nobody
  to hold, so two calls briefly share speaker and microphone, which 1406 and
  `src/README.md:197` exclude. `OneOffHold` (calls *in the map*) does hold.
* `MCIncomingCallSecondAccept.cfg`, `NeverLeftConnected` when the reply to a first accept is lost. A second accept marks
  an abandoned entry accepting again, so the watch leaves
  an active call to an accept that the gateway will refuse (2189), against `src/README.md:177`.
* `MCTransferReason.cfg`, `EndedAsTransferred`. Of an attended transfer the second leg is dropped with a BYE after the first
  was transferred. The loop counts that as the transfer completing (1802), but the leg's own poll
  may come first and reports `RemoteHangup` (2095), though `transfer_attended` returns Ok; 1690 promises
  `Transferred` for both. A hangup by the user keeps its own reason, which the property allows.
* `MCCaptureOverlap.cfg`, `TapIsKept` when the app starts a capture while it discards another one of the same call from another thread:
  the two locks are taken one after the other, so the tap may be left on a session that was thrown away, or none on the
  session that is kept.

`AuthenticationError` does not mean that the transfer did not happen, although the comment at 1789 says the
calls are still up: a token that is rejected after one leg was transferred gives it too. `ErrorKeepsCalls`
says what an error does mean: no leg that is still up was ended here.

`src/README.md:130` says a hung-up dial sends exactly one accepted cancel or one hangup.
`NoHangupAfterCancel` is the part the engine can keep: when the 202 itself is lost both are sent, and
when the response to POST /v1/calls is lost the engine has no token to hang up with (`lost` in
`Pursued` and `NotLeftUp`).

**Where the properties stop.** Behaviour met while modelling that no property excludes:

* An incoming call whose hangup is dropped after a 401 stays connected with nobody on this end (`dropped` in
  `NeverLeftConnected`): the same path as in `outgoing_dropped_hangup`, against `src/README.md:177`. The other exception is a call whose
  watch expired.
* The windows of `MCCallTableSpeaker.cfg` and `MCCaptureOverlap.cfg` above are in the models: `AudioOwned` admits the first, since a call
  being torn down still has its media, and the properties about captures suppose that starts do not overlap other
  operations. An id that has left the window of remembered ids (566) is excluded by `WindowAssumption`.
* *Pinning* (1130). `DialsTogether` speaks of calls whose instance was certain when the second one was reserved. It is not when the first one
  is still setting up its media or is trying a route it may fail over from; when an accept began after
  `accepting_routes` was read, or before its entry is marked; and for a second call that is incoming, which is wherever the
  PBX sent it. A route that is the base URL pins nothing.
* A reject without a watch and a cancel without a route go to `primary_route`; `get_call_offer` stops at the first instance it can
  connect to, even if the call is held by another one.
* One slow SRV target loses them all: the timeout around the lookup (`dns.rs:96`) is as long as the one of each target, so the
  A/AAAA answer is used, and cached, in their place.
* `dial` goes on in the clear when the peer's key is unusable (1384-1386), although `media.rs:600-603` treats that as an error. An
  incoming call never has SRTP, as the answer carries no key.
* DTMF packets are never sealed; a digit's thread sends its packets after a hold or hangup, and two digits' packets may interleave.
* `ai_start_capture` leaves its session behind when the call is not connected, and `ai_transcribe` takes the capture away before it
  knows whether a model can transcribe it.
* `CallEvents` refuses to report after its Ended. In `Delivery` that check never decides: watches report under the lock
  of `pending_incoming`. It matters only where one `CallEvents` is shared by an accept and a watch (`IncomingCall`).

## 4. Fairness

* `OutgoingCall.LocalFairness`, for `HangupReleasesDial`: only the threads inside `hangup` and
  `dial`, and only the steps that wait for nothing outside the engine. That is the point
  of the property: neither media set-up nor the gateway has to answer.
* `OutgoingCall.NetworkFairness`, the hypothesis of `NotLeftUp`: requests return or time out,
  the runtime runs its tasks, and the gateway gives up an INVITE nobody answers. It is
  a conjunct of the property, so that both properties are checked in one run. Nothing makes
  a request succeed, the token be accepted, or the remote end hang up.
* `IncomingCall`: the tasks run, accepts get a reply or time out, and polls are answered in the
  end. A watch may run out of time after ten minutes, and need not; `CancelIsReported` and `NeverLeftConnected` say what
  is promised of a call whose watch did. Nothing makes a hangup at the gateway succeed.
* `Capture.LoopFairness`, for `LoopsEnd`: the loops' threads run, a receive times out after 100 ms (`media.rs`), and the
  platform's audio callbacks return. No packet has to come and no operation to begin.
* `Delivery.Fairness`, for `EverythingDelivered`: a thread that has begun an operation runs on, callbacks return or panic, and the
  dispatch thread is scheduled. Nothing has to begin.
* `Transfer`: the transferring thread runs and its requests end, the two clocks pass, threads that removed a
  leg report it, background hangups end. A leg's status poll has strong fairness: it
  asks every two seconds for as long as the call is in the map (1994), so a token that
  is good again and again meets a request. `RemoteEndReported` assumes that: its premise is
  that the app keeps supplying tokens the gateway accepts (`[]<>token`).
* `Session`: polls repeat, requests end, tasks run. `GatewayRefuses` is strongly fair: a request that
  fails for another reason is followed by another one with the same token, and a
  gateway that does not accept a token says so sooner or later. It is needed only for `RejectionIsReported`, which supposes that
  something polls.

Elsewhere fairness is weak: no step competes for a resource it can be denied forever. `CallTable`
has safety properties only; that a call the far end has left is reported is checked in `Transfer`
(connected calls) and `IncomingCall` (offers).

## 5. What is proved

`CallTable_proofs` proves, for every finite set of calls, every cap and every window that
is not outrun (`CallsAssumption`, `LimitsAssumption`, `WindowAssumption`), that `CallTable!Spec` implies
`[]TypeOK`, `[]LiveCap`, `[]OneOffHold`, `[]ShownMatchesTable`, `[]AudioOwned`, `[]NoSlotLeaked`, and
that it implements `CallContract` (`TableImplementsContract`).

None of these is inductive alone; they are proved together as conjuncts of `IndInv`, with three more:

* `OnePlace`: a call is ringing, connected or being torn down, never two of them, and its info
  and reports say which. Without it a removed call could be reported as a live one, and
  the last Ended could be counted twice.
* `UsedIds`: an outgoing id that is not in the window has never been used. `HangupNotYetMade`
  reports on a `CallEvents` of its own, without memory of earlier reports, so the contract
  holds only because the window still knows every id.
* `Reservations`: a call whose answer can still succeed holds its slot, and no earlier
  accept of it is left to drop that slot. This is why `AcceptReservation::drop`, which removes
  the token unconditionally, cannot free a slot that another accept of the same call
  turns into a connected call; and why `LiveCap` survives `AnswerOffer`.

The argument follows the actions: `LiveCap` is arithmetic on cardinalities of disjoint sets
(an answer moves a token from `accepting` to `calls`); the hold lemmas say that
`hold_others` leaves nobody but `keep` off hold; each action is shown to preserve one
conjunct after the other; the refinement step uses `IndInv` to show that each report it
makes is one `Follows` allows.

`Session_proofs` proves, for every set of polls, finite set of heartbeat tasks, set of push tokens and
number of token changes (`TasksAssumption`, `PushAssumption`), that `Session!Spec` implies `[]TypeOK`,
`[]AskedOncePerToken`, `[]OneHeartbeat`, `[]RegistrationAgrees` and the action property `OnlyCurrentTokenAsked`. Its
`IndInv` adds

* `AskedSoFar`: `rejection_reported` says whether the app was asked about the *current* token, and later
  generations have not been asked about. `AskedOncePerToken` needs it because `set_gateway_token`
  clears the flag: that is safe only as no generation comes back.
* `HeartbeatRuns`: `running` is set while any task is. It is cleared by a task that ends,
  under the lock in which it finds nothing requested, and there is no other task then (`OneHeartbeat`).
* `Progress`: what a registration call has written so far; the agreement of a settled one follows from its last step.

`Routing_proofs` proves, for any instances, zones, lifetimes, number of changes and finite sets of calls
(`ZonesAssumption`, `TtlAssumption`, `RoutingAssumption`), that `Routing!Spec` implies `[]Consistent` (`StaysPut`) and
`TargetsAreRecent` (`Recent`). Its invariant has two halves that do not touch:

* `ResolverInv` adds `CacheExplained`: what the cache holds is an answer of some zone, and the time it has left and the time
  since DNS last answered that zone add up to no more than the answer's lifetime (SRV or A). That is what ties an entry to the
  moment it was looked up, which no variable remembers; each tick moves both numbers.
* `CallsInv` adds `OneInstance` (a call that was delivered is held by one instance, the one its route leads to), `Unsent` (a dial
  that is still trying routes is held by none, so that a failover cannot place it twice) and `Offers` (a call that is being accepted is
  offered, and an offered call has a route).

The same module proves `[]DialsTogether` (`PinnedTogether`) for `MAX_LIVE_CALLS <= 2`, the value in the code (98): `pin` is the route of
the one other call, and with three calls there would be two of them. `PinInv` adds `Placed` (where a delivered call's
route is kept, and that a pinned call tries its pin only), `SeenLeads` (a route read of an accept under way leads to the accept's instance for
as long as that call lives: this is what makes a route that was read before the locks were taken usable after it) and `Together` (a call
dialled while the other's instance was certain is pinned to it).

`OutgoingCall_proofs` proves, for any number of routes, retries and token changes, `[]Consistent` (`EndsForGood`),
`[]NoHangupAfterCancel` (`NoSecondEnd`) and `[]OnlySilentRejectionForgets` (`Forgotten`). The parts of its invariant follow the call through its
owners: `Claims` (of `dial`, a hangup and a poll one takes the call), `Requests` (a request that failed left no call, unless its response was
lost), `Cancels` (an accepted cancel ends the call; it is sent for a hangup only), `Hangups` (the call is hung up once: taken while connected, or
answered although its cancel was *not* accepted, which is why the two cannot both happen; and hanging up stops only when the call is gone or the
app told of it, and is dropped only after the rejection of a token that was replaced since or reported before)
and `Left` (a call `dial` returned from without connecting it is in some task's hands). `ReportsFollow` is the
step part of `CallContract` for this call, with `EndedIsOut` as its reason: an answer that finds the call still ringing finds it not reported
ended. Its initial state is the one after Ringing, so the contract's `Init` is not claimed here.

`IncomingCall_proofs` proves `[]Consistent` (`OwnAnswer`) for any number of pushes, accepts and watches and any environments. Three
theorems have the hypothesis `RepeatsFindWatch`, that however often the call is pushed only its first push starts a watch:
`[]ConnectedIsShown` (`ShownWhileConnected`), the contract (`CallImplementsContract`) and, while no reply may be lost, `[]OneEnded`
(`NeverTwoEnded`). Without it all three fail: a push that fetched the offer and comes to watch it after the first watch has ended starts another
one, and `incoming_repeated_push` is the counterexample for `OneEnded`. A call that is pushed once meets the hypothesis (`OnePush`). Its
invariant says that an accept that took the call took its watch for good (`Taken`), and that once Ended was told nobody is left to tell
more (`Over`): the accept that may still get its 200 shares the closed `CallEvents` of the watch. The contract is claimed, as in the run, of
behaviours in which no reply to an accept may be lost.

`Transfer_proofs` proves, for any number of legs, `[]Consistent` (`Succeeds`) and `[]ErrorKeepsCalls` (`FailsHarmlessly`). What makes them
hold although the status of a leg is read in one step and used in another is `Held`: the answer may be stale, but the end it reports cannot be
undone, and an active leg without an outcome is the answer of a gateway that reports none. `Verdicts`, `Removed` and `Moves` tie what the
transfer has seen, and what it has ended, to what the PBX did. `EndedOnce` says that a leg is always in the call map, in the hands of whoever
removed it, or reported (`Owners`), and that no report is made again (`Kept`), although the transfer, the poll and a hangup all look for it.

`Capture_proofs` proves over `CaptureSpec`, for any addresses, app threads, captures, digits and packets, `[]QuietCallIsSilent` (`Silence`),
`[]NoClearVoice` (`Sealed`) and `[]OnePeer` (`SingleParty`). `Quiet` is the reason for "at most one frame": a frame let through
since the flags changed leaves its loop before a check of a flag that is still set. `OneAddress` says that every thread that has an address in
hand has the one in `remote_addr`, and `Keys` that keys are there as soon as both sides agreed, which is before any loop is started
(`Unstarted`). With the hypothesis `NoOverlap` (the app starts no capture of a call while it is in another AI operation on it), it proves
`[]Consistent` (`TapKept`) and the action property `FedWhileOpen` (`FedOnly`); `MCCaptureOverlap.cfg` shows that the
hypothesis is needed.

`Delivery_proofs` proves `[]Consistent` (`InOrder`) for any calls, threads and number of operations. `Answers`, `Holds` and `Takes` say what a thread
may rely on between two lock operations: that a call being answered is not taken by another thread, that one being held or resumed stays in the map, that a
watch which took its entry reports before an answer can get past it. `Places` draws from them where a call is, and when its
`CallEvents` is closed; `Order` is about the queue: each event may follow the one before it, and the last one is Ended once the `CallEvents` is
closed and until then the state the call is in. The lemmas `KeepOrder`, `AppendOrder` and `TailOrder` reduce each action to what it does to the
queue (nothing, an event more, one delivered). `CallbacksKeepContract` follows from `Order` at the head of the queue: what the handler is
called with implements `CallContract`, if a handler is there before the first event (`[]~missed`; an event without one is dropped, as in the code).

**Model-checked only.** Every liveness property (`RemoteEndReported`, `TransferReturns`, `SucceededIsNotLeftUp`, `RejectionIsReported`,
`ChangeIsServed`, `HangupReleasesDial`, `NotLeftUp`, `CancelIsReported`, `NeverLeftConnected`, `LoopsEnd`, `EverythingDelivered`): liveness
under fairness is out of the prover's reach, as are induction over data and RECURSIVE
operators, which these modules do without. Every safety property the runs check is proved, under the hypotheses named above.

## 6. Plan

The components with control state are modelled, and the safety properties the runs check are proved. What is left:

1. `Capture`: weaken `NoOverlap` to the pairs of operations that actually conflict.
2. `Delivery`: that its lock-by-lock steps implement those of `CallTable`, which takes a change and its events as one step.

## 7. What is not modelled, and why

Text formats (SDP, JSON, SIP URIs), the codec that is chosen, STUN and socket I/O carry no control state. The AI
capture's models, its insight store and the threads that drain a capture belong to another crate; a second `ai_init`, which
replaces the state under running captures, is not modelled. The bindings are generated. Audio levels, call statistics
and the queries are plain reads; `check_remote_hangup` pops a bounded backlog the polls push to, the latest first.
`clear_cache` of the resolver is called by nothing. `PROJECT.json` has one entry per component with its status.
