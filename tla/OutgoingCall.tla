---------------------------- MODULE OutgoingCall ----------------------------
(***************************************************************************)
(* One outgoing call from its reservation on: make_call_with_id's `dial`,  *)
(* a `hangup` that can land at any point of it, the background tasks that  *)
(* hangup leaves behind (the cancel loop, the hangup of a call that was    *)
(* answered anyway), and the gateway they all talk to, over connections    *)
(* that can fail before or after a request is delivered.                   *)
(*                                                                         *)
(* The gateway is outside the repository; it is modelled from the answers  *)
(* src/src/gateway_client.rs and src/src/lib.rs expect of it.              *)
(***************************************************************************)
EXTENDS Naturals, FiniteSets

CONSTANTS ROUTES,          \* how many gateway instances `routes` lists (1 when pinned)
          CANCEL_RETRIES,  \* the number of CANCEL_RETRY_DELAYS
          MAX_GENERATION   \* bound: how often set_gateway_token is called

ASSUME RoutesAssumption == ROUTES \in Nat \ {0}
ASSUME BoundsAssumption == CANCEL_RETRIES \in Nat /\ MAX_GENERATION \in Nat

HANGUP_ATTEMPTS == 2

VARIABLES
  dial,       \* where the thread inside `dial` is
  place,      \* the call in the engine: ringing, connected, or taken out
  dialing,    \* PendingOutgoing.dialing
  hanger,     \* a hangup that found the call ringing
  shown,      \* the state last reported for the call
  attempt,    \* index of the route POST /v1/calls was last sent to, 0 = none
  req,        \* the request task: POST /v1/calls
  resp,       \* the gateway's response to it
  gw,         \* the call at the gateway instance `attempt`
  cancel,     \* the cancel_at_gateway task
  outcome,    \* cancel_outcome
  cleanup,    \* the hang_up_if_answered task
  hup,        \* hang_up_at_gateway
  auth,       \* GatewayAuth, and the tokens the gateway no longer accepts
  told,       \* hanging up failed, and hangup threw or reported it
  lost        \* the response to POST /v1/calls was lost on its way back

engine == <<dial, place, dialing, hanger, shown>>
request == <<attempt, req, resp>>
tasks == <<cancel, outcome, cleanup, hup>>
vars == <<engine, request, gw, tasks, auth, told, lost>>

Generations == 0 .. MAX_GENERATION
Replies == {"none", "taken", "unknown", "unauthorized", "failed"}
Answered == req = "ok"
request_done == req \in {"ok", "err"}

TypeOK ==
  /\ dial \in {"media", "ready", "waiting", "joined", "returned"}
  /\ place \in {"ringing", "connected", "removed"}
  /\ dialing \in BOOLEAN
  /\ hanger \in {"idle", "taken", "done"}
  /\ shown \in {"Ringing", "Connected", "Ended"}
  /\ attempt \in 0 .. ROUTES
  /\ req \in {"none", "connecting", "sent", "ok", "err"}
  /\ resp \in {"none", "ok", "refused"}
  /\ gw \in {"none", "posted", "ringing", "cancelling", "up", "gone"}
  /\ cancel \in [at : {"idle", "ready", "sent", "backoff", "done"}, route : 0 .. ROUTES,
                 gen : Generations, reply : Replies, retries : 0 .. CANCEL_RETRIES]
  /\ outcome \in {"none", "accepted", "not_accepted"}
  /\ cleanup \in {"none", "answer", "outcome", "done"}
  /\ hup \in [at : {"idle", "ready", "sent", "done", "dropped"}, gen : Generations,
              reply : Replies, attempts : 0 .. HANGUP_ATTEMPTS]
  /\ auth \in [generation : Generations, blank : BOOLEAN,
               reported : SUBSET Generations, rejected : SUBSET Generations]
  /\ told \in BOOLEAN /\ lost \in BOOLEAN

\* reserve_outgoing has just queued Ringing.
Init ==
  /\ dial = "media" /\ place = "ringing" /\ dialing = FALSE
  /\ hanger = "idle" /\ shown = "Ringing"
  /\ attempt = 0 /\ req = "none" /\ resp = "none" /\ gw = "none"
  /\ cancel = [at |-> "idle", route |-> 0, gen |-> 0, reply |-> "none",
               retries |-> CANCEL_RETRIES]
  /\ outcome = "none" /\ cleanup = "none"
  /\ hup = [at |-> "idle", gen |-> 0, reply |-> "none", attempts |-> HANGUP_ATTEMPTS]
  /\ auth = [generation |-> 0, blank |-> FALSE, reported |-> {}, rejected |-> {}]
  /\ told = FALSE /\ lost = FALSE

-----------------------------------------------------------------------------
(* dial. *)

\* A failure of dial takes the call out of `ringing` and reports Ended,
\* unless a hangup took it first.
EndIfRinging ==
  IF place = "ringing" THEN place' = "removed" /\ shown' = "Ended"
                       ELSE UNCHANGED <<place, shown>>

\* The SDP offer is ready, or could not be built.
MediaReady ==
  /\ dial = "media"
  /\ dial' = "ready"
  /\ UNCHANGED <<place, dialing, hanger, shown, request, gw, tasks, auth, told, lost>>

MediaFails ==
  /\ dial = "media"
  /\ dial' = "returned"
  /\ EndIfRinging
  /\ UNCHANGED <<dialing, hanger, request, gw, tasks, auth, told, lost>>

\* The select on media setup sees the hangup's cancel.
MediaCancelled ==
  /\ dial = "media" /\ hanger = "done"
  /\ dial' = "returned"
  /\ UNCHANGED <<place, dialing, hanger, shown, request, gw, tasks, auth, told, lost>>

\* The call is marked as sent under the lock and its request is spawned, or
\* it was hung up and nothing is sent.
MarkDialing ==
  /\ dial = "ready"
  /\ IF place = "ringing"
     THEN /\ dialing' = TRUE /\ dial' = "waiting"
          /\ req' = "connecting" /\ attempt' = 1
     ELSE /\ dial' = "returned"
          /\ UNCHANGED <<dialing, req, attempt>>
  /\ UNCHANGED <<place, hanger, shown, resp, gw, tasks, auth, told, lost>>

\* The select on the request: the request has returned ...
RequestJoined ==
  /\ dial = "waiting" /\ request_done
  /\ dial' = "joined"
  /\ UNCHANGED <<place, dialing, hanger, shown, request, gw, tasks, auth, told, lost>>

\* ... or hangup has taken the call; a task waits for the answer instead.
\* (Mutants: it forgets the task; it waits for the request first.)
mut_DialCancelled ==
  /\ dial = "waiting" /\ hanger = "done"
  /\ dial' = "returned"
  /\ UNCHANGED <<place, dialing, hanger, shown, request, gw, tasks, auth, told, lost>>
mut_DialCancelledLate ==
  /\ dial = "waiting" /\ hanger = "done" /\ request_done
  /\ dial' = "returned"
  /\ cleanup' = "answer"
  /\ UNCHANGED <<place, dialing, hanger, shown, request, gw, cancel, outcome, hup, auth, told, lost>>

DialCancelled ==
  /\ dial = "waiting" /\ hanger = "done"
  /\ dial' = "returned"
  /\ cleanup' = "answer"
  /\ UNCHANGED <<place, dialing, hanger, shown, request, gw, cancel, outcome, hup, auth, told, lost>>

DialFails ==
  /\ dial = "joined" /\ req = "err"
  /\ dial' = "returned"
  /\ EndIfRinging
  /\ UNCHANGED <<dialing, hanger, request, gw, tasks, auth, told, lost>>

\* Mutant: the answer connects the call without claiming it.
mut_Connect ==
  /\ dial = "joined" /\ Answered
  /\ dial' = "returned" /\ place' = "connected"
  /\ shown' = IF shown = "Ended" THEN shown ELSE "Connected"
  /\ UNCHANGED <<dialing, hanger, request, gw, tasks, auth, told, lost>>

\* The call moves from ringing to the call map in one step, unless a hangup
\* has claimed it; then the answered call is left to a cleanup task.
Connect ==
  /\ dial = "joined" /\ Answered
  /\ dial' = "returned"
  /\ IF place = "ringing"
     THEN place' = "connected" /\ shown' = "Connected" /\ UNCHANGED cleanup
     ELSE cleanup' = "outcome" /\ UNCHANGED <<place, shown>>
  /\ UNCHANGED <<dialing, hanger, request, gw, cancel, outcome, hup, auth, told, lost>>

-----------------------------------------------------------------------------
(* The request task: GatewayClient::make_call over send_on. *)

\* No connection: the next route, if there is one.
ConnectFails ==
  /\ req = "connecting"
  /\ IF attempt < ROUTES THEN attempt' = attempt + 1 /\ UNCHANGED req
                         ELSE req' = "err" /\ UNCHANGED attempt
  /\ UNCHANGED <<engine, resp, gw, tasks, auth, told, lost>>

RequestSent ==
  /\ req = "connecting"
  /\ req' = "sent" /\ gw' = "posted"
  /\ UNCHANGED <<engine, attempt, resp, tasks, auth, told, lost>>

RequestReturns ==
  /\ req = "sent" /\ resp # "none"
  /\ req' = IF resp = "ok" THEN "ok" ELSE "err"
  /\ UNCHANGED <<engine, attempt, resp, gw, tasks, auth, told, lost>>

\* A failure after sending is never retried on another route.
ResponseLost ==
  /\ req = "sent"
  /\ req' = "err" /\ lost' = TRUE
  /\ UNCHANGED <<engine, attempt, resp, gw, tasks, auth, told>>

-----------------------------------------------------------------------------
(* hangup. *)

\* take_for_hangup of an active call; one with no token is not hung up at the
\* gateway, and hangup throws AuthenticationError.
HangupActive ==
  /\ place = "connected"
  /\ place' = "removed" /\ shown' = "Ended"
  /\ IF auth.blank THEN told' = TRUE /\ UNCHANGED hup
                   ELSE hup' = [hup EXCEPT !.at = "ready"] /\ UNCHANGED told
  /\ UNCHANGED <<dial, dialing, hanger, request, gw, cancel, outcome, cleanup, auth, lost>>

\* take_for_hangup of a ringing call: it is out of `ringing` ...
TakeRinging ==
  /\ place = "ringing"
  /\ place' = "removed" /\ hanger' = "taken"
  /\ UNCHANGED <<dial, dialing, shown, request, gw, tasks, auth, told, lost>>

\* ... and cancel_ringing reports it, releases dial and, if the call was
\* marked as sent and there is a token, spawns the cancel.
cancel_ringing ==
  /\ hanger = "taken"
  /\ hanger' = "done" /\ shown' = "Ended"
  /\ IF ~dialing THEN UNCHANGED <<cancel, outcome>>
     ELSE IF auth.blank THEN outcome' = "not_accepted" /\ UNCHANGED cancel
     ELSE cancel' = [cancel EXCEPT !.at = "ready"] /\ UNCHANGED outcome
  /\ UNCHANGED <<dial, place, dialing, request, gw, cleanup, hup, auth, told, lost>>

\* The status poll reports a connected call the far end has left.
PollEnds ==
  /\ place = "connected" /\ gw = "gone"
  /\ place' = "removed" /\ shown' = "Ended"
  /\ UNCHANGED <<dial, dialing, hanger, request, gw, tasks, auth, told, lost>>

-----------------------------------------------------------------------------
(* cancel_at_gateway. *)

\* A cancel goes to the instance the request was last sent to.
CancelSend ==
  /\ cancel.at = "ready"
  /\ cancel' = [cancel EXCEPT !.at = "sent", !.reply = "none",
                              !.route = IF attempt = 0 THEN 1 ELSE attempt,
                              !.gen = auth.generation]
  /\ UNCHANGED <<engine, request, gw, outcome, cleanup, hup, auth, told, lost>>

\* report_auth_rejected asks the app for a token when the rejected one is the
\* current one and its rejection is the first.
rejection_is_new(g) == g = auth.generation /\ g \notin auth.reported
report_rejection(g) ==
  auth' = IF rejection_is_new(g) THEN [auth EXCEPT !.reported = @ \cup {g}] ELSE auth

CancelEnds(result) ==
  /\ cancel' = [cancel EXCEPT !.at = "done"]
  /\ outcome' = result

CancelReturns ==
  /\ cancel.at = "sent"
  /\ \/ cancel.reply = "taken" /\ CancelEnds("accepted") /\ UNCHANGED auth
     \/ /\ cancel.reply = "unknown"
        /\ IF cancel.retries = 0 \/ request_done THEN CancelEnds("not_accepted")
           ELSE /\ cancel' = [cancel EXCEPT !.at = "backoff", !.retries = @ - 1]
                /\ UNCHANGED outcome
        /\ UNCHANGED auth
     \/ /\ cancel.reply = "unauthorized"
        /\ CancelEnds("not_accepted") /\ report_rejection(cancel.gen)
     \/ cancel.reply = "failed" /\ CancelEnds("not_accepted") /\ UNCHANGED auth
  /\ UNCHANGED <<engine, request, gw, cleanup, hup, told, lost>>

\* The back-off before a retry ends early when the request returns.
BackoffEnds ==
  /\ cancel.at = "backoff"
  /\ \/ cancel' = [cancel EXCEPT !.at = "ready"] /\ UNCHANGED outcome
     \/ request_done /\ CancelEnds("not_accepted")
  /\ UNCHANGED <<engine, request, gw, cleanup, hup, auth, told, lost>>

-----------------------------------------------------------------------------
(* hang_up_if_answered and hang_up_at_gateway. *)

\* Mutant: the cleanup never hangs the call up.
mut_CleanupAnswered ==
  /\ cleanup = "answer" /\ request_done
  /\ cleanup' = "done"
  /\ UNCHANGED <<engine, request, gw, cancel, outcome, hup, auth, told, lost>>

\* The cancelled request's task has its answer.
CleanupAnswered ==
  /\ cleanup = "answer" /\ request_done
  /\ cleanup' = IF Answered THEN "outcome" ELSE "done"
  /\ UNCHANGED <<engine, request, gw, cancel, outcome, hup, auth, told, lost>>

\* Mutant: the outcome of the cancel is not waited for.
mut_CleanupOutcome ==
  /\ cleanup = "outcome"
  /\ cleanup' = "done"
  /\ hup' = [hup EXCEPT !.at = "ready"]
  /\ UNCHANGED <<engine, request, gw, cancel, outcome, auth, told, lost>>

\* An answered call is left alone if its cancel was accepted.  (The wait for
\* the outcome is longer than the one cancel request that can still be out.)
CleanupOutcome ==
  /\ cleanup = "outcome" /\ outcome # "none"
  /\ cleanup' = "done"
  /\ hup' = IF outcome = "accepted" THEN hup ELSE [hup EXCEPT !.at = "ready"]
  /\ UNCHANGED <<engine, request, gw, cancel, outcome, auth, told, lost>>

HangupSend ==
  /\ hup.at = "ready"
  /\ hup' = [hup EXCEPT !.at = "sent", !.reply = "none", !.gen = auth.generation,
                        !.attempts = @ - 1]
  /\ UNCHANGED <<engine, request, gw, cancel, outcome, cleanup, auth, told, lost>>

\* A rejected token ends the attempts: its rejection is reported, or, if it is
\* not new, the hangup is dropped without a word.  Any other failure is
\* retried once and then reported through on_error.
HangupReturns ==
  /\ hup.at = "sent"
  /\ \/ /\ hup.reply = "taken"
        /\ hup' = [hup EXCEPT !.at = "done"]
        /\ UNCHANGED <<auth, told>>
     \/ /\ hup.reply = "unauthorized"
        /\ hup' = [hup EXCEPT !.at = IF rejection_is_new(hup.gen) THEN "done" ELSE "dropped"]
        /\ told' = (told \/ rejection_is_new(hup.gen))
        /\ report_rejection(hup.gen)
     \/ /\ hup.reply \in {"unknown", "failed"}
        /\ hup' = [hup EXCEPT !.at = IF hup.attempts = 0 THEN "done" ELSE "ready"]
        /\ told' = (told \/ hup.attempts = 0)
        /\ UNCHANGED auth
  /\ UNCHANGED <<engine, request, gw, cancel, outcome, cleanup, lost>>

-----------------------------------------------------------------------------
(* GatewayAuth as the rest of the app and engine use it. *)

\* set_gateway_token, with a fresh token or with none.
SetToken(blank) ==
  /\ auth.generation < MAX_GENERATION
  /\ auth' = [auth EXCEPT !.generation = @ + 1, !.blank = blank,
                          !.rejected = IF blank THEN @ \cup {auth.generation + 1} ELSE @]
  /\ UNCHANGED <<engine, request, gw, tasks, told, lost>>

\* A poll or heartbeat has the current token rejected.
OtherRejection ==
  /\ auth.generation \in auth.rejected
  /\ report_rejection(auth.generation)
  /\ UNCHANGED <<engine, request, gw, tasks, told, lost>>

TokenExpires(g) ==
  /\ g <= auth.generation
  /\ auth' = [auth EXCEPT !.rejected = @ \cup {g}]
  /\ UNCHANGED <<engine, request, gw, tasks, told, lost>>

-----------------------------------------------------------------------------
(* The gateway. *)

\* It registers the client_ref and sends the INVITE.
GatewayRings ==
  /\ gw = "posted" /\ gw' = "ringing"
  /\ UNCHANGED <<engine, request, tasks, auth, told, lost>>

\* The far end answers, or the call fails.
GatewayResponds ==
  /\ \/ gw = "ringing" /\ gw' = "up" /\ resp' = "ok"
     \/ gw \in {"posted", "ringing"} /\ gw' = "gone" /\ resp' = "refused"
  /\ UNCHANGED <<engine, attempt, req, tasks, auth, told, lost>>

\* A CANCEL ends the call; an answer that crossed it is still passed on.
GatewayCancels ==
  /\ gw = "cancelling" /\ gw' = "gone" /\ resp' \in {"ok", "refused"}
  /\ UNCHANGED <<engine, attempt, req, tasks, auth, told, lost>>

RemoteEnds ==
  /\ gw = "up" /\ gw' = "gone"
  /\ UNCHANGED <<engine, request, tasks, auth, told, lost>>

\* POST /v1/calls/cancel: 202 on the instance where the call rings.
GatewayGetsCancel ==
  /\ cancel.at = "sent" /\ cancel.reply = "none"
  /\ \/ /\ cancel.gen \in auth.rejected
        /\ cancel' = [cancel EXCEPT !.reply = "unauthorized"]
        /\ UNCHANGED gw
     \/ /\ cancel.gen \notin auth.rejected
        /\ cancel.route = attempt /\ gw = "ringing"
        /\ cancel' = [cancel EXCEPT !.reply = "taken"]
        /\ gw' = "cancelling"
     \/ \* Nothing rings there, or the gateway has no cancel route.
        /\ cancel.gen \notin auth.rejected
        /\ cancel' = [cancel EXCEPT !.reply = "unknown"]
        /\ UNCHANGED gw
  /\ UNCHANGED <<engine, request, outcome, cleanup, hup, auth, told, lost>>

\* POST /v1/calls/{token}/hangup.
GatewayGetsHangup ==
  /\ hup.at = "sent" /\ hup.reply = "none"
  /\ IF hup.gen \in auth.rejected
     THEN hup' = [hup EXCEPT !.reply = "unauthorized"] /\ UNCHANGED gw
     ELSE /\ hup' = [hup EXCEPT !.reply = IF gw = "up" THEN "taken" ELSE "unknown"]
          /\ gw' = IF gw = "up" THEN "gone" ELSE gw
  /\ UNCHANGED <<engine, request, cancel, outcome, cleanup, auth, told, lost>>

\* Either request, or its reply, is lost, or the gateway fails it.
CancelLost ==
  /\ cancel.at = "sent"
  /\ cancel' = [cancel EXCEPT !.reply = "failed"]
  /\ UNCHANGED <<engine, request, gw, outcome, cleanup, hup, auth, told, lost>>

HangupLost ==
  /\ hup.at = "sent"
  /\ hup' = [hup EXCEPT !.reply = "failed"]
  /\ UNCHANGED <<engine, request, gw, cancel, outcome, cleanup, auth, told, lost>>

-----------------------------------------------------------------------------
DialStep == \/ MediaReady \/ MediaFails \/ MediaCancelled \/ MarkDialing
            \/ RequestJoined \/ DialCancelled \/ DialFails \/ Connect
RequestStep == ConnectFails \/ RequestSent \/ RequestReturns \/ ResponseLost
HangupStep  == HangupActive \/ TakeRinging \/ cancel_ringing \/ PollEnds
CancelStep  == CancelSend \/ CancelReturns \/ BackoffEnds
CleanupStep == CleanupAnswered \/ CleanupOutcome \/ HangupSend \/ HangupReturns
AuthStep    == \/ \E b \in BOOLEAN : SetToken(b)
               \/ OtherRejection
               \/ \E g \in Generations : TokenExpires(g)
GatewayStep == \/ GatewayRings \/ GatewayResponds \/ GatewayCancels \/ RemoteEnds
               \/ GatewayGetsCancel \/ GatewayGetsHangup \/ CancelLost \/ HangupLost

Next == \/ DialStep \/ RequestStep \/ HangupStep \/ CancelStep \/ CleanupStep
        \/ AuthStep \/ GatewayStep

Spec == Init /\ [][Next]_vars

\* The app's two threads run: a hangup that has begun ends, and dial goes on
\* once it has something to go on with.  Nothing is assumed of media setup,
\* of the request or of the gateway.
LocalFairness ==
  /\ WF_vars(cancel_ringing)
  /\ WF_vars(MediaCancelled) /\ WF_vars(MarkDialing) /\ WF_vars(DialCancelled)
  /\ WF_vars(DialFails) /\ WF_vars(Connect)
FairSpec == Spec /\ LocalFairness

\* Every request ends, by its timeout at the latest; the runtime's tasks
\* run; and the gateway gives up an unanswered INVITE after 30 s.
NetworkFairness ==
  /\ WF_vars(RequestStep) /\ WF_vars(CancelStep) /\ WF_vars(CleanupStep)
  /\ WF_vars(GatewayResponds) /\ WF_vars(GatewayCancels)
  /\ WF_vars(GatewayGetsCancel) /\ WF_vars(GatewayGetsHangup)

-----------------------------------------------------------------------------
\* A call reported Ended is out of the engine for good: an answer that comes
\* in while hangup is between its steps can no longer connect it.
EndedIsOut == shown = "Ended" => place = "removed"

\* EndedIsOut over well-typed states.
Consistent == TypeOK /\ EndedIsOut

\* A call the app hung up while it rang is never forgotten while it may still
\* ring or be answered at the gateway: a cancel or a hangup is under way, a
\* task waits for the answer, or the app knows the hangup failed.  Only a
\* lost response to POST /v1/calls, which carries the call's token, is out
\* of the engine's reach.
Pursued ==
  \/ gw \in {"none", "gone", "cancelling"}
  \/ cancel.at \in {"ready", "sent", "backoff"}
  \/ cleanup \in {"answer", "outcome"}
  \/ hup.at \in {"ready", "sent"}
  \/ told \/ lost
HungUpIsPursued == shown = "Ended" /\ dial = "returned" => Pursued

\* However tokens are replaced and expire, the one way such a call is
\* forgotten is a hangup dropped because its token was rejected: a token the
\* app has replaced since, or was asked to replace before.
SilentRejection ==
  /\ hup.at = "dropped"
  /\ hup.gen < auth.generation \/ hup.gen \in auth.reported
OnlySilentRejectionForgets ==
  shown = "Ended" /\ dial = "returned" => Pursued \/ SilentRejection

\* A cancel the engine knows was accepted is never followed by a hangup: the
\* gateway itself ends a call whose answer crossed the CANCEL.
NoHangupAfterCancel == outcome = "accepted" => hup.at = "idle"

\* hangup releases make_call_with_id whatever the gateway, the network and
\* media setup do, or fail to do.
HangupReleasesDial == hanger = "done" ~> dial = "returned"

\* Where requests end and the gateway answers, a call that has ended here
\* ends at the gateway, unless the app was told that it may not have, the
\* response that carried its token was lost, or the hangup was dropped.
NotLeftUp == NetworkFairness =>
  ((shown = "Ended" /\ gw # "none") ~> (gw = "gone" \/ told \/ lost \/ SilentRejection))

=============================================================================
