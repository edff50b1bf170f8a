---------------------------- MODULE IncomingCall ----------------------------
(***************************************************************************)
(* One incoming call: the pushes that offer it, the watch that follows it  *)
(* until it is answered, accept_incoming_call, reject_incoming_call, and   *)
(* what is left behind by an accept whose outcome is unknown.              *)
(*                                                                         *)
(* Every watch and every accept that finds no watch makes a CallEvents of  *)
(* its own, and a CallEvents refuses to report only after its own Ended:   *)
(* the model keeps their identities apart.  A watch's poll looks the entry *)
(* of pending_incoming up by call token, so it may find the entry of a     *)
(* later watch.                                                            *)
(*                                                                         *)
(* The gateway is outside the repository; it is modelled from the answers  *)
(* src/src/gateway_client.rs and src/src/lib.rs expect of it.              *)
(***************************************************************************)
EXTENDS Naturals, FiniteSets

CONSTANTS PUSHES,       \* bound: how many pushes arrive for the call
          ACCEPTS,      \* bound: how many times the app accepts it
          MAX_WATCHES,  \* bound: how many watches are started for it
          Environments  \* sets of what may happen besides, a behaviour has one

ASSUME BoundsAssumption == PUSHES \in Nat /\ ACCEPTS \in Nat /\ MAX_WATCHES \in Nat

\* The reply to an accept, or only to the last accept, can be lost; another
\* device can answer; the watch can outlast PENDING_INCOMING_MAX_WATCH.
ASSUME EnvironmentAssumption ==
  Environments \subseteq SUBSET {"lost_reply", "last_reply_lost", "other_device", "expiry"}

UNKNOWN_STATUSES_BEFORE_ENDED == 3

Watch   == 1 .. MAX_WATCHES
Attempt == 1 .. ACCEPTS
\* A watch w has the CallEvents w; an accept n with no watch has its own.
CallEvents == 1 .. MAX_WATCHES + ACCEPTS

VARIABLES
  may,        \* what may happen in this behaviour; it never changes
  push,       \* push[p]: a handle_push_notification call
  accept,     \* the latest accept_incoming_call, its CallEvents and the reply
  reject,     \* reject_incoming_call has been confirmed by the gateway
  entry,      \* the call's entry in pending_incoming; id 0 when there is none
  poll,       \* poll[w]: the status poll of watch w
  watches,    \* how many watches have been started
  connected,  \* the call is in the call map
  hangup,     \* hangup[e]: the hang_up_at_gateway of the call connected as e
  ended,      \* the CallEvents that have reported Ended
  shown, ends,\* the state last reported to the app, and the number of Ended
  wire,       \* accepts sent that the gateway has yet to handle
  gw          \* the call at the gateway

events == <<ended, shown, ends>>
vars == <<may, push, accept, reject, entry, poll, watches, connected, hangup,
          events, wire, gw>>

None == [id |-> 0, accepting |-> FALSE, abandoned |-> FALSE, rejected |-> FALSE]
Idle == [at |-> "off", status |-> "none", unknowns |-> 0, stop |-> FALSE]
Watched == entry.id # 0
Answering == accept.at = "sent"
\* Two attempts, and how they ended: the gateway took one, the app was told
\* that hanging up failed, or the hangup was dropped without a word.
Hangups == {"none", "ready", "retry", "done", "told", "dropped"}

TypeOK ==
  /\ may \in Environments
  /\ push \in [1 .. PUSHES -> {"idle", "got", "done"}]
  /\ accept \in [at : {"idle", "reserved", "got", "sent", "cleared", "unknown"},
                 n : 0 .. ACCEPTS, ev : {0} \cup CallEvents,
                 reply : {"none", "ok", "refused", "lost"}]
  /\ reject \in BOOLEAN
  /\ entry \in [id : {0} \cup Watch, accepting : BOOLEAN, abandoned : BOOLEAN,
                rejected : BOOLEAN]
  /\ poll \in [Watch -> [at : {"off", "asleep", "answered", "rejecting"},
                         status : {"none", "ringing", "active", "ended", "unknown"},
                         unknowns : 0 .. UNKNOWN_STATUSES_BEFORE_ENDED, stop : BOOLEAN]]
  /\ watches \in 0 .. MAX_WATCHES
  /\ connected \in BOOLEAN /\ hangup \in [CallEvents -> Hangups]
  /\ ended \subseteq CallEvents
  /\ shown \in {"None", "Connected", "Ended"} /\ ends \in Nat
  /\ wire \subseteq Attempt
  /\ gw \in {"offered", "up", "elsewhere", "gone"}

Init ==
  /\ may \in Environments
  /\ push = [p \in 1 .. PUSHES |-> "idle"]
  /\ accept = [at |-> "idle", n |-> 0, ev |-> 0, reply |-> "none"]
  /\ reject = FALSE /\ entry = None
  /\ poll = [w \in Watch |-> Idle] /\ watches = 0
  /\ connected = FALSE /\ hangup = [e \in CallEvents |-> "none"]
  /\ ended = {} /\ shown = "None" /\ ends = 0
  /\ wire = {} /\ gw = "offered"

-----------------------------------------------------------------------------
\* CallEvents::emit_ended on the CallEvents e.
EmitEnded(e) ==
  IF e \in ended THEN UNCHANGED events
  ELSE ended' = ended \cup {e} /\ shown' = "Ended" /\ ends' = ends + 1

\* watch_incoming: an existing watch is marked abandoned, or a new one starts.
watch_incoming(abandoned) ==
  IF Watched
  THEN /\ entry' = [entry EXCEPT !.abandoned = @ \/ abandoned,
                                 !.accepting = @ /\ ~abandoned]
       /\ UNCHANGED <<poll, watches>>
  ELSE /\ watches < MAX_WATCHES
       /\ watches' = watches + 1
       /\ entry' = [None EXCEPT !.id = watches + 1, !.abandoned = abandoned]
       /\ poll' = [poll EXCEPT ![watches + 1].at = "asleep"]

\* take_pending_incoming: the entry goes and its poll is told to stop.
take_pending_incoming ==
  /\ entry' = None
  /\ poll' = IF Watched THEN [poll EXCEPT ![entry.id].stop = TRUE] ELSE poll

-----------------------------------------------------------------------------
(* handle_push_notification: the offer is fetched, and then watched. *)

PushGetsOffer(p) ==
  /\ push[p] = "idle" /\ gw = "offered"
  /\ push' = [push EXCEPT ![p] = "got"]
  /\ UNCHANGED <<may, accept, reject, entry, poll, watches, connected, hangup, events, wire, gw>>

PushWatches(p) ==
  /\ push[p] = "got"
  /\ push' = [push EXCEPT ![p] = "done"]
  /\ watch_incoming(FALSE)
  /\ UNCHANGED <<may, accept, reject, connected, hangup, events, wire, gw>>

-----------------------------------------------------------------------------
(* accept_incoming_call, for a call some push has offered to the user. *)

reserve_accept ==
  /\ accept.at = "idle" /\ ~connected /\ accept.n < ACCEPTS
  /\ \E p \in 1 .. PUSHES : push[p] = "done"
  /\ accept' = [at |-> "reserved", n |-> accept.n + 1, ev |-> 0, reply |-> "none"]
  /\ UNCHANGED <<may, push, reject, entry, poll, watches, connected, hangup, events, wire, gw>>

AcceptGetsOffer ==
  /\ accept.at = "reserved" /\ gw = "offered"
  /\ accept' = [accept EXCEPT !.at = "got"]
  /\ UNCHANGED <<may, push, reject, entry, poll, watches, connected, hangup, events, wire, gw>>

\* No token, no offer, or no media: nothing has been sent.
AcceptFails ==
  /\ accept.at \in {"reserved", "got"}
  /\ accept' = [accept EXCEPT !.at = "idle"]
  /\ UNCHANGED <<may, push, reject, entry, poll, watches, connected, hangup, events, wire, gw>>

\* Mutant: the answer always reports on CallEvents of its own.
mut_SendAnswer ==
  /\ accept.at = "got"
  /\ accept' = [accept EXCEPT !.at = "sent", !.ev = MAX_WATCHES + accept.n]
  /\ entry' = IF Watched THEN [entry EXCEPT !.accepting = TRUE] ELSE entry
  /\ wire' = wire \cup {accept.n}
  /\ UNCHANGED <<may, push, reject, poll, watches, connected, hangup, events, gw>>

\* answer_offer shares the watch's CallEvents, if there is still a watch.
SendAnswer ==
  /\ accept.at = "got"
  /\ accept' = [accept EXCEPT !.at = "sent",
                              !.ev = IF Watched THEN entry.id ELSE MAX_WATCHES + accept.n]
  /\ entry' = IF Watched THEN [entry EXCEPT !.accepting = TRUE] ELSE entry
  /\ wire' = wire \cup {accept.n}
  /\ UNCHANGED <<may, push, reject, poll, watches, connected, hangup, events, gw>>

\* Mutant: the entry stays marked as being accepted.
mut_AnswerRefused ==
  /\ Answering /\ accept.reply = "refused"
  /\ accept' = [accept EXCEPT !.at = "idle"]
  /\ UNCHANGED <<may, push, reject, entry, poll, watches, connected, hangup, events, wire, gw>>

\* Refused: the offer stays, and so does the watch.
AnswerRefused ==
  /\ Answering /\ accept.reply = "refused"
  /\ accept' = [accept EXCEPT !.at = "idle"]
  /\ entry' = [entry EXCEPT !.accepting = FALSE]
  /\ UNCHANGED <<may, push, reject, poll, watches, connected, hangup, events, wire, gw>>

\* Mutant: an accept of unknown outcome leaves the watch as it is.
mut_AnswerUnknown ==
  /\ Answering /\ accept.reply = "lost"
  /\ accept' = [accept EXCEPT !.at = "unknown"]
  /\ UNCHANGED <<may, push, reject, entry, poll, watches, connected, hangup, events, wire, gw>>

\* Unknown outcome: the call is abandoned to the watch ...
AnswerUnknown ==
  /\ Answering /\ accept.reply = "lost"
  /\ accept' = [accept EXCEPT !.at = "unknown"]
  /\ watch_incoming(TRUE)
  /\ UNCHANGED <<may, push, reject, connected, hangup, events, wire, gw>>

\* ... and reported ended.
UnknownReported ==
  /\ accept.at = "unknown"
  /\ accept' = [accept EXCEPT !.at = "idle"]
  /\ EmitEnded(accept.ev)
  /\ UNCHANGED <<may, push, reject, entry, poll, watches, connected, hangup, wire, gw>>

\* Accepted: clear_pending_incoming ...
AnswerAccepted ==
  /\ Answering /\ accept.reply = "ok"
  /\ accept' = [accept EXCEPT !.at = "cleared"]
  /\ take_pending_incoming
  /\ UNCHANGED <<may, push, reject, watches, connected, hangup, events, wire, gw>>

\* (Mutant: it connects even when it has been reported ended.)
mut_Connect ==
  /\ accept.at = "cleared"
  /\ accept' = [accept EXCEPT !.at = "idle"]
  /\ connected' = TRUE
  /\ shown' = IF accept.ev \in ended THEN shown ELSE "Connected"
  /\ UNCHANGED <<may, push, reject, entry, poll, watches, hangup, ended, ends, wire, gw>>

\* How the hangup of the call last accepted begins.
hang_up(start) == hangup' = [hangup EXCEPT ![accept.ev] = start]

\* ... and the call connects, unless it has been reported ended; then it is
\* hung up at the gateway.
Connect ==
  /\ accept.at = "cleared"
  /\ accept' = [accept EXCEPT !.at = "idle"]
  /\ IF accept.ev \in ended THEN hang_up("ready") /\ UNCHANGED <<connected, shown>>
     ELSE connected' = TRUE /\ shown' = "Connected" /\ UNCHANGED hangup
  /\ UNCHANGED <<may, push, reject, entry, poll, watches, ended, ends, wire, gw>>

-----------------------------------------------------------------------------
(* The connected call. *)

\* hangup, or the status poll that finds the call gone, take it out of the
\* call map and report it on the CallEvents it connected with.  A hangup
\* without a token sends nothing and throws AuthenticationError.
HangUp ==
  /\ connected /\ connected' = FALSE
  /\ EmitEnded(accept.ev)
  /\ hang_up("ready") \/ hang_up("told")
  /\ UNCHANGED <<may, push, accept, reject, entry, poll, watches, wire, gw>>

PollEnds ==
  /\ connected /\ gw = "gone"
  /\ connected' = FALSE
  /\ EmitEnded(accept.ev)
  /\ UNCHANGED <<may, push, accept, reject, entry, poll, watches, hangup, wire, gw>>

\* hang_up_at_gateway: the gateway ends the call; or it rejects the token,
\* which the app is told unless that token was replaced since or its rejection
\* was told before; or the request, or only its reply, fails, which is retried
\* once and then told.
HangUpAtGateway(e) ==
  /\ hangup[e] \in {"ready", "retry"}
  /\ \/ hangup' = [hangup EXCEPT ![e] = "done"] /\ gw' = "gone"
     \/ /\ \E end \in {"told", "dropped"} : hangup' = [hangup EXCEPT ![e] = end]
        /\ UNCHANGED gw
     \/ /\ hangup' = [hangup EXCEPT ![e] = IF hangup[e] = "ready" THEN "retry" ELSE "told"]
        /\ gw' \in {gw, "gone"}
  /\ UNCHANGED <<may, push, accept, reject, entry, poll, watches, connected, events, wire>>

-----------------------------------------------------------------------------
(* reject_incoming_call: the gateway confirms, then the watch is taken. *)

GatewayRejects ==
  /\ ~reject /\ gw = "offered" /\ \E p \in 1 .. PUSHES : push[p] = "done"
  /\ reject' = TRUE /\ gw' = "gone"
  /\ UNCHANGED <<may, push, accept, entry, poll, watches, connected, hangup, events, wire>>

RejectReported ==
  /\ reject /\ reject' = FALSE
  /\ take_pending_incoming
  /\ IF Watched THEN EmitEnded(entry.id) ELSE UNCHANGED events
  /\ UNCHANGED <<may, push, accept, watches, connected, hangup, wire, gw>>

-----------------------------------------------------------------------------
(* spawn_status_poll, with watch_incoming's decisions. *)

\* What GET /v1/calls/{token}/status can answer poll w.  While the gateway
\* hands an answered call over it can be unknown, but not for so long that it
\* counts as gone.
Statuses(w) ==
  CASE gw = "offered" -> {"ringing"}
    [] gw \in {"up", "elsewhere"} ->
         IF poll[w].unknowns + 1 < UNKNOWN_STATUSES_BEFORE_ENDED
         THEN {"active", "unknown"} ELSE {"active"}
    [] gw = "gone" -> {"ended", "unknown"}

PollAsks(w) ==
  /\ poll[w].at = "asleep" /\ ~poll[w].stop
  /\ \E s \in Statuses(w) : poll' = [poll EXCEPT ![w].at = "answered", ![w].status = s]
  /\ UNCHANGED <<may, push, accept, reject, entry, watches, connected, hangup, events, wire, gw>>

\* The stop flag is set, or the watch has lasted PENDING_INCOMING_MAX_WATCH.
PollStops(w) ==
  /\ poll[w].at = "asleep" /\ (poll[w].stop \/ "expiry" \in may)
  /\ poll' = [poll EXCEPT ![w] = Idle]
  /\ UNCHANGED <<may, push, accept, reject, entry, watches, connected, hangup, events, wire, gw>>

\* GoneDetector::is_gone.
unknown_streak(w) ==
  CASE poll[w].status = "unknown" -> poll[w].unknowns + 1
    [] poll[w].status = "ended"   -> poll[w].unknowns
    [] OTHER -> 0
is_gone(w) == \/ poll[w].status = "ended"
              \/ /\ poll[w].status = "unknown"
                 /\ unknown_streak(w) >= UNKNOWN_STATUSES_BEFORE_ENDED

Asleep(w) == [poll[w] EXCEPT !.at = "asleep", !.status = "none",
                             !.unknowns = unknown_streak(w)]

\* The answered poll w is done: whoever holds the entry now has its outcome.
PollFindsNothing(w) ==
  /\ poll[w].at = "answered" /\ ~Watched
  /\ poll' = [poll EXCEPT ![w] = Idle]
  /\ UNCHANGED <<may, push, accept, reject, entry, watches, connected, hangup, events, wire, gw>>

PollFindsActive(w) ==
  /\ poll[w].at = "answered" /\ Watched /\ poll[w].status = "active"
  /\ entry' = None
  /\ poll' = [poll EXCEPT ![w] = Idle]
  /\ hangup' = IF entry.abandoned /\ ~entry.accepting
               THEN [hangup EXCEPT ![entry.id] = "ready"] ELSE hangup
  /\ IF entry.accepting \/ entry.abandoned THEN UNCHANGED events ELSE EmitEnded(entry.id)
  /\ UNCHANGED <<may, push, accept, reject, watches, connected, wire, gw>>

\* (Mutant: a call being accepted is left to the accept to report.)
mut_PollFindsGone(w) ==
  /\ poll[w].at = "answered" /\ Watched /\ is_gone(w)
  /\ entry' = None
  /\ poll' = [poll EXCEPT ![w] = Idle]
  /\ IF entry.abandoned \/ entry.accepting THEN UNCHANGED events ELSE EmitEnded(entry.id)
  /\ UNCHANGED <<may, push, accept, reject, watches, connected, hangup, wire, gw>>
PollFindsGone(w) ==
  /\ poll[w].at = "answered" /\ Watched /\ is_gone(w)
  /\ entry' = None
  /\ poll' = [poll EXCEPT ![w] = Idle]
  /\ IF entry.abandoned THEN UNCHANGED events ELSE EmitEnded(entry.id)
  /\ UNCHANGED <<may, push, accept, reject, watches, connected, hangup, wire, gw>>

PollContinues(w) ==
  /\ poll[w].at = "answered" /\ Watched
  /\ poll[w].status # "active" /\ ~is_gone(w)
  /\ IF entry.abandoned /\ ~entry.rejected
     THEN /\ entry' = [entry EXCEPT !.rejected = TRUE]
          /\ poll' = [poll EXCEPT ![w] = [Asleep(w) EXCEPT !.at = "rejecting"]]
     ELSE poll' = [poll EXCEPT ![w] = Asleep(w)] /\ UNCHANGED entry
  /\ UNCHANGED <<may, push, accept, reject, watches, connected, hangup, events, wire, gw>>

\* The one reject of an abandoned call; a failure is only logged.
PollRejects(w) ==
  /\ poll[w].at = "rejecting"
  /\ poll' = [poll EXCEPT ![w].at = "asleep"]
  /\ \/ gw = "offered" /\ gw' = "gone"
     \/ UNCHANGED gw
  /\ UNCHANGED <<may, push, accept, reject, entry, watches, connected, hangup, events, wire>>

-----------------------------------------------------------------------------
(* The gateway, the caller and the user's other devices. *)

\* An accept reaches the gateway, even after the client has given up on it.
GatewayGetsAnswer(n) ==
  /\ n \in wire /\ wire' = wire \ {n}
  /\ gw' = IF gw = "offered" THEN "up" ELSE gw
  /\ accept' = IF accept.n = n /\ Answering /\ accept.reply = "none"
               THEN [accept EXCEPT !.reply = IF gw = "offered" THEN "ok" ELSE "refused"]
               ELSE accept
  /\ UNCHANGED <<may, push, reject, entry, poll, watches, connected, hangup, events>>

\* The gateway turns the accept down without answering the call.
GatewayRefuses(n) ==
  /\ n \in wire /\ Answering /\ accept.n = n /\ accept.reply = "none"
  /\ wire' = wire \ {n}
  /\ accept' = [accept EXCEPT !.reply = "refused"]
  /\ UNCHANGED <<may, push, reject, entry, poll, watches, connected, hangup, events, gw>>

\* The client gives up on the accept, or its connection breaks.
AcceptReplyLost ==
  /\ Answering
  /\ \/ "lost_reply" \in may
     \/ "last_reply_lost" \in may /\ accept.n = ACCEPTS
  /\ accept' = [accept EXCEPT !.reply = "lost"]
  /\ UNCHANGED <<may, push, reject, entry, poll, watches, connected, hangup, events, wire, gw>>

OtherDeviceAnswers ==
  /\ "other_device" \in may /\ gw = "offered" /\ gw' = "elsewhere"
  /\ UNCHANGED <<may, push, accept, reject, entry, poll, watches, connected, hangup, events, wire>>

\* The caller cancels, or a party to the answered call hangs up.
RemoteEnds ==
  /\ gw # "gone" /\ gw' = "gone"
  /\ UNCHANGED <<may, push, accept, reject, entry, poll, watches, connected, hangup, events, wire>>

-----------------------------------------------------------------------------
AcceptStep == \/ AnswerRefused \/ AnswerUnknown \/ UnknownReported \/ AnswerAccepted \/ Connect
PollStep(w) == \/ PollAsks(w) \/ PollStops(w) \/ PollFindsNothing(w) \/ PollFindsActive(w)
               \/ PollFindsGone(w) \/ PollContinues(w) \/ PollRejects(w)

Next == \/ \E p \in 1 .. PUSHES : PushGetsOffer(p) \/ PushWatches(p)
        \/ reserve_accept \/ AcceptGetsOffer \/ AcceptFails \/ SendAnswer \/ AcceptStep
        \/ HangUp \/ PollEnds \/ (\E e \in CallEvents : HangUpAtGateway(e))
        \/ GatewayRejects \/ RejectReported
        \/ \E w \in Watch : PollStep(w)
        \/ \E n \in Attempt : GatewayGetsAnswer(n) \/ GatewayRefuses(n)
        \/ AcceptReplyLost \/ OtherDeviceAnswers \/ RemoteEnds

Spec == Init /\ [][Next]_vars

\* Threads and tasks run, an accept gets a reply or times out, and a poll is
\* repeated until it is answered.  A gone call is reported `ended` or often
\* enough `unknown`.
Fairness ==
  /\ WF_vars(AcceptStep) /\ WF_vars(RejectReported) /\ WF_vars(PollEnds)
  /\ WF_vars(\E e \in CallEvents : HangUpAtGateway(e))
  /\ WF_vars(\E n \in Attempt : GatewayGetsAnswer(n) \/ GatewayRefuses(n))
  /\ \A w \in Watch : WF_vars(PollStep(w))

FairSpec == Spec /\ Fairness

-----------------------------------------------------------------------------
\* The call is reported as the contract with the app allows, whichever of
\* watch, accept, reject and hangup report it: one Ended, nothing after it.
\* Where the reply to an accept may be lost it is not claimed: an accept that
\* finds no watch, rejected in between, reports an Ended of its own.
ReplyMayBeLost == may \cap {"lost_reply", "last_reply_lost"} # {}
Contract == INSTANCE CallContract WITH
              Call <- {"call"},
              reported <- [c \in {"call"} |-> IF ReplyMayBeLost THEN "None" ELSE shown],
              endings <- [c \in {"call"} |-> IF ReplyMayBeLost THEN 0 ELSE ends]
ImplementsContract == Contract!Spec

\* "Each call_id that has been reported receives exactly one Ended."
OneEnded == ends <= 1

\* The app never believes a connected call to be over.
ConnectedIsShown == connected => shown = "Connected"

\* The watch takes an active status for this handset's own answer only while
\* an answer is under way, so that it does not drop a call silently.
AcceptingIsAnswering == entry.accepting => Answering

\* AcceptingIsAnswering over well-typed states.
Consistent == TypeOK /\ AcceptingIsAnswering

\* The watch outlasted PENDING_INCOMING_MAX_WATCH: its poll is over and has
\* left the entry behind.
WatchExpired == Watched /\ poll[entry.id].at = "off"

\* An offer that goes while it is watched, before a poll has seen it answered,
\* is reported ended, as long as the watch lasts.
SeenAnswered == \E w \in Watch : poll[w].status = "active"
CancelIsReported ==
  (Watched /\ gw = "gone" /\ ~SeenAnswered) ~> (shown = "Ended" \/ WatchExpired)

\* An offer another device answers while it is watched is reported ended.
AnsweredElsewhereIsReported == (Watched /\ gw = "elsewhere") ~> shown = "Ended"

\* The call is never left connected with nobody on this end: when the gateway
\* took an accept this handset has given up on, the call is hung up, or the
\* app learns that it was not.  Two cases are left out: the call's watch
\* expires first, or its hangup was dropped, the gateway having rejected a
\* token that was replaced since or whose rejection the app already knew.
Nobody == gw = "up" /\ accept.at = "idle" /\ ~connected
ToldOrDropped == \E e \in CallEvents : hangup[e] \in {"told", "dropped"}
NeverLeftConnected == Nobody ~> (gw # "up" \/ ToldOrDropped \/ WatchExpired)

=============================================================================
