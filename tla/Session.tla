------------------------------- MODULE Session -------------------------------
(***************************************************************************)
(* The engine's session with the gateway: the token (src/src/auth.rs), the *)
(* background requests that can have it rejected (call status polls and    *)
(* heartbeats), the heartbeats a change of network asks for, and the       *)
(* device's registration.                                                  *)
(*                                                                         *)
(* A background request carries a snapshot of the token and its generation;*)
(* its rejection can arrive after the token has been replaced.  Registering*)
(* and unregistering are one API call at a time; a request and what is done*)
(* with its answer are steps that everything else interleaves with.        *)
(***************************************************************************)
EXTENDS Naturals, FiniteSets

CONSTANTS Poll,            \* status polls
          Beat,            \* heartbeat tasks that may be spawned
          Push,            \* push tokens the OS may issue
          MAX_GENERATION   \* bound: how often set_gateway_token is called

ASSUME TasksAssumption == /\ Poll \cap Beat = {} /\ IsFiniteSet(Beat)
                          /\ MAX_GENERATION \in Nat

Request     == Poll \cup Beat
Generations == 0 .. MAX_GENERATION
NoPush      == "none"
Idle        == [at |-> "idle", gen |-> 0]      \* no request
ASSUME PushAssumption == NoPush \notin Push

VARIABLES
  auth,       \* GatewayAuth: no token?, generation, rejection_reported
  refused,    \* generations of tokens the gateway does not accept
  asked,      \* asked[g]: how often on_auth_required was queued for token g
  req,        \* req[r]: a background request and the generation it carries
  state,      \* HeartbeatState
  beat,       \* beat[b]: where heartbeat task b is in its loop
  unserved,   \* a network change that no heartbeat round has begun after
  api,        \* register_device, unregister_device or update_push_token
  last,       \* last_registration, by its push token
  device,     \* device_id is set
  shown,      \* the last on_registration_changed
  gw,         \* the push token the gateway has for the device
  unsure      \* the response to the latest registration call was lost

token    == <<auth, refused, asked>>
beating  == <<state, beat, unserved>>
register == <<api, last, device, shown, gw, unsure>>
vars     == <<token, req, beating, register>>

TypeOK ==
  /\ auth \in [blank : BOOLEAN, generation : Generations, rejection_reported : BOOLEAN]
  /\ refused \subseteq Generations
  /\ asked \in [Generations -> Nat]
  /\ req \in [Request -> [at : {"idle", "sent", "refused"}, gen : Generations]]
  /\ state \in [running : BOOLEAN, requested : BOOLEAN]
  /\ beat \in [Beat -> {"off", "check", "read", "wait"}]
  /\ unserved \in BOOLEAN
  /\ api \in [at : {"idle", "sent", "taken", "kept", "known"}, push : Push \cup {NoPush}]
  /\ last \in Push \cup {NoPush} /\ device \in BOOLEAN
  /\ shown \in {"none", "registered", "unregistered"}
  /\ gw \in Push \cup {NoPush} /\ unsure \in BOOLEAN

\* GatewayConfig may come with a token or without.
Init ==
  /\ \E blank \in BOOLEAN :
       /\ auth = [blank |-> blank, generation |-> 0, rejection_reported |-> FALSE]
       /\ refused = IF blank THEN {0} ELSE {}
  /\ asked = [g \in Generations |-> 0]
  /\ req = [r \in Request |-> Idle]
  /\ state = [running |-> FALSE, requested |-> FALSE]
  /\ beat = [b \in Beat |-> "off"] /\ unserved = FALSE
  /\ api = [at |-> "idle", push |-> NoPush]
  /\ last = NoPush /\ device = FALSE /\ shown = "none"
  /\ gw = NoPush /\ unsure = FALSE

-----------------------------------------------------------------------------
(* GatewayAuth. *)

\* Mutant: the report made for the previous token is remembered.
mut_set_gateway_token(blank) ==
  /\ auth.generation < MAX_GENERATION
  /\ auth' = [auth EXCEPT !.blank = blank, !.generation = @ + 1]
  /\ refused' = IF blank THEN refused \cup {auth.generation + 1} ELSE refused
  /\ UNCHANGED <<asked, req, beating, register>>

set_gateway_token(blank) ==
  /\ auth.generation < MAX_GENERATION
  /\ auth' = [blank |-> blank, generation |-> auth.generation + 1, rejection_reported |-> FALSE]
  /\ refused' = IF blank THEN refused \cup {auth.generation + 1} ELSE refused
  /\ UNCHANGED <<asked, req, beating, register>>

TokenExpires(g) ==
  /\ g <= auth.generation /\ refused' = refused \cup {g}
  /\ UNCHANGED <<auth, asked, req, beating, register>>

\* (Mutants: the generation is not compared; repeats are reported.)
mut_report_rejection(generation) == ~auth.rejection_reported
mut_report_repeats(generation) == generation = auth.generation
\* Whether the app is to be told of a rejection of the token of `generation`.
report_rejection(generation) == generation = auth.generation /\ ~auth.rejection_reported

\* report_auth_rejected.
report_auth_rejected(generation) ==
  IF report_rejection(generation)
  THEN /\ auth' = [auth EXCEPT !.rejection_reported = TRUE]
       /\ asked' = [asked EXCEPT ![generation] = @ + 1]
  ELSE UNCHANGED <<auth, asked>>

-----------------------------------------------------------------------------
(* Background requests. *)

\* GatewayAuth::snapshot: sent even with no token, to be rejected.
Sent == [at |-> "sent", gen |-> auth.generation]

PollAsks(p) ==
  /\ req[p].at = "idle" /\ req' = [req EXCEPT ![p] = Sent]
  /\ UNCHANGED <<token, beating, register>>

\* The gateway answers, or the request fails.
RequestEnds(r) ==
  /\ req[r].at = "sent" /\ req' = [req EXCEPT ![r] = Idle]
  /\ UNCHANGED <<token, beating, register>>

GatewayRefuses(r) ==
  /\ req[r].at = "sent" /\ req[r].gen \in refused
  /\ req' = [req EXCEPT ![r].at = "refused"]
  /\ UNCHANGED <<token, beating, register>>

RequestRejected(r) ==
  /\ req[r].at = "refused" /\ req' = [req EXCEPT ![r] = Idle]
  /\ report_auth_rejected(req[r].gen)
  /\ UNCHANGED <<refused, beating, register>>

-----------------------------------------------------------------------------
(* notify_network_change and the heartbeat task. *)

\* The heartbeat tasks that are not running.
Free == {b \in Beat : beat[b] = "off"}

\* Mutant: a task is spawned for every change.
mut_notify_network_change ==
  /\ Free # {}
  /\ state' = [running |-> TRUE, requested |-> TRUE]
  /\ beat' = [beat EXCEPT ![CHOOSE b \in Free : TRUE] = "check"]
  /\ unserved' = TRUE
  /\ UNCHANGED <<token, req, register>>

\* A task is spawned unless one runs.
notify_network_change ==
  /\ Free # {}
  /\ state' = [running |-> TRUE, requested |-> TRUE]
  /\ beat' = IF state.running THEN beat
             ELSE [beat EXCEPT ![CHOOSE b \in Free : TRUE] = "check"]
  /\ unserved' = TRUE
  /\ UNCHANGED <<token, req, register>>

\* A round begins, or there is nothing left to do: decided under the lock.
RoundBegins(b) ==
  /\ beat[b] = "check"
  /\ IF state.requested
     THEN state' = [state EXCEPT !.requested = FALSE] /\ beat' = [beat EXCEPT ![b] = "read"]
     ELSE state' = [state EXCEPT !.running = FALSE] /\ beat' = [beat EXCEPT ![b] = "off"]
  /\ UNCHANGED <<token, req, unserved, register>>

\* The device and token of this moment are used, if there is a device.
SendHeartbeat(b) ==
  /\ beat[b] = "read" /\ unserved' = FALSE
  /\ IF device THEN beat' = [beat EXCEPT ![b] = "wait"] /\ req' = [req EXCEPT ![b] = Sent]
               ELSE beat' = [beat EXCEPT ![b] = "check"] /\ UNCHANGED req
  /\ UNCHANGED <<token, state, register>>

\* Mutant: the request for another round is cleared after this one.
mut_HeartbeatReturns(b) ==
  /\ beat[b] = "wait" /\ req[b].at = "idle"
  /\ beat' = [beat EXCEPT ![b] = "check"]
  /\ state' = [state EXCEPT !.requested = FALSE]
  /\ UNCHANGED <<token, req, unserved, register>>
HeartbeatReturns(b) ==
  /\ beat[b] = "wait" /\ req[b].at = "idle"
  /\ beat' = [beat EXCEPT ![b] = "check"]
  /\ UNCHANGED <<token, req, state, unserved, register>>

-----------------------------------------------------------------------------
(* Registration. *)

\* register_device, or update_push_token of a registration that is kept;
\* unregister_device is asked for with NoPush.  Without a token they throw.
Ask(push) ==
  /\ api.at = "idle" /\ ~auth.blank
  /\ api' = [at |-> "sent", push |-> push]
  /\ UNCHANGED <<token, req, beating, last, device, shown, gw, unsure>>

GatewayRegisters ==
  /\ api.at = "sent"
  /\ api' = [api EXCEPT !.at = "taken"] /\ gw' = api.push /\ unsure' = FALSE
  /\ UNCHANGED <<token, req, beating, last, device, shown>>

\* The request is refused, never arrives, or its response is lost.
RegistrationFails ==
  /\ api.at = "sent"
  /\ api' = [at |-> "idle", push |-> NoPush]
  /\ \/ UNCHANGED <<gw, unsure>>
     \/ gw' = api.push /\ unsure' = TRUE
  /\ UNCHANGED <<token, req, beating, last, device, shown>>

\* Mutant: a registration that rotates the push token is not kept.
mut_KeepRegistration ==
  /\ api.at = "taken" /\ api' = [api EXCEPT !.at = "kept"]
  /\ last' = IF api.push = NoPush \/ device THEN last ELSE api.push
  /\ UNCHANGED <<token, req, beating, device, shown, gw, unsure>>

\* register_device keeps the registration; unregister_device leaves it.
KeepRegistration ==
  /\ api.at = "taken" /\ api' = [api EXCEPT !.at = "kept"]
  /\ last' = IF api.push = NoPush THEN last ELSE api.push
  /\ UNCHANGED <<token, req, beating, device, shown, gw, unsure>>

\* Mutant: unregistering keeps the device_id.
mut_KeepDevice ==
  /\ api.at = "kept" /\ api' = [api EXCEPT !.at = "known"]
  /\ device' = TRUE
  /\ UNCHANGED <<token, req, beating, last, shown, gw, unsure>>
KeepDevice ==
  /\ api.at = "kept" /\ api' = [api EXCEPT !.at = "known"]
  /\ device' = (api.push # NoPush)
  /\ UNCHANGED <<token, req, beating, last, shown, gw, unsure>>

ReportRegistration ==
  /\ api.at = "known" /\ api' = [at |-> "idle", push |-> NoPush]
  /\ shown' = IF api.push = NoPush THEN "unregistered" ELSE "registered"
  /\ UNCHANGED <<token, req, beating, last, device, gw, unsure>>

-----------------------------------------------------------------------------
TokenStep      == \/ \E blank \in BOOLEAN : set_gateway_token(blank)
                  \/ \E g \in Generations : TokenExpires(g)
RequestStep(r) == RequestEnds(r) \/ GatewayRefuses(r) \/ RequestRejected(r)
BeatStep(b)    == RoundBegins(b) \/ SendHeartbeat(b) \/ HeartbeatReturns(b)
RegisterStep   == \/ GatewayRegisters \/ RegistrationFails
                  \/ KeepRegistration \/ KeepDevice \/ ReportRegistration

Next == \/ TokenStep
        \/ \E p \in Poll : PollAsks(p)
        \/ \E r \in Request : RequestStep(r)
        \/ notify_network_change
        \/ \E b \in Beat : BeatStep(b)
        \/ \E push \in Push \cup {NoPush} : Ask(push)
        \/ RegisterStep

Spec == Init /\ [][Next]_vars

\* Tasks run, requests end, and a gateway that is asked with a bad token again
\* and again says so.
Fairness ==
  /\ \A p \in Poll : WF_vars(PollAsks(p))
  /\ \A r \in Request : /\ WF_vars(RequestEnds(r) \/ GatewayRefuses(r))
                        /\ SF_vars(GatewayRefuses(r)) /\ WF_vars(RequestRejected(r))
  /\ \A b \in Beat : WF_vars(BeatStep(b))

FairSpec == Spec /\ Fairness

-----------------------------------------------------------------------------
\* "on_auth_required fires at most once per token", however many polls and
\* heartbeats have it rejected, before or after it is replaced.
AskedOncePerToken == \A g \in Generations : asked[g] <= 1

\* "A 401 for a token that has already been replaced is ignored."
OnlyCurrentTokenAsked ==
  [][\A g \in Generations : asked'[g] # asked[g] => g = auth.generation]_vars

\* "At most one heartbeat is in flight."
OneHeartbeat == \A b, c \in Beat : beat[b] # "off" /\ beat[c] # "off" => b = c

\* A registration call that is over leaves the engine, the app and the gateway
\* of one mind, but for a lost response.
Agreed == /\ device <=> gw # NoPush
          /\ device => last = gw
          /\ shown = "registered" <=> device
RegistrationAgrees == api.at = "idle" /\ ~unsure => Agreed

(* The inductive invariant the proofs of Session_proofs rest on. *)

\* rejection_reported is about the current token; later ones were never asked for.
AskedSoFar ==
  /\ asked[auth.generation] = IF auth.rejection_reported THEN 1 ELSE 0
  /\ \A g \in Generations : g > auth.generation => asked[g] = 0

\* `running` is set while a task is.
HeartbeatRuns == \A b \in Beat : beat[b] # "off" => state.running

\* What a registration call has done so far.
Progress ==
  /\ api.at \in {"idle", "sent"} /\ ~unsure => Agreed
  /\ api.at \in {"taken", "kept", "known"} => ~unsure /\ gw = api.push
  /\ api.at \in {"kept", "known"} /\ gw # NoPush => last = gw
  /\ api.at = "known" => (device <=> gw # NoPush)

IndInv == /\ TypeOK /\ AskedOncePerToken /\ AskedSoFar
          /\ OneHeartbeat /\ HeartbeatRuns /\ Progress

(* Liveness. *)

\* A token the gateway rejects leads to the app being asked for a new one,
\* while anything polls.
RejectionIsReported == \A g \in Generations :
  (Poll # {} /\ auth.generation = g /\ g \in refused) ~> (asked[g] = 1 \/ auth.generation # g)

\* A network change is followed by a heartbeat round that uses the device and
\* token current after it, whatever heartbeat was under way.
ChangeIsServed == unserved ~> ~unserved

=============================================================================
