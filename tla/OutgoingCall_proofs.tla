------------------------ MODULE OutgoingCall_proofs ------------------------
(***************************************************************************)
(* Theorems about an outgoing call, for any number of routes, of cancel    *)
(* retries and of token changes.  The parts of the inductive invariant     *)
(* follow the call through its owners: who may still claim it (Claims),    *)
(* what its request has come to (Requests), its cancel (Cancels) and its   *)
(* hangup (Hangups), and what dial left behind (Left).                     *)
(***************************************************************************)
EXTENDS OutgoingCall, TLAPS

\* Of dial, a hangup and a poll one takes the call out of its map.
Claims ==
  /\ place = "ringing" => dial # "returned" /\ hanger = "idle"
  /\ place = "connected" => dial = "returned" /\ hanger = "idle"
  /\ dial # "returned" /\ place = "removed" => hanger # "idle"
  /\ dial # "returned" => cleanup = "none"
  /\ cleanup # "none" => hanger # "idle"

\* A request that has failed left no call, unless its response was lost.
Requests ==
  /\ dial \in {"media", "ready"} => req = "none"
  /\ req \in {"none", "connecting"} => gw = "none"
  /\ resp = "ok" => gw \in {"up", "gone"}
  /\ resp = "refused" => gw = "gone"
  /\ req = "err" => lost \/ gw \in {"none", "gone"}

\* The cancel runs for a hangup only, and an accepted one ends the call.
Cancels ==
  /\ hanger # "done" => cancel.at = "idle" /\ outcome = "none"
  /\ cancel.at \in {"ready", "sent", "backoff"} => outcome = "none"
  /\ cancel.at = "sent" /\ cancel.reply = "taken" => gw \in {"cancelling", "gone"}
  /\ outcome = "accepted" => gw \in {"cancelling", "gone"}

\* The call is hung up once: taken while connected, or answered although its
\* cancel was not accepted.  Hanging up ends only when the call is known to
\* be gone or the app to be told, and is dropped only after the rejection of
\* a token that was replaced since or already reported.
Hangups ==
  /\ hup.gen <= auth.generation
  /\ hup.at \in {"idle", "ready"} => hup.attempts # 0
  /\ hup.at # "idle" => \/ hanger = "idle" /\ place = "removed"
                        \/ cleanup = "done" /\ outcome = "not_accepted"
  /\ hup.at = "sent" /\ hup.reply = "taken" => gw = "gone"
  /\ hup.at = "done" => gw = "gone" \/ told
  /\ hup.at = "dropped" => SilentRejection

\* When dial has returned, the call is connected, was never placed or never
\* taken by the gateway, or is in some task's hands.
Left ==
  dial = "returned" /\ place # "connected" =>
    \/ req \in {"none", "err"} \/ gw = "gone" \/ told
    \/ cleanup \in {"answer", "outcome"}
    \/ outcome = "accepted" \/ hup.at # "idle"

IInv == /\ TypeOK /\ EndedIsOut
        /\ Claims /\ Requests /\ Cancels /\ Hangups /\ Left

LEMMA InitInv == Init => IInv
<1> SUFFICES ASSUME Init PROVE IInv
  OBVIOUS
<1> USE RoutesAssumption, BoundsAssumption DEF Init
<1>1. cancel \in [at : {"idle", "ready", "sent", "backoff", "done"}, route : 0 .. ROUTES,
                  gen : Generations, reply : Replies, retries : 0 .. CANCEL_RETRIES]
  BY DEF Generations, Replies
<1>2. hup \in [at : {"idle", "ready", "sent", "done", "dropped"}, gen : Generations,
               reply : Replies, attempts : 0 .. HANGUP_ATTEMPTS]
  BY DEF Generations, Replies, HANGUP_ATTEMPTS
<1>3. auth \in [generation : Generations, blank : BOOLEAN,
                reported : SUBSET Generations, rejected : SUBSET Generations]
  BY DEF Generations
<1>4. TypeOK
  BY <1>1, <1>2, <1>3 DEF TypeOK
<1>5. EndedIsOut /\ Claims /\ Requests /\ Cancels /\ Left
  BY DEF EndedIsOut, Claims, Requests, Cancels, Left
<1>6. Hangups
  BY DEF Hangups, HANGUP_ATTEMPTS
<1> QED BY <1>4, <1>5, <1>6 DEF IInv

LEMMA TypeStep == IInv /\ [Next]_vars => TypeOK'
<1> SUFFICES ASSUME IInv, [Next]_vars PROVE TypeOK'
  OBVIOUS
<1> USE RoutesAssumption, BoundsAssumption DEF IInv, TypeOK, Generations, Replies, HANGUP_ATTEMPTS, Hangups
<1>1. CASE DialStep
  <2> USE DEF request, tasks
  <2>1. CASE MediaReady
    BY <2>1 DEF MediaReady
  <2>2. CASE MediaFails
    BY <2>2 DEF MediaFails, EndIfRinging
  <2>3. CASE MediaCancelled
    BY <2>3 DEF MediaCancelled
  <2>4. CASE MarkDialing
    <3>1. attempt' \in 0 .. ROUTES
      BY <2>4 DEF MarkDialing
    <3>2. dialing' \in BOOLEAN
      BY <2>4, Zenon DEF MarkDialing
    <3> QED BY <2>4, <3>1, <3>2 DEF MarkDialing
  <2>5. CASE RequestJoined
    BY <2>5 DEF RequestJoined, request_done
  <2>6. CASE DialCancelled
    BY <2>6 DEF DialCancelled
  <2>7. CASE DialFails
    BY <2>7 DEF DialFails, EndIfRinging
  <2>8. CASE Connect
    BY <2>8 DEF Connect, Answered
  <2> QED BY <1>1, <2>1, <2>2, <2>3, <2>4, <2>5, <2>6, <2>7, <2>8 DEF DialStep
<1>2. CASE RequestStep
  <2> USE DEF engine, tasks
  <2>1. CASE ConnectFails
    BY <2>1 DEF ConnectFails
  <2>2. CASE RequestSent
    BY <2>2 DEF RequestSent
  <2>3. CASE RequestReturns
    BY <2>3 DEF RequestReturns
  <2>4. CASE ResponseLost
    BY <2>4 DEF ResponseLost
  <2> QED BY <1>2, <2>1, <2>2, <2>3, <2>4 DEF RequestStep
<1>3. CASE HangupStep
  <2> USE DEF request, tasks
  <2>1. CASE HangupActive
    <3>1. hup' \in [at : {"idle", "ready", "sent", "done", "dropped"}, gen : Generations,
                   reply : Replies, attempts : 0 .. HANGUP_ATTEMPTS]
      BY <2>1 DEF HangupActive
    <3>2. told' \in BOOLEAN
      BY <2>1, Zenon DEF HangupActive
    <3> QED BY <2>1, <3>1, <3>2 DEF HangupActive
  <2>2. CASE TakeRinging
    BY <2>2 DEF TakeRinging
  <2>3. CASE cancel_ringing
    BY <2>3 DEF cancel_ringing
  <2>4. CASE PollEnds
    BY <2>4 DEF PollEnds
  <2> QED BY <1>3, <2>1, <2>2, <2>3, <2>4 DEF HangupStep
<1>4. CASE CancelStep
  <2> USE DEF engine, request
  <2>1. CASE CancelSend
    <3> DEFINE to == IF attempt = 0 THEN 1 ELSE attempt
    <3>1. to \in 0 .. ROUTES /\ auth.generation \in Generations
      OBVIOUS
    <3>2. cancel' = [cancel EXCEPT !.at = "sent", !.reply = "none", !.route = to,
                                   !.gen = auth.generation]
      BY <2>1 DEF CancelSend
    <3> HIDE DEF to
    <3>3. cancel' \in [at : {"idle", "ready", "sent", "backoff", "done"}, route : 0 .. ROUTES,
                      gen : Generations, reply : Replies, retries : 0 .. CANCEL_RETRIES]
      BY <3>1, <3>2
    <3> QED BY <2>1, <3>3 DEF CancelSend
  <2>2. CASE CancelReturns
    <3> USE DEF CancelReturns, CancelEnds, report_rejection, rejection_is_new
    <3>1. cancel' \in [at : {"idle", "ready", "sent", "backoff", "done"}, route : 0 .. ROUTES,
                      gen : Generations, reply : Replies, retries : 0 .. CANCEL_RETRIES]
      <4>1. CASE cancel' = [cancel EXCEPT !.at = "backoff", !.retries = @ - 1] /\ cancel.retries # 0
        <5>1. cancel.retries - 1 \in 0 .. CANCEL_RETRIES
          BY <4>1
        <5> QED BY <4>1, <5>1
      <4>2. CASE cancel' = [cancel EXCEPT !.at = "done"]
        BY <4>2
      <4>3. cancel' = [cancel EXCEPT !.at = "done"]
            \/ (cancel' = [cancel EXCEPT !.at = "backoff", !.retries = @ - 1] /\ cancel.retries # 0)
        BY <2>2
      <4> QED BY <4>1, <4>2, <4>3
    <3>2. auth' \in [generation : Generations, blank : BOOLEAN,
                    reported : SUBSET Generations, rejected : SUBSET Generations]
      BY <2>2
    <3>3. outcome' \in {"none", "accepted", "not_accepted"}
      BY <2>2
    <3> QED BY <2>2, <3>1, <3>2, <3>3
  <2>3. CASE BackoffEnds
    BY <2>3 DEF BackoffEnds, CancelEnds, request_done
  <2> QED BY <1>4, <2>1, <2>2, <2>3 DEF CancelStep
<1>5. CASE CleanupStep
  <2> USE DEF engine, request
  <2>1. CASE CleanupAnswered
    BY <2>1 DEF CleanupAnswered, Answered, request_done
  <2>2. CASE CleanupOutcome
    BY <2>2 DEF CleanupOutcome
  <2>3. CASE HangupSend
    <3>1. hup.attempts - 1 \in 0 .. HANGUP_ATTEMPTS /\ auth.generation \in Generations
      BY <2>3 DEF HangupSend
    <3>2. hup' \in [at : {"idle", "ready", "sent", "done", "dropped"}, gen : Generations,
                   reply : Replies, attempts : 0 .. HANGUP_ATTEMPTS]
      BY <2>3, <3>1 DEF HangupSend
    <3> QED BY <2>3, <3>2 DEF HangupSend
  <2>4. CASE HangupReturns
    <3> USE DEF HangupReturns, report_rejection, rejection_is_new
    <3>1. hup' \in [at : {"idle", "ready", "sent", "done", "dropped"}, gen : Generations,
                   reply : Replies, attempts : 0 .. HANGUP_ATTEMPTS]
      BY <2>4
    <3>2. auth' \in [generation : Generations, blank : BOOLEAN,
                    reported : SUBSET Generations, rejected : SUBSET Generations]
      BY <2>4
    <3>3. told' \in BOOLEAN
      BY <2>4
    <3> QED BY <2>4, <3>1, <3>2, <3>3
  <2> QED BY <1>5, <2>1, <2>2, <2>3, <2>4 DEF CleanupStep
<1>6. CASE AuthStep
  <2> USE DEF engine, request, tasks
  <2>1. ASSUME NEW b \in BOOLEAN, SetToken(b) PROVE TypeOK'
    <3> DEFINE now == IF b THEN auth.rejected \cup {auth.generation + 1} ELSE auth.rejected
    <3>1. auth.generation + 1 \in Generations /\ now \in SUBSET Generations
      BY <2>1 DEF SetToken
    <3>2. auth' = [auth EXCEPT !.generation = auth.generation + 1, !.blank = b, !.rejected = now]
      BY <2>1 DEF SetToken
    <3> HIDE DEF now
    <3>3. auth' \in [generation : Generations, blank : BOOLEAN,
                    reported : SUBSET Generations, rejected : SUBSET Generations]
      BY <3>1, <3>2
    <3> QED BY <2>1, <3>3 DEF SetToken
  <2>2. CASE OtherRejection
    BY <2>2 DEF OtherRejection, report_rejection, rejection_is_new
  <2>3. ASSUME NEW g \in Generations, TokenExpires(g) PROVE TypeOK'
    BY <2>3 DEF TokenExpires
  <2> QED BY <1>6, <2>1, <2>2, <2>3 DEF AuthStep
<1>7. CASE GatewayStep
  <2> USE DEF engine, request, tasks
  <2>1. CASE GatewayRings
    BY <2>1 DEF GatewayRings
  <2>2. CASE GatewayResponds
    BY <2>2 DEF GatewayResponds
  <2>3. CASE GatewayCancels
    BY <2>3 DEF GatewayCancels
  <2>4. CASE RemoteEnds
    BY <2>4 DEF RemoteEnds
  <2>5. CASE GatewayGetsCancel
    BY <2>5 DEF GatewayGetsCancel
  <2>6. CASE GatewayGetsHangup
    BY <2>6 DEF GatewayGetsHangup
  <2>7. CASE CancelLost
    BY <2>7 DEF CancelLost
  <2>8. CASE HangupLost
    BY <2>8 DEF HangupLost
  <2> QED BY <1>7, <2>1, <2>2, <2>3, <2>4, <2>5, <2>6, <2>7, <2>8 DEF GatewayStep
<1>8. CASE UNCHANGED vars
  BY <1>8 DEF vars, engine, request, tasks
<1> QED BY <1>1, <1>2, <1>3, <1>4, <1>5, <1>6, <1>7, <1>8 DEF Next

LEMMA ClaimsStep == IInv /\ [Next]_vars => (EndedIsOut /\ Claims)'
<1> SUFFICES ASSUME IInv, [Next]_vars PROVE (EndedIsOut /\ Claims)'
  OBVIOUS
<1> USE RoutesAssumption, BoundsAssumption DEF IInv, TypeOK, EndedIsOut, Claims, Cancels
<1>1. CASE DialStep
  BY <1>1 DEF
     DialStep, MediaReady, MediaFails, MediaCancelled, MarkDialing,
     RequestJoined, DialCancelled, DialFails, Connect, EndIfRinging,
     request_done, Answered, request, tasks
<1>2. CASE RequestStep
  BY <1>2 DEF
     RequestStep, ConnectFails, RequestSent, RequestReturns, ResponseLost,
     engine, tasks
<1>3. CASE HangupStep
  BY <1>3 DEF
     HangupStep, HangupActive, TakeRinging, cancel_ringing, PollEnds, request,
     tasks
<1>4. CASE CancelStep
  BY <1>4 DEF
     CancelStep, CancelSend, CancelReturns, BackoffEnds, CancelEnds,
     report_rejection, rejection_is_new, request_done, engine, request
<1>5. CASE CleanupStep
  BY <1>5 DEF
     CleanupStep, CleanupAnswered, CleanupOutcome, HangupSend, HangupReturns,
     report_rejection, rejection_is_new, Answered, request_done, engine, request
<1>6. CASE AuthStep
  BY <1>6 DEF
     AuthStep, SetToken, OtherRejection, TokenExpires, report_rejection, rejection_is_new,
     engine, request, tasks
<1>7. CASE GatewayStep
  <2> USE DEF engine, request, tasks
  <2>1. CASE GatewayRings
    BY <2>1 DEF GatewayRings
  <2>2. CASE GatewayResponds
    BY <2>2 DEF GatewayResponds
  <2>3. CASE GatewayCancels
    BY <2>3 DEF GatewayCancels
  <2>4. CASE RemoteEnds
    BY <2>4 DEF RemoteEnds
  <2>5. CASE GatewayGetsCancel
    BY <2>5 DEF GatewayGetsCancel
  <2>6. CASE GatewayGetsHangup
    BY <2>6 DEF GatewayGetsHangup
  <2>7. CASE CancelLost
    BY <2>7 DEF CancelLost
  <2>8. CASE HangupLost
    BY <2>8 DEF HangupLost
  <2> QED BY <1>7, <2>1, <2>2, <2>3, <2>4, <2>5, <2>6, <2>7, <2>8 DEF GatewayStep
<1>8. CASE UNCHANGED vars
  BY <1>8 DEF vars, engine, request, tasks
<1> QED BY <1>1, <1>2, <1>3, <1>4, <1>5, <1>6, <1>7, <1>8 DEF Next

LEMMA RequestsStep == IInv /\ [Next]_vars => Requests'
<1> SUFFICES ASSUME IInv, [Next]_vars PROVE Requests'
  OBVIOUS
<1> USE RoutesAssumption, BoundsAssumption DEF IInv, TypeOK, Requests, Claims
<1>1. CASE DialStep
  BY <1>1 DEF
     DialStep, MediaReady, MediaFails, MediaCancelled, MarkDialing,
     RequestJoined, DialCancelled, DialFails, Connect, EndIfRinging,
     request_done, Answered, request, tasks
<1>2. CASE RequestStep
  BY <1>2 DEF
     RequestStep, ConnectFails, RequestSent, RequestReturns, ResponseLost,
     engine, tasks
<1>3. CASE HangupStep
  BY <1>3 DEF
     HangupStep, HangupActive, TakeRinging, cancel_ringing, PollEnds, request,
     tasks
<1>4. CASE CancelStep
  BY <1>4 DEF
     CancelStep, CancelSend, CancelReturns, BackoffEnds, CancelEnds,
     report_rejection, rejection_is_new, request_done, engine, request
<1>5. CASE CleanupStep
  BY <1>5 DEF
     CleanupStep, CleanupAnswered, CleanupOutcome, HangupSend, HangupReturns,
     report_rejection, rejection_is_new, Answered, request_done, engine, request
<1>6. CASE AuthStep
  BY <1>6 DEF
     AuthStep, SetToken, OtherRejection, TokenExpires, report_rejection, rejection_is_new,
     engine, request, tasks
<1>7. CASE GatewayStep
  BY <1>7 DEF
     GatewayStep, GatewayRings, GatewayResponds, GatewayCancels, RemoteEnds,
     GatewayGetsCancel, GatewayGetsHangup, CancelLost, HangupLost, engine,
     request, tasks
<1>8. CASE UNCHANGED vars
  BY <1>8 DEF vars, engine, request, tasks
<1> QED BY <1>1, <1>2, <1>3, <1>4, <1>5, <1>6, <1>7, <1>8 DEF Next

LEMMA CancelsStep == IInv /\ [Next]_vars => Cancels'
<1> SUFFICES ASSUME IInv, [Next]_vars PROVE Cancels'
  OBVIOUS
<1> USE RoutesAssumption, BoundsAssumption DEF IInv, TypeOK, Requests, Cancels, Claims
<1>1. CASE DialStep
  BY <1>1 DEF
     DialStep, MediaReady, MediaFails, MediaCancelled, MarkDialing,
     RequestJoined, DialCancelled, DialFails, Connect, EndIfRinging,
     request_done, Answered, request, tasks
<1>2. CASE RequestStep
  BY <1>2 DEF
     RequestStep, ConnectFails, RequestSent, RequestReturns, ResponseLost,
     engine, tasks
<1>3. CASE HangupStep
  BY <1>3 DEF
     HangupStep, HangupActive, TakeRinging, cancel_ringing, PollEnds, request,
     tasks
<1>4. CASE CancelStep
  BY <1>4 DEF
     CancelStep, CancelSend, CancelReturns, BackoffEnds, CancelEnds,
     report_rejection, rejection_is_new, request_done, engine, request
<1>5. CASE CleanupStep
  BY <1>5 DEF
     CleanupStep, CleanupAnswered, CleanupOutcome, HangupSend, HangupReturns,
     report_rejection, rejection_is_new, Answered, request_done, engine, request
<1>6. CASE AuthStep
  BY <1>6 DEF
     AuthStep, SetToken, OtherRejection, TokenExpires, report_rejection, rejection_is_new,
     engine, request, tasks
<1>7. CASE GatewayStep
  <2> USE DEF engine, request, tasks
  <2>1. CASE GatewayRings
    BY <2>1 DEF GatewayRings
  <2>2. CASE GatewayResponds
    BY <2>2 DEF GatewayResponds
  <2>3. CASE GatewayCancels
    BY <2>3 DEF GatewayCancels
  <2>4. CASE RemoteEnds
    BY <2>4 DEF RemoteEnds
  <2>5. CASE GatewayGetsCancel
    BY <2>5 DEF GatewayGetsCancel
  <2>6. CASE GatewayGetsHangup
    BY <2>6 DEF GatewayGetsHangup
  <2>7. CASE CancelLost
    BY <2>7 DEF CancelLost
  <2>8. CASE HangupLost
    BY <2>8 DEF HangupLost
  <2> QED BY <1>7, <2>1, <2>2, <2>3, <2>4, <2>5, <2>6, <2>7, <2>8 DEF GatewayStep
<1>8. CASE UNCHANGED vars
  BY <1>8 DEF vars, engine, request, tasks
<1> QED BY <1>1, <1>2, <1>3, <1>4, <1>5, <1>6, <1>7, <1>8 DEF Next

LEMMA HangupsStep == IInv /\ [Next]_vars => Hangups'
<1> SUFFICES ASSUME IInv, [Next]_vars PROVE Hangups'
  OBVIOUS
<1> USE RoutesAssumption, BoundsAssumption DEF IInv, TypeOK, Requests, Cancels, Claims, Hangups, SilentRejection, HANGUP_ATTEMPTS, Generations
<1>1. CASE DialStep
  BY <1>1 DEF
     DialStep, MediaReady, MediaFails, MediaCancelled, MarkDialing,
     RequestJoined, DialCancelled, DialFails, Connect, EndIfRinging,
     request_done, Answered, request, tasks
<1>2. CASE RequestStep
  BY <1>2 DEF
     RequestStep, ConnectFails, RequestSent, RequestReturns, ResponseLost,
     engine, tasks
<1>3. CASE HangupStep
  BY <1>3 DEF
     HangupStep, HangupActive, TakeRinging, cancel_ringing, PollEnds, request,
     tasks
<1>4. CASE CancelStep
  BY <1>4 DEF
     CancelStep, CancelSend, CancelReturns, BackoffEnds, CancelEnds,
     report_rejection, rejection_is_new, request_done, engine, request
<1>5. CASE CleanupStep
  <2> USE DEF engine, request
  <2>1. CASE CleanupAnswered
    BY <2>1 DEF CleanupAnswered, Answered, request_done
  <2>2. CASE CleanupOutcome
    BY <2>2 DEF CleanupOutcome
  <2>3. CASE HangupSend
    BY <2>3 DEF HangupSend
  <2>4. CASE HangupReturns
    <3> USE DEF HangupReturns
    <3>1. CASE hup.reply = "taken"
      BY <2>4, <3>1
    <3>2. CASE hup.reply = "unauthorized"
      <4>1. CASE rejection_is_new(hup.gen)
        <5>1. told' = (told \/ rejection_is_new(hup.gen))
          BY <2>4, <3>2
        <5>2. told'
          BY <4>1, <5>1, Zenon
        <5>3. hup' = [hup EXCEPT !.at = "done"] /\ auth'.generation = auth.generation
          BY <2>4, <3>2, <4>1 DEF report_rejection
        <5> QED BY <2>4, <3>2, <5>2, <5>3
      <4>2. CASE ~rejection_is_new(hup.gen)
        <5>1. hup' = [hup EXCEPT !.at = "dropped"] /\ auth' = auth
          BY <2>4, <3>2, <4>2 DEF report_rejection
        <5>2. hup.gen < auth.generation \/ hup.gen \in auth.reported
          BY <4>2 DEF rejection_is_new
        <5> QED BY <2>4, <3>2, <5>1, <5>2
      <4> QED BY <4>1, <4>2
    <3>3. CASE hup.reply \in {"unknown", "failed"}
      <4>1. hup' = [hup EXCEPT !.at = IF hup.attempts = 0 THEN "done" ELSE "ready"] /\ auth' = auth
        BY <2>4, <3>3
      <4>2. told' = (told \/ hup.attempts = 0)
        BY <2>4, <3>3
      <4>3. hup.attempts = 0 => told'
        BY <4>2, Zenon
      <4> QED BY <2>4, <3>3, <4>1, <4>3
    <3> QED BY <2>4, <3>1, <3>2, <3>3
  <2> QED BY <1>5, <2>1, <2>2, <2>3, <2>4 DEF CleanupStep
<1>6. CASE AuthStep
  <2> USE DEF engine, request, tasks
  <2>1. ASSUME NEW b \in BOOLEAN, SetToken(b) PROVE Hangups'
    BY <2>1 DEF SetToken
  <2>2. CASE OtherRejection
    BY <2>2 DEF OtherRejection, report_rejection, rejection_is_new
  <2>3. ASSUME NEW g \in Generations, TokenExpires(g) PROVE Hangups'
    BY <2>3 DEF TokenExpires
  <2> QED BY <1>6, <2>1, <2>2, <2>3 DEF AuthStep
<1>7. CASE GatewayStep
  <2> USE DEF engine, request, tasks
  <2>1. CASE GatewayRings
    BY <2>1 DEF GatewayRings
  <2>2. CASE GatewayResponds
    BY <2>2 DEF GatewayResponds
  <2>3. CASE GatewayCancels
    BY <2>3 DEF GatewayCancels
  <2>4. CASE RemoteEnds
    BY <2>4 DEF RemoteEnds
  <2>5. CASE GatewayGetsCancel
    BY <2>5 DEF GatewayGetsCancel
  <2>6. CASE GatewayGetsHangup
    BY <2>6 DEF GatewayGetsHangup
  <2>7. CASE CancelLost
    BY <2>7 DEF CancelLost
  <2>8. CASE HangupLost
    BY <2>8 DEF HangupLost
  <2> QED BY <1>7, <2>1, <2>2, <2>3, <2>4, <2>5, <2>6, <2>7, <2>8 DEF GatewayStep
<1>8. CASE UNCHANGED vars
  BY <1>8 DEF vars, engine, request, tasks
<1> QED BY <1>1, <1>2, <1>3, <1>4, <1>5, <1>6, <1>7, <1>8 DEF Next

LEMMA LeftStep == IInv /\ [Next]_vars => Left'
<1> SUFFICES ASSUME IInv, [Next]_vars PROVE Left'
  OBVIOUS
<1> USE RoutesAssumption, BoundsAssumption DEF IInv, TypeOK, Requests, Cancels, Claims, Hangups, Left
<1>1. CASE DialStep
  BY <1>1 DEF
     DialStep, MediaReady, MediaFails, MediaCancelled, MarkDialing,
     RequestJoined, DialCancelled, DialFails, Connect, EndIfRinging,
     request_done, Answered, request, tasks
<1>2. CASE RequestStep
  BY <1>2 DEF
     RequestStep, ConnectFails, RequestSent, RequestReturns, ResponseLost,
     engine, tasks
<1>3. CASE HangupStep
  BY <1>3 DEF
     HangupStep, HangupActive, TakeRinging, cancel_ringing, PollEnds, request,
     tasks
<1>4. CASE CancelStep
  BY <1>4 DEF
     CancelStep, CancelSend, CancelReturns, BackoffEnds, CancelEnds,
     report_rejection, rejection_is_new, request_done, engine, request
<1>5. CASE CleanupStep
  BY <1>5 DEF
     CleanupStep, CleanupAnswered, CleanupOutcome, HangupSend, HangupReturns,
     report_rejection, rejection_is_new, Answered, request_done, engine, request
<1>6. CASE AuthStep
  BY <1>6 DEF
     AuthStep, SetToken, OtherRejection, TokenExpires, report_rejection, rejection_is_new,
     engine, request, tasks
<1>7. CASE GatewayStep
  <2> USE DEF engine, request, tasks
  <2>1. CASE GatewayRings
    BY <2>1 DEF GatewayRings
  <2>2. CASE GatewayResponds
    BY <2>2 DEF GatewayResponds
  <2>3. CASE GatewayCancels
    BY <2>3 DEF GatewayCancels
  <2>4. CASE RemoteEnds
    BY <2>4 DEF RemoteEnds
  <2>5. CASE GatewayGetsCancel
    BY <2>5 DEF GatewayGetsCancel
  <2>6. CASE GatewayGetsHangup
    BY <2>6 DEF GatewayGetsHangup
  <2>7. CASE CancelLost
    BY <2>7 DEF CancelLost
  <2>8. CASE HangupLost
    BY <2>8 DEF HangupLost
  <2> QED BY <1>7, <2>1, <2>2, <2>3, <2>4, <2>5, <2>6, <2>7, <2>8 DEF GatewayStep
<1>8. CASE UNCHANGED vars
  BY <1>8 DEF vars, engine, request, tasks
<1> QED BY <1>1, <1>2, <1>3, <1>4, <1>5, <1>6, <1>7, <1>8 DEF Next

LEMMA Inductive == IInv /\ [Next]_vars => IInv'
BY TypeStep, ClaimsStep, RequestsStep, CancelsStep, HangupsStep, LeftStep DEF IInv

LEMMA Invariance == Spec => []IInv
BY InitInv, Inductive, PTL DEF Spec

-----------------------------------------------------------------------------
\* A call the app was told has ended is in neither map, wherever dial, the
\* hangup and the poll were when it ended: nothing connects it again.
THEOREM EndsForGood == Spec => []Consistent
BY Invariance, PTL DEF IInv, Consistent

\* However cancel, answer and cleanup cross, no hangup is sent for a call
\* whose cancel the gateway accepted: Hangups has one start only for a call
\* that was taken while connected or whose cancel was not accepted.
THEOREM NoSecondEnd == Spec => []NoHangupAfterCancel
<1>1. IInv => NoHangupAfterCancel
  BY DEF IInv, TypeOK, Claims, Cancels, Hangups, NoHangupAfterCancel
<1> QED BY <1>1, Invariance, PTL

\* A call hung up here is pursued at the gateway until it is known to be
\* gone, the app to have been told or the response to be lost; the one
\* exception is a hangup that was dropped, and one is dropped only after the
\* rejection of a token replaced since or of which the app already knew.
THEOREM Forgotten == Spec => []OnlySilentRejectionForgets
<1>1. IInv => OnlySilentRejectionForgets
  BY DEF IInv, TypeOK, EndedIsOut, Requests, Cancels, Hangups, Left,
         OnlySilentRejectionForgets, Pursued, SilentRejection
<1> QED BY <1>1, Invariance, PTL

-----------------------------------------------------------------------------
(* What the app is told of the call. *)

\* The call as CallContract has it, of which reserve_outgoing has reported
\* Ringing before these steps begin.
Contract == INSTANCE CallContract WITH Call <- {"call"}, reported <- [c \in {"call"} |-> shown],
                                       endings <- [c \in {"call"} |-> IF shown = "Ended" THEN 1 ELSE 0]

\* The call connects once at most, before it ends, and is ended once.
Reports == \/ shown' = shown
           \/ shown = "Ringing" /\ shown' = "Connected"
           \/ shown # "Ended" /\ shown' = "Ended"

LEMMA ReportsStep == IInv /\ [Next]_vars => Reports
<1> SUFFICES ASSUME IInv, [Next]_vars PROVE Reports
  OBVIOUS
<1>a. ASSUME UNCHANGED shown PROVE Reports
  BY <1>a DEF Reports
<1>1. CASE DialStep
  <2>1. CASE EndIfRinging
    BY <2>1 DEF EndIfRinging, Reports, IInv, TypeOK
  <2>2. CASE Connect
    BY <2>2 DEF Connect, Reports, IInv, TypeOK, EndedIsOut
  <2> QED BY <1>1, <1>a, <2>1, <2>2 DEF DialStep, MediaReady, MediaFails, MediaCancelled,
             MarkDialing, RequestJoined, DialCancelled, DialFails
<1>2. CASE HangupStep
  BY <1>2 DEF HangupStep, HangupActive, TakeRinging, cancel_ringing, PollEnds, Reports
<1>3. CASE RequestStep \/ CancelStep \/ CleanupStep \/ AuthStep \/ GatewayStep \/ UNCHANGED vars
  <2>1. UNCHANGED shown
    BY <1>3 DEF RequestStep, CancelStep, CleanupStep, AuthStep, GatewayStep, vars, engine,
       ConnectFails, RequestSent, RequestReturns, ResponseLost, CancelSend, CancelReturns,
       BackoffEnds, CleanupAnswered, CleanupOutcome, HangupSend, HangupReturns, SetToken,
       OtherRejection, TokenExpires, GatewayRings, GatewayResponds, GatewayCancels, RemoteEnds,
       GatewayGetsCancel, GatewayGetsHangup, CancelLost, HangupLost
  <2> QED BY <1>a, <2>1
<1> QED BY <1>1, <1>2, <1>3 DEF Next

\* An outgoing call keeps what the app is promised of it: however dial, a
\* hangup and the poll race, once it has been reported ringing every report
\* is one the contract permits, and Ended is reported once.
THEOREM ReportsFollow == Spec => [][Contract!Next]_(Contract!vars)
<1>1. ASSUME IInv, [Next]_vars PROVE [Contract!Next]_(Contract!vars)
  <2> DEFINE rep == [c \in {"call"} |-> shown]
             end == [c \in {"call"} |-> IF shown = "Ended" THEN 1 ELSE 0]
  <2>0. shown \in {"Ringing", "Connected", "Ended"}
    BY <1>1 DEF IInv, TypeOK
  <2>1. Reports
    BY <1>1, ReportsStep
  <2>2. CASE shown' = shown
    BY <2>2 DEF Contract!vars
  <2>3. CASE shown' # shown
    <3>1. shown' \in Contract!Follows(shown) /\ shown' \in Contract!States /\ shown # "Ended"
      BY <2>0, <2>1, <2>3 DEF Reports, Contract!Follows, Contract!States
    <3>2. rep' \in [{"call"} -> Contract!States]
      BY <3>1
    <3>3. \A c \in {"call"} : rep'[c] # rep[c] => rep'[c] \in Contract!Follows(rep[c])
      BY <3>1
    <3>4. end' = [c \in {"call"} |-> IF rep[c] # "Ended" /\ rep'[c] = "Ended"
                                     THEN end[c] + 1 ELSE end[c]]
      BY <3>1
    <3> QED BY <3>2, <3>3, <3>4 DEF Contract!Next
  <2> QED BY <2>2, <2>3
<1> QED BY <1>1, Invariance, PTL DEF Spec
=============================================================================
