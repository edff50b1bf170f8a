---------------------------- MODULE Session_proofs ----------------------------
(***************************************************************************)
(* Theorems about the session with the gateway, for every set of polls,    *)
(* heartbeat tasks and push tokens and every number of token changes.  The *)
(* inductive invariant is Session!IndInv; each group of its parts is       *)
(* preserved by a lemma with one step per group of actions.                *)
(***************************************************************************)
EXTENDS Session, TLAPS

LEMMA InitInv == Init => IndInv
<1> SUFFICES ASSUME Init PROVE IndInv
  OBVIOUS
<1>1. 0 \in Generations /\ Generations \subseteq Nat
  BY TasksAssumption DEF Generations
<1>2. TypeOK
  <2>1. /\ auth \in [blank : BOOLEAN, generation : Generations, rejection_reported : BOOLEAN]
        /\ refused \subseteq Generations
    BY <1>1 DEF Init
  <2>2. asked \in [Generations -> Nat]
    BY DEF Init
  <2>3. req \in [Request -> [at : {"idle", "sent", "refused"}, gen : Generations]]
    BY <1>1 DEF Init, Idle
  <2>4. /\ state \in [running : BOOLEAN, requested : BOOLEAN]
        /\ beat \in [Beat -> {"off", "check", "read", "wait"}] /\ unserved \in BOOLEAN
    BY DEF Init
  <2>5. /\ api \in [at : {"idle", "sent", "taken", "kept", "known"}, push : Push \cup {NoPush}]
        /\ last \in Push \cup {NoPush} /\ device \in BOOLEAN
        /\ shown \in {"none", "registered", "unregistered"}
        /\ gw \in Push \cup {NoPush} /\ unsure \in BOOLEAN
    BY DEF Init
  <2> QED BY <2>1, <2>2, <2>3, <2>4, <2>5 DEF TypeOK
<1>3. AskedOncePerToken /\ AskedSoFar
  BY <1>1 DEF Init, AskedOncePerToken, AskedSoFar
<1>4. OneHeartbeat /\ HeartbeatRuns
  BY DEF Init, OneHeartbeat, HeartbeatRuns
<1>5. Progress
  BY DEF Init, Progress, Agreed
<1> QED BY <1>2, <1>3, <1>4, <1>5 DEF IndInv

\* A background request carries a generation that exists.
LEMMA SentType == ASSUME TypeOK PROVE Sent \in [at : {"idle", "sent", "refused"}, gen : Generations]
BY DEF TypeOK, Sent

\* Every variable keeps its type.
LEMMA TypeStep == ASSUME IndInv, [Next]_vars PROVE TypeOK'
<1> TypeOK
  BY DEF IndInv
<1> Generations \subseteq Nat /\ MAX_GENERATION \in Nat
  BY TasksAssumption DEF Generations
<1> USE DEF register, beating, token
<1>1. ASSUME NEW blank \in BOOLEAN, set_gateway_token(blank) PROVE TypeOK'
  <2>1. auth.generation + 1 \in Generations
    BY <1>1 DEF TypeOK, set_gateway_token, Generations
  <2>2. auth' \in [blank : BOOLEAN, generation : Generations, rejection_reported : BOOLEAN]
    BY <1>1, <2>1 DEF set_gateway_token
  <2>3. refused' \subseteq Generations
    BY <1>1, <2>1 DEF TypeOK, set_gateway_token
  <2> QED BY <1>1, <2>2, <2>3 DEF TypeOK, set_gateway_token
<1>2. ASSUME NEW g \in Generations, TokenExpires(g) PROVE TypeOK'
  BY <1>2 DEF TypeOK, TokenExpires
<1>3. ASSUME NEW p \in Poll, PollAsks(p) PROVE TypeOK'
  <2>1. req' = [req EXCEPT ![p] = Sent]
    BY <1>3 DEF PollAsks
  <2>2. req' \in [Request -> [at : {"idle", "sent", "refused"}, gen : Generations]]
    BY <2>1, SentType DEF TypeOK, Request
  <2> QED BY <1>3, <2>2 DEF TypeOK, PollAsks
<1>4. ASSUME NEW r \in Request, RequestStep(r) PROVE TypeOK'
  <2>0. 0 \in Generations
    BY TasksAssumption DEF Generations
  <2>1. CASE RequestEnds(r)
    BY <2>0, <2>1 DEF TypeOK, RequestEnds, Idle
  <2>2. CASE GatewayRefuses(r)
    BY <2>2 DEF TypeOK, GatewayRefuses
  <2>3. CASE RequestRejected(r)
    <3>1. auth' \in [blank : BOOLEAN, generation : Generations, rejection_reported : BOOLEAN]
      BY <2>3 DEF TypeOK, RequestRejected, report_auth_rejected
    <3>2. asked' \in [Generations -> Nat]
      BY <2>3 DEF TypeOK, RequestRejected, report_auth_rejected
    <3> QED BY <2>0, <2>3, <3>1, <3>2 DEF TypeOK, RequestRejected, Idle
  <2> QED BY <1>4, <2>1, <2>2, <2>3 DEF RequestStep
<1>5. CASE notify_network_change
  <2>1. beat' \in [Beat -> {"off", "check", "read", "wait"}]
    BY <1>5 DEF TypeOK, notify_network_change
  <2> QED BY <1>5, <2>1 DEF TypeOK, notify_network_change
<1>6. ASSUME NEW b \in Beat, BeatStep(b) PROVE TypeOK'
  <2>1. CASE RoundBegins(b)
    <3>1. /\ state' \in [running : BOOLEAN, requested : BOOLEAN]
          /\ beat' \in [Beat -> {"off", "check", "read", "wait"}]
      BY <2>1 DEF TypeOK, RoundBegins
    <3> QED BY <2>1, <3>1 DEF TypeOK, RoundBegins
  <2>2. CASE SendHeartbeat(b)
    <3>1. /\ req' = [req EXCEPT ![b] = Sent] \/ req' = req
          /\ beat' \in [Beat -> {"off", "check", "read", "wait"}]
      BY <2>2 DEF TypeOK, SendHeartbeat
    <3>2. req' \in [Request -> [at : {"idle", "sent", "refused"}, gen : Generations]]
      BY <3>1, SentType DEF TypeOK, Request
    <3>3. /\ UNCHANGED <<auth, refused, asked, state, api, last, device, shown, gw, unsure>>
          /\ unserved' \in BOOLEAN
      BY <2>2 DEF SendHeartbeat
    <3> HIDE DEF register, beating, token
    <3> QED BY <3>1, <3>2, <3>3 DEF TypeOK
  <2>3. CASE HeartbeatReturns(b)
    BY <2>3 DEF TypeOK, HeartbeatReturns
  <2> QED BY <1>6, <2>1, <2>2, <2>3 DEF BeatStep
<1>7. ASSUME NEW push \in Push \cup {NoPush}, Ask(push) PROVE TypeOK'
  BY <1>7 DEF TypeOK, Ask
<1>8. CASE RegisterStep
  <2>1. CASE GatewayRegisters
    BY <2>1 DEF TypeOK, GatewayRegisters
  <2>2. CASE RegistrationFails
    BY <2>2 DEF TypeOK, RegistrationFails
  <2>3. CASE KeepRegistration
    BY <2>3 DEF TypeOK, KeepRegistration
  <2>4. CASE KeepDevice
    BY <2>4 DEF TypeOK, KeepDevice
  <2>5. CASE ReportRegistration
    BY <2>5 DEF TypeOK, ReportRegistration
  <2> QED BY <1>8, <2>1, <2>2, <2>3, <2>4, <2>5 DEF RegisterStep
<1>9. CASE UNCHANGED vars
  BY <1>9 DEF TypeOK, vars
<1> QED BY <1>1, <1>2, <1>3, <1>4, <1>5, <1>6, <1>7, <1>8, <1>9 DEF Next, TokenStep

-----------------------------------------------------------------------------
\* Only set_gateway_token and a rejection touch what was asked for.
LEMMA AskedUnchanged ==
  ASSUME IndInv, UNCHANGED <<auth, asked>>
  PROVE  AskedOncePerToken' /\ AskedSoFar'
BY DEF IndInv, AskedOncePerToken, AskedSoFar

LEMMA OtherSteps ==
  ASSUME [Next]_vars,
         ~ \E blank \in BOOLEAN : set_gateway_token(blank),
         ~ \E r \in Request : RequestRejected(r)
  PROVE  UNCHANGED <<auth, asked>>
<1> USE DEF register, beating, token
<1>1. ASSUME NEW g \in Generations, TokenExpires(g) PROVE UNCHANGED <<auth, asked>>
  BY <1>1 DEF TokenExpires
<1>2. ASSUME NEW p \in Poll, PollAsks(p) PROVE UNCHANGED <<auth, asked>>
  BY <1>2 DEF PollAsks
<1>3. ASSUME NEW r \in Request, RequestEnds(r) \/ GatewayRefuses(r) PROVE UNCHANGED <<auth, asked>>
  BY <1>3 DEF RequestEnds, GatewayRefuses
<1>4. CASE notify_network_change
  BY <1>4 DEF notify_network_change
<1>5. ASSUME NEW b \in Beat, BeatStep(b) PROVE UNCHANGED <<auth, asked>>
  BY <1>5 DEF BeatStep, RoundBegins, SendHeartbeat, HeartbeatReturns
<1>6. ASSUME NEW push \in Push \cup {NoPush}, Ask(push) PROVE UNCHANGED <<auth, asked>>
  BY <1>6 DEF Ask
<1>7. CASE RegisterStep
  BY <1>7 DEF RegisterStep, GatewayRegisters, RegistrationFails, KeepRegistration,
              KeepDevice, ReportRegistration
<1>8. CASE UNCHANGED vars
  BY <1>8 DEF vars
<1> QED BY <1>1, <1>2, <1>3, <1>4, <1>5, <1>6, <1>7, <1>8 DEF Next, TokenStep, RequestStep

\* A token is asked for at most once, and a later one was never asked for.
LEMMA AskedStep == ASSUME IndInv, [Next]_vars PROVE AskedOncePerToken' /\ AskedSoFar'
<1> TypeOK /\ AskedOncePerToken /\ AskedSoFar
  BY DEF IndInv
<1> Generations \subseteq Nat /\ MAX_GENERATION \in Nat
  BY TasksAssumption DEF Generations
<1>1. ASSUME NEW blank \in BOOLEAN, set_gateway_token(blank)
      PROVE  AskedOncePerToken' /\ AskedSoFar'
  <2>1. /\ auth.generation + 1 \in Generations
        /\ auth'.generation = auth.generation + 1
        /\ ~auth'.rejection_reported
        /\ asked' = asked
    BY <1>1 DEF TypeOK, set_gateway_token, Generations
  <2>2. auth.generation \in Nat
    BY DEF TypeOK
  <2>3. \A g \in Generations : g > auth.generation => asked[g] = 0
    BY DEF AskedSoFar
  <2>4. asked[auth.generation + 1] = 0
    BY <2>1, <2>2, <2>3
  <2>5. \A g \in Generations : g > auth.generation + 1 => asked[g] = 0
    BY <2>2, <2>3
  <2> QED BY <2>1, <2>4, <2>5 DEF AskedOncePerToken, AskedSoFar
<1>2. ASSUME NEW r \in Request, RequestRejected(r)
      PROVE  AskedOncePerToken' /\ AskedSoFar'
  <2> DEFINE g == req[r].gen
  <2>1. CASE report_rejection(g)
    <3>1. /\ g = auth.generation /\ g \in Generations /\ asked[g] = 0
      BY <2>1 DEF report_rejection, AskedSoFar, TypeOK
    <3>2. /\ auth' = [auth EXCEPT !.rejection_reported = TRUE]
          /\ asked' = [asked EXCEPT ![g] = @ + 1]
      BY <1>2, <2>1 DEF RequestRejected, report_auth_rejected
    <3>3. auth'.generation = auth.generation /\ auth'.rejection_reported
      BY <3>2 DEF TypeOK
    <3>4. asked'[g] = 1 /\ \A h \in Generations \ {g} : asked'[h] = asked[h]
      BY <3>1, <3>2 DEF TypeOK
    <3> HIDE DEF g
    <3> QED BY <3>1, <3>3, <3>4 DEF TypeOK, AskedOncePerToken, AskedSoFar
  <2>2. CASE ~report_rejection(g)
    <3>1. UNCHANGED <<auth, asked>>
      BY <1>2, <2>2 DEF RequestRejected, report_auth_rejected
    <3> QED BY <3>1, AskedUnchanged
  <2> QED BY <2>1, <2>2
<1>3. CASE /\ ~ \E blank \in BOOLEAN : set_gateway_token(blank)
           /\ ~ \E r \in Request : RequestRejected(r)
  <2>1. UNCHANGED <<auth, asked>>
    BY <1>3, OtherSteps
  <2> QED BY <2>1, AskedUnchanged
<1> QED BY <1>1, <1>2, <1>3

-----------------------------------------------------------------------------
\* A second heartbeat task is not spawned while one runs.
LEMMA HeartbeatStep == ASSUME IndInv, [Next]_vars PROVE OneHeartbeat' /\ HeartbeatRuns'
<1> TypeOK /\ OneHeartbeat /\ HeartbeatRuns
  BY DEF IndInv
<1>1. CASE notify_network_change
  <2>1. state'.running
    BY <1>1 DEF notify_network_change
  <2>2. CASE state.running
    <3>1. beat' = beat
      BY <1>1, <2>2 DEF notify_network_change
    <3> QED BY <2>1, <3>1 DEF OneHeartbeat, HeartbeatRuns
  <2>3. CASE ~state.running
    <3>1. \A b \in Beat : beat[b] = "off"
      BY <2>3 DEF HeartbeatRuns
    <3>2. PICK c \in Beat : beat' = [beat EXCEPT ![c] = "check"]
      BY <1>1, <2>3 DEF notify_network_change, Free
    <3>3. \A b \in Beat : beat'[b] # "off" => b = c
      BY <3>1, <3>2 DEF TypeOK
    <3> QED BY <2>1, <3>3 DEF OneHeartbeat, HeartbeatRuns
  <2> QED BY <2>2, <2>3
<1>2. ASSUME NEW b \in Beat, BeatStep(b) PROVE OneHeartbeat' /\ HeartbeatRuns'
  <2>1. beat[b] # "off" /\ state.running /\ \A c \in Beat : beat[c] # "off" => c = b
    BY <1>2 DEF BeatStep, RoundBegins, SendHeartbeat, HeartbeatReturns, OneHeartbeat, HeartbeatRuns
  <2>2. \A c \in Beat \ {b} : beat'[c] = beat[c]
    BY <1>2 DEF BeatStep, RoundBegins, SendHeartbeat, HeartbeatReturns, TypeOK
  <2>3. \A c \in Beat : beat'[c] # "off" => c = b
    BY <2>1, <2>2
  <2>4. beat'[b] # "off" => state'.running
    <3>1. CASE RoundBegins(b) /\ state.requested
      BY <2>1, <3>1 DEF RoundBegins, TypeOK
    <3>2. CASE RoundBegins(b) /\ ~state.requested
      BY <3>2 DEF RoundBegins, TypeOK
    <3>3. CASE SendHeartbeat(b) \/ HeartbeatReturns(b)
      BY <2>1, <3>3 DEF SendHeartbeat, HeartbeatReturns
    <3> QED BY <1>2, <3>1, <3>2, <3>3 DEF BeatStep
  <2> QED BY <2>3, <2>4 DEF OneHeartbeat, HeartbeatRuns
<1>3. CASE UNCHANGED <<beat, state>>
  BY <1>3 DEF OneHeartbeat, HeartbeatRuns
<1>4. CASE TokenStep \/ (\E p \in Poll : PollAsks(p)) \/ (\E r \in Request : RequestStep(r))
  BY <1>3, <1>4 DEF TokenStep, RequestStep, set_gateway_token, TokenExpires, PollAsks,
     RequestEnds, GatewayRefuses, RequestRejected, beating
<1>5. CASE (\E push \in Push \cup {NoPush} : Ask(push)) \/ RegisterStep
  BY <1>3, <1>5 DEF RegisterStep, Ask, GatewayRegisters, RegistrationFails,
     KeepRegistration, KeepDevice, ReportRegistration, beating
<1>6. CASE UNCHANGED vars
  BY <1>3, <1>6 DEF vars, beating
<1> QED BY <1>1, <1>2, <1>4, <1>5, <1>6 DEF Next

-----------------------------------------------------------------------------
\* A registration call carries what it has done through its steps.
LEMMA ProgressStep == ASSUME IndInv, [Next]_vars PROVE Progress'
<1> TypeOK /\ Progress
  BY DEF IndInv
<1> USE DEF Progress, Agreed
<1>1. ASSUME NEW push \in Push \cup {NoPush}, Ask(push) PROVE Progress'
  BY <1>1 DEF Ask
<1>2. CASE GatewayRegisters
  BY <1>2 DEF GatewayRegisters, TypeOK
<1>3. CASE RegistrationFails
  BY <1>3 DEF RegistrationFails, TypeOK
<1>4. CASE KeepRegistration
  <2>1. api'.at = "kept" /\ api'.push = api.push /\ gw' = gw /\ unsure' = unsure
    BY <1>4 DEF KeepRegistration, TypeOK
  <2>2. ~unsure /\ gw = api.push
    BY <1>4 DEF KeepRegistration
  <2>3. gw # NoPush => last' = gw
    BY <1>4, <2>2 DEF KeepRegistration
  <2> QED BY <2>1, <2>2, <2>3
<1>5. CASE KeepDevice
  <2>1. /\ api'.at = "known" /\ api'.push = api.push /\ gw' = gw /\ unsure' = unsure
        /\ last' = last /\ device' = (api.push # NoPush)
    BY <1>5 DEF KeepDevice, TypeOK
  <2>2. ~unsure /\ gw = api.push /\ (gw # NoPush => last = gw)
    BY <1>5 DEF KeepDevice
  <2> QED BY <2>1, <2>2
<1>6. CASE ReportRegistration
  <2>1. /\ api'.at = "idle" /\ gw' = gw /\ unsure' = unsure
        /\ last' = last /\ device' = device
        /\ shown' = IF api.push = NoPush THEN "unregistered" ELSE "registered"
    BY <1>6 DEF ReportRegistration
  <2>2. gw = api.push /\ (gw # NoPush => last = gw) /\ (device <=> gw # NoPush)
    BY <1>6 DEF ReportRegistration
  <2> QED BY <2>1, <2>2
<1>7. CASE UNCHANGED register
  BY <1>7 DEF register
<1>8. CASE TokenStep \/ (\E p \in Poll : PollAsks(p)) \/ (\E r \in Request : RequestStep(r))
  BY <1>7, <1>8 DEF TokenStep, RequestStep, set_gateway_token, TokenExpires, PollAsks,
     RequestEnds, GatewayRefuses, RequestRejected
<1>9. CASE notify_network_change \/ \E b \in Beat : BeatStep(b)
  BY <1>7, <1>9 DEF notify_network_change, BeatStep, RoundBegins, SendHeartbeat, HeartbeatReturns
<1>10. CASE UNCHANGED vars
  BY <1>7, <1>10 DEF vars
<1> QED BY <1>1, <1>2, <1>3, <1>4, <1>5, <1>6, <1>8, <1>9, <1>10 DEF Next, RegisterStep

-----------------------------------------------------------------------------
LEMMA Inductive == IndInv /\ [Next]_vars => IndInv'
<1> SUFFICES ASSUME IndInv, [Next]_vars PROVE IndInv'
  OBVIOUS
<1> QED BY TypeStep, AskedStep, HeartbeatStep, ProgressStep DEF IndInv

\* The inductive invariant holds in every reachable state.
THEOREM Invariant == Spec => []IndInv
<1> QED BY InitInv, Inductive, PTL DEF Spec

\* Every variable keeps its type.
THEOREM SessionTypeCorrect == Spec => []TypeOK
<1>1. IndInv => TypeOK
  BY DEF IndInv
<1> QED BY <1>1, Invariant, PTL

\* However many polls and heartbeats have a token rejected, on_auth_required
\* is called for it at most once (GatewayAuth's rejection_reported).
THEOREM AskedOnce == Spec => []AskedOncePerToken
<1>1. IndInv => AskedOncePerToken
  BY DEF IndInv
<1> QED BY <1>1, Invariant, PTL

\* notify_network_change never has two heartbeats in flight.
THEOREM SingleHeartbeat == Spec => []OneHeartbeat
<1>1. IndInv => OneHeartbeat
  BY DEF IndInv
<1> QED BY <1>1, Invariant, PTL

\* When no registration call is under way and the last one's response was not
\* lost, device_id, last_registration, the app and the gateway agree.
THEOREM RegistrationSettled == Spec => []RegistrationAgrees
<1>1. IndInv => RegistrationAgrees
  BY DEF IndInv, Progress, RegistrationAgrees
<1> QED BY <1>1, Invariant, PTL

\* A step asks the app for a token only for the current one: the rejection of
\* a replaced token, however late, is ignored.
THEOREM StaleRejectionIgnored == Spec => OnlyCurrentTokenAsked
<1> DEFINE A == \A g \in Generations : asked'[g] # asked[g] => g = auth.generation
<1>1. IndInv /\ [Next]_vars => [A]_vars
  <2> SUFFICES ASSUME IndInv, Next PROVE A
    OBVIOUS
  <2>1. TypeOK
    BY DEF IndInv
  <2>2. ASSUME NEW blank \in BOOLEAN, set_gateway_token(blank) PROVE A
    BY <2>2 DEF set_gateway_token
  <2>3. ASSUME NEW r \in Request, RequestRejected(r) PROVE A
    BY <2>1, <2>3 DEF RequestRejected, report_auth_rejected, report_rejection, TypeOK
  <2>4. CASE /\ ~ \E blank \in BOOLEAN : set_gateway_token(blank)
             /\ ~ \E r \in Request : RequestRejected(r)
    BY <2>4, OtherSteps
  <2> QED BY <2>2, <2>3, <2>4
<1> QED BY <1>1, Invariant, PTL DEF Spec, OnlyCurrentTokenAsked

=============================================================================
