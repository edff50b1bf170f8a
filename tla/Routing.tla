------------------------------ MODULE Routing ------------------------------
(***************************************************************************)
(* Which gateway instance each request goes to: the failover of send_on,   *)
(* the route a call keeps, and the pinning of a second call to the first   *)
(* one's route, while resolve_gateway may replace the list of routes       *)
(* (module Resolver).  Connections may fail at any attempt, and a request  *)
(* may be lost after it was sent.                                          *)
(*                                                                         *)
(* What happens to a call otherwise is left to CallTable, OutgoingCall and *)
(* IncomingCall: here it rings or is offered, is answered, and ends.       *)
(***************************************************************************)
EXTENDS Resolver

CONSTANTS Dial, Incoming,   \* outgoing and incoming calls
          Base,             \* the base URL, connected to wherever DNS says
          None,
          MAX_LIVE_CALLS

ASSUME RoutingAssumption ==
  /\ Dial \cap Incoming = {} /\ IsFiniteSet(Dial \cup Incoming)
  /\ Base \notin Instance /\ None \notin Instance \cup {Base} \cup Dial \cup Incoming
  /\ MAX_LIVE_CALLS \in Nat

Call == Dial \cup Incoming
Route == Instance \cup {Base}

VARIABLES
  place,    \* where the engine has the call
  req,      \* a dial's make_call, or an incoming call's accept
  todo,     \* the routes a request has still to try
  route,    \* the route of the call: its attempt's, its watch's or its own
  via,      \* the route accept_incoming_call got the offer from
  seen,     \* reserve_outgoing's accepting_routes
  pin,      \* Placement.pin
  settled,  \* a call whose instance was certain when this one was reserved
  held      \* the instances that have been given the call

calls == <<place, req, todo, route, via, seen, pin, settled, held>>
vars == <<resolving, calls>>

CallsTypeOK ==
  /\ place \in [Call -> {"none", "reading", "ringing", "offered", "connected", "gone"}]
  /\ req \in [Call -> {"none", "reserved", "trying", "sent", "done"}]
  /\ todo \in [Call -> Seq(Route)]
  /\ route \in [Call -> Route \cup {None}] /\ via \in [Call -> Route \cup {None}]
  /\ seen \in [Call -> SUBSET (Incoming \X Route)]
  /\ pin \in [Call -> Route \cup {None}]
  /\ settled \in [Call -> Call \cup {None}]
  /\ held \in [Call -> SUBSET Instance]

TypeOK == ResolverTypeOK /\ CallsTypeOK

\* The gateway has each incoming call on the instance the PBX sent it to.
Init ==
  /\ ResolverInit
  /\ place = [c \in Call |-> "none"] /\ req = [c \in Call |-> "none"]
  /\ todo = [c \in Call |-> <<>>]
  /\ route = [c \in Call |-> None] /\ via = [c \in Call |-> None]
  /\ seen = [c \in Call |-> {}]
  /\ pin = [c \in Call |-> None] /\ settled = [c \in Call |-> None]
  /\ held \in {h \in [Call -> SUBSET Instance] :
                 /\ \A d \in Dial : h[d] = {}
                 /\ \A c \in Incoming : \E i \in Instance : h[c] = {i}}

\* GatewayClient::routes.
routes == IF targets = <<>> THEN <<Base>> ELSE targets

\* An SRV route is pinned to its address; the base URL is resolved anew by
\* each connection.
Reach(r) == IF r = Base THEN Instance ELSE {r}

\* Any of them may be the first that can be connected to.
RoutesTried == {routes[i] : i \in DOMAIN routes}

Accepting == {c \in Incoming : req[c] # "none"}
Live == {c \in Call : place[c] \in {"ringing", "connected"}} \cup Accepting

\* live_call_route: with MAX_LIVE_CALLS at two, at most one other call is
\* live when a call is pinned, so the oldest of them is that one.
LiveRoutes == {route[c] : c \in {b \in Call : place[b] \in {"ringing", "connected"}}} \ {None}

-----------------------------------------------------------------------------
(* Outgoing calls. *)

\* reserve_outgoing reads the routes of the calls being accepted ...
ReadAccepting(d) ==
  /\ place[d] = "none"
  /\ place' = [place EXCEPT ![d] = "reading"]
  /\ seen' = [seen EXCEPT ![d] = {<<c, route[c]>> : c \in {b \in Accepting : req[b] = "sent"}}]
  /\ UNCHANGED <<resolving, req, todo, route, via, pin, settled, held>>

\* ... and then decides under the locks.
Pins(d) ==
  IF LiveRoutes # {} THEN LiveRoutes
  ELSE LET accepted == {s[2] : s \in {t \in seen[d] : t[1] \in Accepting}}
       IN IF accepted = {} THEN {None} ELSE accepted

\* A call whose instance is certain: it is connected, it was delivered and
\* rings, or it is being accepted and was when the routes were read.
Settled(d) ==
  {c \in Call : \/ place[c] = "connected"
                \/ place[c] = "ringing" /\ req[c] \in {"sent", "done"}
                \/ c \in Accepting /\ c \in {s[1] : s \in seen[d]}}

ReserveOutgoing(d) ==
  /\ place[d] = "reading"
  /\ seen' = [seen EXCEPT ![d] = {}]
  /\ IF Cardinality(Live) >= MAX_LIVE_CALLS
     THEN /\ place' = [place EXCEPT ![d] = "none"]
          /\ UNCHANGED <<req, pin, settled>>
     ELSE /\ place' = [place EXCEPT ![d] = "ringing"]
          /\ req' = [req EXCEPT ![d] = "reserved"]
          /\ \E r \in Pins(d) : pin' = [pin EXCEPT ![d] = r]
          /\ \E c \in IF Settled(d) = {} THEN {None} ELSE Settled(d) :
               settled' = [settled EXCEPT ![d] = c]
  /\ UNCHANGED <<resolving, todo, route, via, held>>

\* Mutant: a pinned call fails over like any other.
mut_Placement(d) == IF pin[d] # None THEN <<pin[d]>> \o routes ELSE routes

\* The routes make_call will try.
Placement(d) == IF pin[d] # None THEN <<pin[d]>> ELSE routes

MakeCall(d) ==
  /\ place[d] = "ringing" /\ req[d] = "reserved"
  /\ req' = [req EXCEPT ![d] = "trying"]
  /\ route' = [route EXCEPT ![d] = Head(Placement(d))]
  /\ todo' = [todo EXCEPT ![d] = Tail(Placement(d))]
  /\ UNCHANGED <<resolving, place, via, seen, pin, settled, held>>

\* A dial that fails leaves `ringing`, unless a hangup took it out before.
\* Nothing keeps its route then, and what its instance does with it is over.
DialFails(d) ==
  /\ req' = [req EXCEPT ![d] = "none"]
  /\ place' = [place EXCEPT ![d] = "gone"]
  /\ todo' = [todo EXCEPT ![d] = <<>>]
  /\ settled' = [settled EXCEPT ![d] = None] /\ pin' = [pin EXCEPT ![d] = None]
  /\ route' = [route EXCEPT ![d] = None] /\ held' = [held EXCEPT ![d] = {}]

NextRoute(d) ==
  /\ route' = [route EXCEPT ![d] = Head(todo[d])]
  /\ todo' = [todo EXCEPT ![d] = Tail(@)]
  /\ UNCHANGED place

\* send_on goes on to the next route only when it could not connect.
NotConnected(d) ==
  /\ req[d] = "trying"
  /\ IF todo[d] = <<>> THEN DialFails(d)
     ELSE NextRoute(d) /\ UNCHANGED <<req, pin, settled, held>>
  /\ UNCHANGED <<resolving, via, seen>>

Delivered(d) ==
  /\ req[d] = "trying"
  /\ req' = [req EXCEPT ![d] = "sent"]
  /\ \E i \in Reach(route[d]) : held' = [held EXCEPT ![d] = @ \cup {i}]
  /\ UNCHANGED <<resolving, place, todo, route, via, seen, pin, settled>>

\* Mutant: any failure moves on to the next route.
mut_SendFails(d) ==
  /\ req[d] = "sent" /\ todo[d] # <<>>
  /\ NextRoute(d) /\ req' = [req EXCEPT ![d] = "trying"]
  /\ UNCHANGED <<resolving, via, seen, pin, settled, held>>

\* A timeout or a reset, before or after the request arrived: it may have
\* been acted on.
SendFails(d) ==
  /\ req[d] \in {"trying", "sent"}
  /\ DialFails(d)
  /\ UNCHANGED <<resolving, via, seen>>

\* The gateway answers; a call hung up meanwhile is hung up at the gateway.
MakeCallReturns(d) ==
  /\ req[d] = "sent"
  /\ req' = [req EXCEPT ![d] = "done"]
  /\ place' = [place EXCEPT ![d] = IF @ = "ringing" THEN "connected" ELSE @]
  /\ todo' = [todo EXCEPT ![d] = <<>>]
  /\ UNCHANGED <<resolving, route, via, seen, pin, settled, held>>

-----------------------------------------------------------------------------
(* Incoming calls. *)

\* get_call_offer goes to the first route that can be connected to; an
\* instance that does not hold the call refuses, and nothing is tried after.
HandlePush(c) ==
  /\ place[c] = "none"
  /\ \E r \in RoutesTried :
       /\ Reach(r) \cap held[c] # {}
       /\ route' = [route EXCEPT ![c] = r]
  /\ place' = [place EXCEPT ![c] = "offered"]
  /\ UNCHANGED <<resolving, req, todo, via, seen, pin, settled, held>>

ReserveAccept(c) ==
  /\ place[c] = "offered" /\ req[c] = "none"
  /\ Cardinality(Live) < MAX_LIVE_CALLS
  /\ req' = [req EXCEPT ![c] = "reserved"]
  /\ UNCHANGED <<resolving, place, todo, route, via, seen, pin, settled, held>>

\* The offer is fetched again, the media is set up, and answer_offer marks
\* the call as being accepted and sends the answer.
AnswerOffer(c) ==
  /\ place[c] = "offered" /\ req[c] = "reserved"
  /\ \E r \in RoutesTried :
       /\ Reach(r) \cap held[c] # {}
       /\ via' = [via EXCEPT ![c] = r]
  /\ req' = [req EXCEPT ![c] = "sent"]
  /\ UNCHANGED <<resolving, place, todo, route, seen, pin, settled, held>>

\* No offer, no media, or the gateway refuses: the call is still offered.
AcceptFails(c) ==
  /\ place[c] = "offered" /\ req[c] \in {"reserved", "sent"}
  /\ req' = [req EXCEPT ![c] = "none"]
  /\ via' = [via EXCEPT ![c] = None]
  /\ UNCHANGED <<resolving, place, todo, route, seen, pin, settled, held>>

\* The call is connected on the route it was answered on.
Accepted(c) ==
  /\ place[c] = "offered" /\ req[c] = "sent"
  /\ Reach(via[c]) \cap held[c] # {}
  /\ place' = [place EXCEPT ![c] = "connected"]
  /\ req' = [req EXCEPT ![c] = "none"]
  /\ route' = [route EXCEPT ![c] = via[c]] /\ via' = [via EXCEPT ![c] = None]
  /\ UNCHANGED <<resolving, todo, seen, pin, settled, held>>

-----------------------------------------------------------------------------
\* A call that is offered or connected ends, here or there, and its instance
\* matters no more.
Ends(c) ==
  /\ \/ place[c] = "connected"
     \/ place[c] = "offered" /\ req[c] = "none"
  /\ place' = [place EXCEPT ![c] = "gone"] /\ req' = [req EXCEPT ![c] = "none"]
  /\ route' = [route EXCEPT ![c] = None] /\ pin' = [pin EXCEPT ![c] = None]
  /\ settled' = [settled EXCEPT ![c] = None]
  /\ held' = [held EXCEPT ![c] = {}]
  /\ UNCHANGED <<resolving, todo, via, seen>>

\* A dial is hung up while it rings.  Its request goes on.
HangupRinging(d) ==
  /\ place[d] = "ringing"
  /\ place' = [place EXCEPT ![d] = "gone"]
  /\ req' = [req EXCEPT ![d] = IF @ = "reserved" THEN "none" ELSE @]
  /\ settled' = [settled EXCEPT ![d] = None]
  /\ UNCHANGED <<resolving, todo, route, via, seen, pin, held>>

Resolves == ResolverNext /\ UNCHANGED calls

Next ==
  \/ Resolves
  \/ \E d \in Dial : ReadAccepting(d) \/ ReserveOutgoing(d) \/ MakeCall(d) \/ NotConnected(d)
                     \/ Delivered(d) \/ SendFails(d) \/ MakeCallReturns(d) \/ HangupRinging(d)
  \/ \E c \in Incoming : HandlePush(c) \/ ReserveAccept(c) \/ AnswerOffer(c)
                         \/ AcceptFails(c) \/ Accepted(c)
  \/ \E c \in Call : Ends(c)

Spec == Init /\ [][Next]_vars

-----------------------------------------------------------------------------
\* However connections fail and wherever the routes are replaced meanwhile,
\* a call is placed at one instance at most, so its callee rings once, and
\* the route the engine keeps for its cancel, status and hangup leads there.
CallsStayPut ==
  \A c \in Call : /\ Cardinality(held[c]) <= 1
                  /\ \A i \in held[c] : route[c] # None => i \in Reach(route[c])

\* CallsStayPut over well-typed states.
Consistent == TypeOK /\ CallsStayPut

\* A second call dialled while the first one's instance is certain is on
\* that instance when both are connected, so the two can be transferred.
\* (Nothing is certain of the base URL; see the README for the calls whose
\* instance is not certain when the second one is reserved.)
DialsTogether ==
  \A d \in Dial : \A c \in Call :
    /\ settled[d] = c /\ place[d] = "connected" /\ place[c] = "connected"
    /\ pin[d] # Base
    => held[d] = held[c]
=============================================================================
