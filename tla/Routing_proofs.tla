--------------------------- MODULE Routing_proofs ---------------------------
(***************************************************************************)
(* Theorems about modules Resolver and Routing, for any instances, zones,  *)
(* lifetimes and calls: the types, that a call stays at one instance, that *)
(* the list of targets is recent, and, with two live calls at most, that a *)
(* second call joins the instance of the first.                            *)
(***************************************************************************)
EXTENDS Routing, FiniteSetTheorems, TLAPS

-----------------------------------------------------------------------------
(* The resolver. *)

\* A lookup finds addresses of instances.
LEMMA LookupType ==
  ASSUME NEW z \in Zones, NEW s \in lookup_srv(z)
  PROVE  s \in Seq(Instance)
<1> DEFINE found == {r \in z.srv : z.host[r.instance] = "resolves"}
<1>1. found \subseteq Records /\ Cardinality(found) \in Nat
  BY ZonesAssumption, FS_Subset, FS_CardinalityType
<1>2. CASE s = <<>>
  BY <1>2
<1>3. CASE \E t \in Sorted(z) : s = [i \in DOMAIN t |-> t[i].instance]
  <2>1. PICK t \in [1 .. Cardinality(found) -> found] : s = [i \in DOMAIN t |-> t[i].instance]
    BY <1>3 DEF Sorted
  <2>2. \A r \in found : r.instance \in Instance
    BY <1>1 DEF Records
  <2> DEFINE n == Cardinality(found)
  <2>3. s \in [1 .. n -> Instance]
    BY <2>1, <2>2
  <2>4. n \in Nat
    BY <1>1
  <2> HIDE DEF n
  <2> QED BY <2>3, <2>4
<1> QED BY <1>2, <1>3 DEF lookup_srv

LEMMA FoundType ==
  ASSUME NEW z \in Zones, NEW found \in Found(z)
  PROVE  /\ found.to \in Seq(Instance) /\ found.left \in 0 .. SRV_TTL
         /\ \/ found.to \in lookup_srv(z) /\ found.left <= SRV_TTL
            \/ found.to = z.a /\ found.left <= A_TTL
<1>1. CASE \E s \in lookup_srv(z) : found = [to |-> s, left |-> SRV_TTL]
  BY <1>1, LookupType, TtlAssumption
<1>2. CASE found = [to |-> z.a, left |-> A_TTL]
  BY <1>2, ZonesAssumption, TtlAssumption
<1> QED BY <1>1, <1>2 DEF Found

\* What is in the cache was once DNS's answer, and its time left and the time
\* since DNS last gave that answer add up to no more than its lifetime.
CacheExplained ==
  cache.left > 0 =>
    \E z \in Zones : \E found \in Found(z) :
      found.to = cache.to /\ since[z] + cache.left <= found.left

ResolverInv == /\ ResolverTypeOK /\ DOMAIN cache = {"to", "left"}
               /\ since[zone] = 0 /\ CacheExplained

LEMMA ResolverStep == ResolverInv /\ [ResolverNext]_resolving => ResolverInv'
<1> SUFFICES ASSUME ResolverInv, [ResolverNext]_resolving PROVE ResolverInv'
  OBVIOUS
<1> USE TtlAssumption DEF ResolverInv, ResolverTypeOK, OLD
<1>1. CASE ResolveFromCache
  BY <1>1 DEF ResolveFromCache, Cached, CacheExplained
<1>2. CASE ResolveLooks
  BY <1>2 DEF ResolveLooks, CacheExplained
<1>3. CASE ResolveFinds
  <2>1. PICK found \in Found(zone) :
          IF found.to = <<>> THEN UNCHANGED <<cache, targets>>
                             ELSE cache' = found /\ targets' = found.to
    BY <1>3 DEF ResolveFinds
  <2>2. UNCHANGED <<zone, since, changes>> /\ register' = "resolved"
    BY <1>3 DEF ResolveFinds
  <2>3. CASE found.to = <<>>
    BY <2>1, <2>2, <2>3 DEF CacheExplained
  <2>4. CASE found.to # <<>>
    <3>1. cache' = found /\ targets' = found.to
      BY <2>1, <2>4
    <3>2. DOMAIN found = {"to", "left"}
      BY DEF Found
    <3>3. CacheExplained'
      <4>1. \E f \in Found(zone') : f.to = cache'.to
        BY <2>2, <3>1
      <4> QED BY <2>2, <3>1, <4>1, FoundType DEF CacheExplained
    <3> QED BY <2>2, <3>1, <3>2, <3>3, FoundType
  <2> QED BY <2>3, <2>4
<1>4. CASE Registers
  BY <1>4 DEF Registers, CacheExplained
<1>5. CASE ZoneChanges
  <2>1. /\ since' \in [Zones -> 0 .. OLD] /\ since'[zone'] = 0
        /\ \A z \in Zones : since'[z] <= since[z]
    BY <1>5 DEF ZoneChanges
  <2>2. CacheExplained'
    <3> SUFFICES ASSUME cache.left > 0 PROVE CacheExplained'
      BY <1>5 DEF ZoneChanges, CacheExplained
    <3>1. PICK z \in Zones : \E f \in Found(z) :
            f.to = cache.to /\ since[z] + cache.left <= f.left
      BY DEF CacheExplained
    <3>2. PICK f \in Found(z) : f.to = cache.to /\ since[z] + cache.left <= f.left
      BY <3>1
    <3>3. since'[z] + cache.left <= f.left
      BY <2>1, <3>2, FoundType
    <3> QED BY <1>5, <3>2, <3>3 DEF ZoneChanges, CacheExplained
  <2> QED BY <1>5, <2>1, <2>2 DEF ZoneChanges
<1>6. CASE Tick
  <2>1. /\ since' \in [Zones -> 0 .. OLD] /\ since'[zone] = 0
        /\ \A z \in Zones : since'[z] <= since[z] + 1
    BY <1>6 DEF Tick
  <2>2. /\ DOMAIN cache' = {"to", "left"} /\ cache'.to = cache.to
        /\ cache'.left \in 0 .. SRV_TTL
        /\ cache'.left > 0 => cache.left > 0 /\ cache'.left = cache.left - 1
    BY <1>6 DEF Tick, Less
  <2>3. CacheExplained'
    <3> SUFFICES ASSUME cache'.left > 0 PROVE CacheExplained'
      BY DEF CacheExplained
    <3>1. PICK z \in Zones : \E f \in Found(z) :
            f.to = cache.to /\ since[z] + cache.left <= f.left
      BY <2>2 DEF CacheExplained
    <3>2. PICK f \in Found(z) : f.to = cache.to /\ since[z] + cache.left <= f.left
      BY <3>1
    <3>3. since'[z] + cache'.left <= f.left
      BY <2>1, <2>2, <3>2, FoundType
    <3> QED BY <2>2, <3>2, <3>3 DEF CacheExplained
  <2> QED BY <1>6, <2>1, <2>2, <2>3 DEF Tick
<1>7. CASE UNCHANGED resolving
  BY <1>7 DEF resolving, CacheExplained
<1> QED BY <1>1, <1>2, <1>3, <1>4, <1>5, <1>6, <1>7 DEF ResolverNext

\* The list a registration puts in place is recent.
LEMMA RecentStep ==
  ASSUME ResolverInv, [ResolverNext]_resolving,
         register # "resolved", register' = "resolved"
  PROVE  \/ Recently(targets')
         \/ /\ register = "looking" /\ \E found \in Found(zone) : found.to = <<>>
            /\ UNCHANGED targets
<1>1. ResolveFromCache \/ ResolveFinds
  BY DEF ResolverNext, resolving, ResolveLooks, Registers, ZoneChanges, Tick
<1>2. CASE ResolveFromCache
  <2>1. cache.left > 0 /\ targets' = cache.to
    BY <1>2, TtlAssumption DEF ResolveFromCache, Cached
  <2>2. PICK z \in Zones : \E f \in Found(z) :
          f.to = cache.to /\ since[z] + cache.left <= f.left
    BY <2>1 DEF ResolverInv, CacheExplained
  <2>3. PICK f \in Found(z) : f.to = cache.to /\ since[z] + cache.left <= f.left
    BY <2>2
  <2>4. since[z] < f.left
    BY <2>1, <2>3, FoundType, TtlAssumption DEF ResolverInv, ResolverTypeOK, OLD
  <2> QED BY <2>1, <2>3, <2>4 DEF Recently
<1>3. CASE ResolveFinds
  BY <1>3 DEF ResolveFinds, Recently, ResolverInv, ResolverTypeOK
<1> QED BY <1>1, <1>2, <1>3

-----------------------------------------------------------------------------
(* Calls. *)

\* A call is at one instance at most, and its route leads there.
OneInstance ==
  \A c \in Call : \/ held[c] = {}
                  \/ \E i \in Instance : /\ held[c] = {i}
                                         /\ route[c] # None => i \in Reach(route[c])

\* No instance has a dial whose request has not arrived.
Unsent ==
  \A d \in Dial :
    /\ place[d] \in {"none", "reading"} => held[d] = {} /\ req[d] = "none"
    /\ req[d] \in {"reserved", "trying"} => held[d] = {}
    /\ req[d] = "trying" => route[d] \in Route

\* A call being accepted is offered, and its watch has a route.
Offers ==
  \A c \in Incoming : /\ req[c] # "none" => place[c] = "offered"
                      /\ place[c] = "offered" => route[c] \in Route

CallsInv == CallsTypeOK /\ OneInstance /\ Unsent /\ Offers

Inv == ResolverInv /\ CallsInv

\* The lists of routes are never empty.
LEMMA RoutesType ==
  ASSUME ResolverTypeOK
  PROVE  routes \in Seq(Route) /\ routes # <<>>
<1>1. targets \in Seq(Route)
  BY DEF ResolverTypeOK, Route
<1>2. Base \in Route
  BY DEF Route
<1> QED BY <1>1, <1>2 DEF routes

LEMMA PlacementType ==
  ASSUME Inv, NEW d \in Dial
  PROVE  /\ Head(Placement(d)) \in Route /\ Tail(Placement(d)) \in Seq(Route)
<1>1. routes \in Seq(Route) /\ routes # <<>>
  BY RoutesType DEF Inv, ResolverInv
<1>2. pin[d] # None => <<pin[d]>> \in Seq(Route) /\ <<pin[d]>> # <<>>
  BY DEF Inv, CallsInv, CallsTypeOK, Call
<1>3. Placement(d) \in Seq(Route) /\ Placement(d) # <<>>
  BY <1>1, <1>2 DEF Placement
<1> QED BY <1>3

LEMMA TriedType ==
  ASSUME Inv, NEW r \in RoutesTried
  PROVE  r \in Route
<1>1. routes \in Seq(Route)
  BY RoutesType DEF Inv, ResolverInv
<1> QED BY <1>1 DEF RoutesTried

\* What a dial that fails leaves behind.
LEMMA FailedDial ==
  ASSUME Inv, NEW d \in Dial, DialFails(d), UNCHANGED <<via, seen>>
  PROVE  CallsInv'
<1> USE RoutingAssumption DEF Call
<1>1. /\ place' \in [Call -> {"none", "reading", "ringing", "offered", "connected", "gone"}]
      /\ req' \in [Call -> {"none", "reserved", "trying", "sent", "done"}]
      /\ settled' \in [Call -> Call \cup {None}]
  BY DEF DialFails, Inv, CallsInv, CallsTypeOK
<1>2. /\ route' \in [Call -> Route \cup {None}] /\ pin' \in [Call -> Route \cup {None}]
      /\ held' \in [Call -> SUBSET Instance] /\ todo' \in [Call -> Seq(Route)]
  BY DEF DialFails, Inv, CallsInv, CallsTypeOK
<1>3. CallsTypeOK'
  BY <1>1, <1>2 DEF Inv, CallsInv, CallsTypeOK
<1>4. held'[d] = {} /\ \A c \in Call \ {d} : held'[c] = held[c] /\ route'[c] = route[c]
  BY DEF DialFails, Inv, CallsInv, CallsTypeOK
<1>5. OneInstance'
  BY <1>4 DEF Inv, CallsInv, OneInstance
<1>6. Unsent' /\ Offers'
  BY <1>4 DEF DialFails, Inv, CallsInv, CallsTypeOK, Unsent, Offers
<1> QED BY <1>3, <1>5, <1>6 DEF CallsInv

LEMMA FailedDialAlone ==
  ASSUME Inv, NEW d \in Dial, DialFails(d)
  PROVE  /\ place'[d] = "gone" /\ req'[d] = "none" /\ pin'[d] = None
         /\ \A c \in Call \ {d} :
              /\ place'[c] = place[c] /\ req'[c] = req[c] /\ todo'[c] = todo[c]
              /\ route'[c] = route[c] /\ pin'[c] = pin[c] /\ held'[c] = held[c]
              /\ settled'[c] = settled[c]
BY DEF DialFails, Inv, CallsInv, CallsTypeOK, Call

LEMMA DialStep ==
  ASSUME Inv, NEW d \in Dial,
         \/ ReadAccepting(d) \/ ReserveOutgoing(d) \/ MakeCall(d) \/ NotConnected(d)
         \/ Delivered(d) \/ SendFails(d) \/ MakeCallReturns(d) \/ HangupRinging(d)
  PROVE  CallsInv'
<1> USE RoutingAssumption DEF Call
<1>1. CASE ReadAccepting(d)
  <2>1. seen'[d] \in SUBSET (Incoming \X Route)
    BY <1>1 DEF ReadAccepting, Accepting, Inv, CallsInv, CallsTypeOK, Offers
  <2> QED BY <1>1, <2>1
      DEF ReadAccepting, Inv, CallsInv, CallsTypeOK, OneInstance, Unsent, Offers
<1>2. CASE ReserveOutgoing(d)
  <2>1. Pins(d) \subseteq Route \cup {None}
    <3>1. LiveRoutes \subseteq Route
      BY DEF LiveRoutes, Inv, CallsInv, CallsTypeOK
    <3>2. \A s \in seen[d] : s[2] \in Route
      BY DEF Inv, CallsInv, CallsTypeOK
    <3>3. {s[2] : s \in {t \in seen[d] : t[1] \in Accepting}} \subseteq Route
      BY <3>2
    <3> QED BY <3>1, <3>3 DEF Pins
  <2>2. Settled(d) \subseteq Call
    BY DEF Settled
  <2>3. CASE Cardinality(Live) >= MAX_LIVE_CALLS
    <3>1. /\ place' = [place EXCEPT ![d] = "none"] /\ place[d] = "reading"
          /\ seen' = [seen EXCEPT ![d] = {}]
          /\ UNCHANGED <<req, todo, route, via, pin, settled, held>>
      BY <1>2, <2>3 DEF ReserveOutgoing
    <3>2. CallsTypeOK'
      BY <3>1 DEF Inv, CallsInv, CallsTypeOK
    <3>3. OneInstance' /\ Unsent' /\ Offers'
      BY <3>1 DEF Inv, CallsInv, CallsTypeOK, OneInstance, Unsent, Offers
    <3> QED BY <3>2, <3>3 DEF CallsInv
  <2>4. CASE ~(Cardinality(Live) >= MAX_LIVE_CALLS)
    <3>1. PICK r \in Pins(d) : pin' = [pin EXCEPT ![d] = r]
      BY <1>2, <2>4 DEF ReserveOutgoing
    <3>2. PICK c \in Call \cup {None} : settled' = [settled EXCEPT ![d] = c]
      BY <1>2, <2>2, <2>4 DEF ReserveOutgoing
    <3>3. /\ place' = [place EXCEPT ![d] = "ringing"]
          /\ req' = [req EXCEPT ![d] = "reserved"]
          /\ seen' = [seen EXCEPT ![d] = {}] /\ place[d] = "reading"
          /\ UNCHANGED <<todo, route, via, held>>
      BY <1>2, <2>4 DEF ReserveOutgoing
    <3>4. CallsTypeOK'
      BY <2>1, <3>1, <3>2, <3>3 DEF Inv, CallsInv, CallsTypeOK
    <3>5. OneInstance' /\ Unsent' /\ Offers'
      BY <3>3 DEF Inv, CallsInv, CallsTypeOK, OneInstance, Unsent, Offers
    <3> QED BY <3>4, <3>5 DEF CallsInv
  <2> QED BY <2>3, <2>4
<1>3. CASE MakeCall(d)
  BY <1>3, PlacementType
  DEF MakeCall, Inv, CallsInv, CallsTypeOK, OneInstance, Unsent, Offers
<1>4. CASE NotConnected(d)
  <2>1. CASE todo[d] = <<>>
    BY <1>4, <2>1, FailedDial DEF NotConnected
  <2>2. CASE todo[d] # <<>>
    <3>1. Head(todo[d]) \in Route /\ Tail(todo[d]) \in Seq(Route)
      BY <2>2 DEF Inv, CallsInv, CallsTypeOK
    <3>5. /\ route' = [route EXCEPT ![d] = Head(todo[d])]
          /\ todo' = [todo EXCEPT ![d] = Tail(todo[d])]
          /\ UNCHANGED <<place, req, via, seen, pin, settled, held>>
      BY <1>4, <2>2 DEF NotConnected, NextRoute
    <3> DEFINE first == Head(todo[d])  rest == Tail(todo[d])
    <3>6. first \in Route /\ rest \in Seq(Route)
      BY <3>1
    <3>7. route' = [route EXCEPT ![d] = first] /\ todo' = [todo EXCEPT ![d] = rest]
      BY <3>5
    <3> HIDE DEF first, rest
    <3>8. todo' \in [Call -> Seq(Route)] /\ route' \in [Call -> Route \cup {None}]
      BY <3>6, <3>7 DEF Inv, CallsInv, CallsTypeOK
    <3>2. CallsTypeOK'
      BY <3>5, <3>8 DEF Inv, CallsInv, CallsTypeOK
    <3>3. Unsent' /\ Offers'
      BY <1>4, <2>2, <3>1
      DEF NotConnected, NextRoute, Inv, CallsInv, CallsTypeOK, Unsent, Offers
    <3>4. OneInstance'
      BY <1>4, <2>2
      DEF NotConnected, NextRoute, Inv, CallsInv, CallsTypeOK, OneInstance, Unsent
    <3> QED BY <3>2, <3>3, <3>4 DEF CallsInv
  <2> QED BY <2>1, <2>2
<1>5. CASE Delivered(d)
  <2>1. PICK i \in Reach(route[d]) : held' = [held EXCEPT ![d] = @ \cup {i}]
    BY <1>5 DEF Delivered
  <2>2. i \in Instance /\ held[d] = {}
    BY <1>5, <2>1 DEF Delivered, Reach, Route, Inv, CallsInv, Unsent
  <2>3. held'[d] = {i} /\ \A c \in Call \ {d} : held'[c] = held[c]
    BY <2>1, <2>2 DEF Inv, CallsInv, CallsTypeOK
  <2>4. CallsTypeOK'
    BY <1>5, <2>1, <2>2 DEF Delivered, Inv, CallsInv, CallsTypeOK
  <2>6. Unsent' /\ Offers'
    BY <1>5, <2>3 DEF Delivered, Inv, CallsInv, CallsTypeOK, Unsent, Offers
  <2>5. OneInstance'
    BY <1>5, <2>1, <2>2, <2>3 DEF Delivered, Inv, CallsInv, OneInstance, Reach
  <2> QED BY <2>4, <2>5, <2>6 DEF CallsInv
<1>6. CASE SendFails(d)
  BY <1>6, FailedDial DEF SendFails
<1>7. CASE MakeCallReturns(d)
  <2>1. CallsTypeOK'
    BY <1>7 DEF MakeCallReturns, Inv, CallsInv, CallsTypeOK
  <2>2. OneInstance' /\ Unsent' /\ Offers'
    BY <1>7 DEF MakeCallReturns, Inv, CallsInv, CallsTypeOK, OneInstance, Unsent, Offers
  <2> QED BY <2>1, <2>2 DEF CallsInv
<1>8. CASE HangupRinging(d)
  BY <1>8 DEF HangupRinging, Inv, CallsInv, CallsTypeOK, OneInstance, Unsent, Offers
<1> QED BY <1>1, <1>2, <1>3, <1>4, <1>5, <1>6, <1>7, <1>8

LEMMA IncomingStep ==
  ASSUME Inv, NEW c \in Incoming,
         \/ HandlePush(c) \/ ReserveAccept(c) \/ AnswerOffer(c)
         \/ AcceptFails(c) \/ Accepted(c)
  PROVE  CallsInv'
<1> USE RoutingAssumption DEF Call
<1>1. CASE HandlePush(c)
  <2>1. PICK r \in Route : Reach(r) \cap held[c] # {} /\ route' = [route EXCEPT ![c] = r]
    BY <1>1, TriedType DEF HandlePush
  <2>2. CallsTypeOK'
    BY <1>1, <2>1 DEF HandlePush, Inv, CallsInv, CallsTypeOK
  <2>3. Unsent' /\ Offers'
    BY <1>1, <2>1 DEF HandlePush, Inv, CallsInv, CallsTypeOK, Unsent, Offers
  <2>4. OneInstance'
    BY <1>1, <2>1 DEF HandlePush, Inv, CallsInv, CallsTypeOK, OneInstance
  <2> QED BY <2>2, <2>3, <2>4 DEF CallsInv
<1>2. CASE ReserveAccept(c)
  BY <1>2 DEF ReserveAccept, Inv, CallsInv, CallsTypeOK, OneInstance, Unsent, Offers
<1>3. CASE AnswerOffer(c)
  <2>1. PICK r \in Route : via' = [via EXCEPT ![c] = r]
    BY <1>3, TriedType DEF AnswerOffer
  <2> QED BY <1>3, <2>1
      DEF AnswerOffer, Inv, CallsInv, CallsTypeOK, OneInstance, Unsent, Offers
<1>4. CASE AcceptFails(c)
  BY <1>4 DEF AcceptFails, Inv, CallsInv, CallsTypeOK, OneInstance, Unsent, Offers
<1>5. CASE Accepted(c)
  BY <1>5 DEF Accepted, Inv, CallsInv, CallsTypeOK, OneInstance, Unsent, Offers, Reach
<1> QED BY <1>1, <1>2, <1>3, <1>4, <1>5

LEMMA EndStep ==
  ASSUME Inv, NEW c \in Call, Ends(c)
  PROVE  CallsInv'
BY RoutingAssumption
DEF Ends, Call, Inv, CallsInv, CallsTypeOK, OneInstance, Unsent, Offers

LEMMA InitInv == Init => Inv
<1> SUFFICES ASSUME Init PROVE Inv
  OBVIOUS
<1>1. ResolverInv
  BY TtlAssumption DEF Init, ResolverInit, ResolverInv, ResolverTypeOK, CacheExplained, OLD
<1>2. CallsInv
  BY RoutingAssumption
  DEF Init, CallsInv, CallsTypeOK, OneInstance, Unsent, Offers, Call
<1> QED BY <1>1, <1>2 DEF Inv

LEMMA NextInv == Inv /\ [Next]_vars => Inv'
<1> SUFFICES ASSUME Inv, [Next]_vars PROVE Inv'
  OBVIOUS
<1>1. CASE UNCHANGED calls /\ [ResolverNext]_resolving
  <2>1. ResolverInv'
    BY <1>1, ResolverStep DEF Inv
  <2>2. CallsInv'
    BY <1>1
    DEF calls, Inv, CallsInv, CallsTypeOK, OneInstance, Unsent, Offers
  <2> QED BY <2>1, <2>2 DEF Inv
<1>2. CASE UNCHANGED resolving /\ CallsInv'
  <2>1. ResolverInv'
    BY <1>2, ResolverStep DEF Inv
  <2> QED BY <1>2, <2>1 DEF Inv
<1>3. ASSUME NEW d \in Dial,
             \/ ReadAccepting(d) \/ ReserveOutgoing(d) \/ MakeCall(d) \/ NotConnected(d)
             \/ Delivered(d) \/ SendFails(d) \/ MakeCallReturns(d) \/ HangupRinging(d)
      PROVE  Inv'
  <2>1. UNCHANGED resolving
    BY <1>3 DEF ReadAccepting, ReserveOutgoing, MakeCall, NotConnected, Delivered,
                SendFails, MakeCallReturns, HangupRinging
  <2> QED BY <1>2, <1>3, <2>1, DialStep
<1>4. ASSUME NEW c \in Incoming,
             \/ HandlePush(c) \/ ReserveAccept(c) \/ AnswerOffer(c)
             \/ AcceptFails(c) \/ Accepted(c)
      PROVE  Inv'
  <2>1. UNCHANGED resolving
    BY <1>4 DEF HandlePush, ReserveAccept, AnswerOffer, AcceptFails, Accepted
  <2> QED BY <1>2, <1>4, <2>1, IncomingStep
<1>5. ASSUME NEW c \in Call, Ends(c)
      PROVE  Inv'
  <2>1. UNCHANGED resolving
    BY <1>5 DEF Ends
  <2> QED BY <1>2, <1>5, <2>1, EndStep
<1>6. CASE Resolves
  BY <1>1, <1>6 DEF Resolves
<1>7. CASE UNCHANGED vars
  BY <1>1, <1>7 DEF vars
<1> QED BY <1>3, <1>4, <1>5, <1>6, <1>7 DEF Next

LEMMA Invariance == Spec => []Inv
BY InitInv, NextInv, PTL DEF Spec

\* However connections fail and the list of routes changes, no call is ever
\* at two instances, and its route leads to the one it is at (send_on and
\* the routes kept with each call).
THEOREM StaysPut == Spec => []Consistent
<1>1. Inv => Consistent
  <2> SUFFICES ASSUME Inv PROVE Consistent
    OBVIOUS
  <2>1. TypeOK
    BY DEF Inv, ResolverInv, CallsInv, TypeOK
  <2>2. ASSUME NEW c \in Call
        PROVE  /\ Cardinality(held[c]) <= 1
               /\ \A i \in held[c] : route[c] # None => i \in Reach(route[c])
    <3>1. CASE held[c] = {}
      BY <3>1, FS_EmptySet
    <3>2. CASE \E i \in Instance : /\ held[c] = {i}
                                   /\ route[c] # None => i \in Reach(route[c])
      <4>1. PICK i \in Instance : /\ held[c] = {i}
                                  /\ route[c] # None => i \in Reach(route[c])
        BY <3>2
      <4>2. Cardinality({i}) = 1
        BY FS_Singleton
      <4>3. Cardinality(held[c]) = 1
        BY <4>1, <4>2, Zenon
      <4>4. \A j \in held[c] : route[c] # None => j \in Reach(route[c])
        BY <4>1
      <4> QED BY <4>3, <4>4
    <3> QED BY <2>2, <3>1, <3>2 DEF Inv, CallsInv, OneInstance
  <2> QED BY <2>1, <2>2 DEF Consistent, CallsStayPut
<1> QED BY <1>1, Invariance, PTL

\* Whatever DNS answers and whenever it changes, for any lifetimes, the list a
\* registration puts in place is recent (resolve_sip_server and its cache).
THEOREM Recent == Spec => TargetsAreRecent
<1> DEFINE A == register # "resolved" /\ register' = "resolved" =>
       \/ Recently(targets')
       \/ /\ register = "looking" /\ \E found \in Found(zone) : found.to = <<>>
          /\ UNCHANGED targets
<1>1. Inv /\ [Next]_vars => [ResolverNext]_resolving
  BY DEF Next, vars, Resolves, ReadAccepting, ReserveOutgoing, MakeCall, NotConnected,
         Delivered, SendFails, MakeCallReturns, HangupRinging, HandlePush, ReserveAccept,
         AnswerOffer, AcceptFails, Accepted, Ends
<1>2. Inv /\ [ResolverNext]_resolving => [A]_resolving
  BY RecentStep DEF Inv
<1>3. Inv /\ [Next]_vars => [A]_resolving
  BY <1>1, <1>2
<1> QED BY <1>3, Invariance, PTL DEF Spec, TargetsAreRecent

-----------------------------------------------------------------------------
(* Two calls on one instance. *)

\* A delivered call is at an instance, a pinned one tries its pin only, and a
\* route is kept for each call that is connected or about to be.
Placed ==
  /\ \A d \in Dial :
       /\ place[d] = "connected" => req[d] = "done"
       /\ req[d] \in {"sent", "done"} /\ place[d] # "gone" => held[d] # {} /\ route[d] \in Route
       /\ pin[d] # None /\ req[d] \in {"trying", "sent", "done"} => route[d] = pin[d]
       /\ pin[d] # None /\ req[d] = "trying" => todo[d] = <<>>
  /\ \A c \in Incoming :
       /\ place[c] \notin {"reading", "ringing"}
       /\ place[c] # "gone" => held[c] # {}
       /\ place[c] = "connected" => route[c] \in Route
       /\ req[c] = "sent" => via[c] \in Route

\* A route read of a call being accepted leads to its instance until it ends.
SeenLeads ==
  \A d \in Dial : \A s \in seen[d] :
    place[s[1]] # "gone" => s[2] = Base \/ held[s[1]] = {s[2]}

\* A call dialled while another's instance was certain is pinned to it.
Together ==
  \A d \in Dial : \A c \in Call :
    settled[d] = c /\ place[d] \in {"ringing", "connected"} /\ place[c] # "gone" =>
      /\ pin[d] # None
      /\ pin[d] = Base \/ held[c] = {pin[d]}
      /\ c \in Dial => req[c] \in {"sent", "done"}

PinInv == Placed /\ SeenLeads /\ Together

LEMMA InitPin == Init => PinInv
BY RoutingAssumption DEF Init, PinInv, Placed, SeenLeads, Together, Call

LEMMA PlacedStep ==
  ASSUME Inv, Placed, [Next]_vars
  PROVE  Placed'
<1> USE RoutingAssumption DEF Inv, CallsInv, CallsTypeOK, Call, Unsent,
                              Offers, Placed
<1>1. ASSUME NEW d \in Dial,
             \/ ReadAccepting(d) \/ ReserveOutgoing(d) \/ MakeCall(d)
             \/ NotConnected(d) \/ Delivered(d) \/ SendFails(d)
             \/ MakeCallReturns(d) \/ HangupRinging(d)
      PROVE  Placed'
  <2>1. CASE ReadAccepting(d)
    BY <2>1 DEF ReadAccepting
  <2>2. CASE ReserveOutgoing(d)
    <3>1. CASE Cardinality(Live) >= MAX_LIVE_CALLS
      <4>1. /\ place' = [place EXCEPT ![d] = "none"] /\ place[d] = "reading"
            /\ seen' = [seen EXCEPT ![d] = {}]
            /\ UNCHANGED <<req, todo, route, via, pin, settled, held>>
        BY <2>2, <3>1 DEF ReserveOutgoing
      <4> QED BY <4>1
    <3>2. CASE ~(Cardinality(Live) >= MAX_LIVE_CALLS)
      <4>1. /\ place' = [place EXCEPT ![d] = "ringing"] /\ place[d] = "reading"
            /\ req' = [req EXCEPT ![d] = "reserved"]
            /\ UNCHANGED <<todo, route, via, held>>
        BY <2>2, <3>2 DEF ReserveOutgoing
      <4>2. \A f \in Dial \ {d} : pin'[f] = pin[f]
        BY <2>2, <3>2 DEF ReserveOutgoing
      <4> QED BY <4>1, <4>2
    <3> QED BY <3>1, <3>2
  <2>3. CASE MakeCall(d)
    BY <2>3 DEF MakeCall, Placement
  <2>4. CASE NotConnected(d)
    <3>1. CASE todo[d] = <<>>
      <4>1. DialFails(d) /\ UNCHANGED via
        BY <2>4, <3>1 DEF NotConnected
      <4>2. /\ place'[d] = "gone" /\ req'[d] = "none" /\ pin'[d] = None
            /\ \A c \in Call \ {d} :
                 /\ place'[c] = place[c] /\ req'[c] = req[c] /\ todo'[c] = todo[c]
                 /\ route'[c] = route[c] /\ pin'[c] = pin[c] /\ held'[c] = held[c]
                 /\ settled'[c] = settled[c]
        BY <4>1, FailedDialAlone
      <4>3. ASSUME NEW f \in Dial
            PROVE  /\ place'[f] = "connected" => req'[f] = "done"
                   /\ req'[f] \in {"sent", "done"} /\ place'[f] # "gone" =>
                        held'[f] # {} /\ route'[f] \in Route
                   /\ pin'[f] # None /\ req'[f] \in {"trying", "sent", "done"} => route'[f] = pin'[f]
                   /\ pin'[f] # None /\ req'[f] = "trying" => todo'[f] = <<>>
        <5>1. CASE f = d
          BY <4>2, <5>1
        <5>2. CASE f # d
          <6>1. /\ place'[f] = place[f] /\ req'[f] = req[f] /\ todo'[f] = todo[f]
                /\ route'[f] = route[f] /\ pin'[f] = pin[f] /\ held'[f] = held[f]
            BY <4>2, <5>2
          <6> QED BY <6>1
        <5> QED BY <5>1, <5>2
      <4>4. ASSUME NEW c \in Incoming
            PROVE  /\ place'[c] \notin {"reading", "ringing"}
                   /\ place'[c] # "gone" => held'[c] # {}
                   /\ place'[c] = "connected" => route'[c] \in Route
                   /\ req'[c] = "sent" => via'[c] \in Route
        <5>1. /\ place'[c] = place[c] /\ req'[c] = req[c]
              /\ route'[c] = route[c] /\ held'[c] = held[c] /\ via'[c] = via[c]
          BY <4>1, <4>2
        <5> QED BY <5>1
      <4> QED BY <4>3, <4>4
    <3>2. CASE todo[d] # <<>>
      <4>1. /\ pin[d] = None /\ req[d] = "trying"
            /\ \A f \in Call \ {d} : route'[f] = route[f] /\ todo'[f] = todo[f]
            /\ UNCHANGED <<place, req, via, pin, held>>
        BY <2>4, <3>2 DEF NotConnected, NextRoute
      <4> QED BY <4>1
    <3> QED BY <3>1, <3>2
  <2>5. CASE Delivered(d)
    <3>1. PICK i \in Reach(route[d]) : held' = [held EXCEPT ![d] = held[d] \cup {i}]
      BY <2>5 DEF Delivered
    <3>2. held'[d] # {} /\ \A f \in Call \ {d} : held'[f] = held[f]
      BY <3>1
    <3>3. req' = [req EXCEPT ![d] = "sent"] /\ req[d] = "trying" /\ UNCHANGED <<place, todo, route, via, pin>>
      BY <2>5 DEF Delivered
    <3>4. \A f \in Dial : route[f] \in Route \cup {None} /\ (req[f] = "trying" => route[f] \in Route)
      OBVIOUS
    <3> QED BY <3>2, <3>3, <3>4
  <2>6. CASE SendFails(d)
    BY <2>6 DEF SendFails, DialFails
  <2>7. CASE MakeCallReturns(d)
    BY <2>7 DEF MakeCallReturns
  <2>8. CASE HangupRinging(d)
    BY <2>8 DEF HangupRinging
  <2> QED BY <1>1, <2>1, <2>2, <2>3, <2>4, <2>5, <2>6, <2>7, <2>8
<1>2. ASSUME NEW c \in Incoming,
             \/ HandlePush(c) \/ ReserveAccept(c) \/ AnswerOffer(c)
             \/ AcceptFails(c) \/ Accepted(c)
      PROVE  Placed'
  <2>1. CASE HandlePush(c)
    BY <2>1 DEF HandlePush
  <2>2. CASE ReserveAccept(c)
    BY <2>2 DEF ReserveAccept
  <2>3. CASE AnswerOffer(c)
    <3>1. PICK r \in Route : via' = [via EXCEPT ![c] = r]
      BY <2>3, TriedType DEF AnswerOffer
    <3> QED BY <2>3, <3>1 DEF AnswerOffer
  <2>4. CASE AcceptFails(c)
    BY <2>4 DEF AcceptFails
  <2>5. CASE Accepted(c)
    BY <2>5 DEF Accepted
  <2> QED BY <1>2, <2>1, <2>2, <2>3, <2>4, <2>5
<1>3. ASSUME NEW c \in Call,
             Ends(c)
      PROVE  Placed'
  <2>1. CASE Ends(c)
    BY <2>1 DEF Ends
  <2> QED BY <1>3, <2>1
<1>4. CASE Resolves
  BY <1>4 DEF Resolves, calls
<1>5. CASE UNCHANGED vars
  BY <1>5 DEF vars, calls
<1> QED BY <1>1, <1>2, <1>3, <1>4, <1>5 DEF Next

LEMMA SeenStep ==
  ASSUME Inv, Placed, SeenLeads, [Next]_vars
  PROVE  SeenLeads'
<1> USE RoutingAssumption DEF Inv, CallsInv, CallsTypeOK, Call, SeenLeads
<1>1. ASSUME NEW d \in Dial,
             \/ ReadAccepting(d) \/ ReserveOutgoing(d) \/ MakeCall(d)
             \/ NotConnected(d) \/ Delivered(d) \/ SendFails(d)
             \/ MakeCallReturns(d) \/ HangupRinging(d)
      PROVE  SeenLeads'
  <2>1. CASE ReadAccepting(d)
    <3>1. ASSUME NEW b \in Accepting, place[b] # "gone"
        PROVE  route[b] = Base \/ held[b] = {route[b]}
      <4>1. held[b] # {} /\ route[b] \in Route /\ b \in Call
        BY <3>1 DEF Accepting, Offers, Placed
      <4>2. PICK i \in Instance : held[b] = {i} /\ (route[b] # None => i \in Reach(route[b]))
        BY <4>1 DEF OneInstance
      <4> QED BY <4>1, <4>2 DEF Reach, Route
    <3>2. /\ seen' = [seen EXCEPT ![d] = {<<b, route[b]>> : b \in {a \in Accepting : req[a] = "sent"}}]
        /\ place' = [place EXCEPT ![d] = "reading"] /\ held' = held /\ place[d] = "none"
      BY <2>1 DEF ReadAccepting
    <3>3. \A s \in seen'[d] : place[s[1]] # "gone" => s[2] = Base \/ held[s[1]] = {s[2]}
      BY <3>1, <3>2
    <3>4. \A b \in Call : place'[b] # "gone" => place[b] # "gone"
      BY <3>2
    <3>5. \A f \in Dial : \A s \in seen'[f] : s[1] \in Call
      <4>1. \A f \in Dial : seen'[f] \subseteq Incoming \X Route
        BY NextInv DEF Inv, CallsInv, CallsTypeOK, Call
      <4> QED BY <4>1
    <3> QED BY <3>2, <3>3, <3>4, <3>5
  <2>2. CASE ReserveOutgoing(d)
    BY <2>2 DEF ReserveOutgoing
  <2>3. CASE MakeCall(d)
    BY <2>3 DEF MakeCall, Placement
  <2>4. CASE NotConnected(d)
    <3>1. CASE todo[d] = <<>>
      <4>1. DialFails(d) /\ UNCHANGED <<via, seen>>
        BY <2>4, <3>1 DEF NotConnected
      <4> QED BY <4>1, FailedDialAlone
    <3>2. CASE todo[d] # <<>>
      BY <2>4, <3>2 DEF NotConnected, NextRoute
    <3> QED BY <3>1, <3>2
  <2>5. CASE Delivered(d)
    BY <2>5 DEF Delivered
  <2>6. CASE SendFails(d)
    BY <2>6 DEF SendFails, DialFails
  <2>7. CASE MakeCallReturns(d)
    BY <2>7 DEF MakeCallReturns
  <2>8. CASE HangupRinging(d)
    BY <2>8 DEF HangupRinging
  <2> QED BY <1>1, <2>1, <2>2, <2>3, <2>4, <2>5, <2>6, <2>7, <2>8
<1>2. ASSUME NEW c \in Incoming,
             \/ HandlePush(c) \/ ReserveAccept(c) \/ AnswerOffer(c)
             \/ AcceptFails(c) \/ Accepted(c)
      PROVE  SeenLeads'
  <2>1. CASE HandlePush(c)
    BY <2>1 DEF HandlePush
  <2>2. CASE ReserveAccept(c)
    BY <2>2 DEF ReserveAccept
  <2>3. CASE AnswerOffer(c)
    BY <2>3 DEF AnswerOffer
  <2>4. CASE AcceptFails(c)
    BY <2>4 DEF AcceptFails
  <2>5. CASE Accepted(c)
    BY <2>5 DEF Accepted
  <2> QED BY <1>2, <2>1, <2>2, <2>3, <2>4, <2>5
<1>3. ASSUME NEW c \in Call,
             Ends(c)
      PROVE  SeenLeads'
  <2>1. CASE Ends(c)
    BY <2>1 DEF Ends
  <2> QED BY <1>3, <2>1
<1>4. CASE Resolves
  BY <1>4 DEF Resolves, calls
<1>5. CASE UNCHANGED vars
  BY <1>5 DEF vars, calls
<1> QED BY <1>1, <1>2, <1>3, <1>4, <1>5 DEF Next

LEMMA PinnedTo ==
  ASSUME MAX_LIVE_CALLS <= 2, Inv, Placed, SeenLeads,
         NEW d \in Dial, place[d] = "reading", Cardinality(Live) < MAX_LIVE_CALLS,
         NEW c \in Settled(d), NEW r \in Pins(d)
  PROVE  /\ c \in Call /\ c # d /\ r # None
         /\ r = Base \/ held[c] = {r}
         /\ c \in Dial => req[c] \in {"sent", "done"}
<1> USE RoutingAssumption DEF Call
<1>1. c \in Call /\ c \in Live /\ c # d
  BY DEF Settled, Live, Accepting
<1>2. \A x \in Live : x = c
  <2> SUFFICES ASSUME NEW x \in Live, x # c PROVE FALSE
    OBVIOUS
  <2>1. IsFiniteSet(Live) /\ Live \subseteq Call
    <3>1. Live \subseteq Call
      BY DEF Live, Accepting
    <3> QED BY <3>1, FS_Subset
  <2>2. Cardinality({x, c}) = 2
    <3>1. IsFiniteSet({c}) /\ Cardinality({c}) = 1
      BY FS_Singleton
    <3>2. Cardinality({c} \cup {x}) = 2
      <4>1. x \notin {c}
        OBVIOUS
      <4>2. Cardinality({c} \cup {x}) = Cardinality({c}) + 1
        BY <3>1, <4>1, FS_AddElement, Zenon
      <4> QED BY <3>1, <4>2
    <3>3. {c} \cup {x} = {x, c}
      OBVIOUS
    <3> QED BY <3>2, <3>3
  <2>3. {x, c} \subseteq Live
    BY <1>1
  <2>4. Cardinality({x, c}) <= Cardinality(Live) /\ Cardinality(Live) \in Nat
    BY <2>1, <2>3, FS_Subset, FS_CardinalityType
  <2> QED BY <2>2, <2>4
<1>3. CASE place[c] \in {"ringing", "connected"}
  <2>1. /\ held[c] # {} /\ route[c] \in Route
        /\ c \in Dial => req[c] \in {"sent", "done"}
    BY <1>1, <1>3 DEF Settled, Accepting, Inv, CallsInv, Offers, Placed
  <2>2. {b \in Call : place[b] \in {"ringing", "connected"}} = {c}
    BY <1>1, <1>2, <1>3 DEF Live
  <2>3. LiveRoutes = {route[c]}
    <3>1. route[c] # None
      BY <2>1 DEF Route
    <3>2. LiveRoutes = {route[b] : b \in {c}} \ {None}
      BY <2>2 DEF LiveRoutes
    <3> QED BY <3>1, <3>2
  <2>4. r = route[c]
    BY <2>3 DEF Pins
  <2>5. PICK i \in Instance : held[c] = {i} /\ (route[c] # None => i \in Reach(route[c]))
    BY <1>1, <2>1 DEF Inv, CallsInv, OneInstance
  <2> QED BY <1>1, <2>1, <2>4, <2>5 DEF Reach, Route
<1>4. CASE c \in Accepting /\ c \in {s[1] : s \in seen[d]}
  <2>1. c \in Incoming /\ place[c] = "offered"
    BY <1>4 DEF Accepting, Inv, CallsInv, Offers
  <2>2. LiveRoutes = {}
    BY <1>2, <2>1 DEF LiveRoutes, Live
  <2>3. \A t \in seen[d] : t[1] \in Accepting => t[1] = c
    BY <1>2 DEF Live
  <2>4. {s[2] : s \in {t \in seen[d] : t[1] \in Accepting}} # {}
    BY <1>4
  <2>5. PICK s \in seen[d] : s[1] = c /\ r = s[2]
    BY <2>2, <2>3, <2>4 DEF Pins
  <2>6. r \in Route
    BY <2>5 DEF Inv, CallsInv, CallsTypeOK
  <2>7. r = Base \/ held[c] = {r}
    BY <2>1, <2>5 DEF SeenLeads
  <2> QED BY <1>1, <2>1, <2>6, <2>7 DEF Route
<1> QED BY <1>1, <1>3, <1>4 DEF Settled

LEMMA LiveType == Cardinality(Live) \in Nat
<1>1. Live \subseteq Dial \cup Incoming
  BY DEF Live, Accepting, Call
<1> QED BY <1>1, RoutingAssumption, FS_Subset, FS_CardinalityType

LEMMA TogetherStep ==
  ASSUME MAX_LIVE_CALLS <= 2, Inv, PinInv, [Next]_vars
  PROVE  Together'
<1> USE RoutingAssumption DEF Inv, CallsInv, CallsTypeOK, Call, Unsent,
                              Offers, PinInv, Placed, Together
<1>1. ASSUME NEW d \in Dial,
             \/ ReadAccepting(d) \/ ReserveOutgoing(d) \/ MakeCall(d)
             \/ NotConnected(d) \/ Delivered(d) \/ SendFails(d)
             \/ MakeCallReturns(d) \/ HangupRinging(d)
      PROVE  Together'
  <2>1. CASE ReadAccepting(d)
    BY <2>1 DEF ReadAccepting
  <2>2. CASE ReserveOutgoing(d)
    <3>1. CASE Cardinality(Live) >= MAX_LIVE_CALLS
      <4>1. /\ place' = [place EXCEPT ![d] = "none"] /\ place[d] = "reading"
            /\ seen' = [seen EXCEPT ![d] = {}]
            /\ UNCHANGED <<req, todo, route, via, pin, settled, held>>
        BY <2>2, <3>1 DEF ReserveOutgoing
      <4> QED BY <4>1
    <3>2. CASE ~(Cardinality(Live) >= MAX_LIVE_CALLS)
      <4>1. PICK r \in Pins(d) : pin' = [pin EXCEPT ![d] = r]
        BY <2>2, <3>2 DEF ReserveOutgoing
      <4>2. PICK e \in IF Settled(d) = {} THEN {None} ELSE Settled(d) :
              settled' = [settled EXCEPT ![d] = e]
        BY <2>2, <3>2 DEF ReserveOutgoing
      <4>3. /\ place' = [place EXCEPT ![d] = "ringing"] /\ place[d] = "reading"
            /\ req' = [req EXCEPT ![d] = "reserved"] /\ held' = held
        BY <2>2, <3>2 DEF ReserveOutgoing
      <4>4. e \in Call => /\ e # d /\ r # None /\ (r = Base \/ held[e] = {r})
                          /\ e \in Dial => req[e] \in {"sent", "done"}
        <5>1. Cardinality(Live) < MAX_LIVE_CALLS
          BY <3>2, LiveType
        <5> QED BY <4>2, <4>3, <5>1, PinnedTo
      <4>5. ASSUME NEW f \in Dial, NEW c \in Call, settled'[f] = c,
                   place'[f] \in {"ringing", "connected"}, place'[c] # "gone"
            PROVE  /\ pin'[f] # None /\ (pin'[f] = Base \/ held'[c] = {pin'[f]})
                   /\ c \in Dial => req'[c] \in {"sent", "done"}
        <5>1. CASE f = d
          BY <4>1, <4>2, <4>3, <4>4, <4>5, <5>1
        <5>2. CASE f # d
          BY <4>1, <4>2, <4>3, <4>5, <5>2
        <5> QED BY <5>1, <5>2
      <4> QED BY <4>5
    <3> QED BY <3>1, <3>2
  <2>3. CASE MakeCall(d)
    BY <2>3 DEF MakeCall, Placement
  <2>4. CASE NotConnected(d)
    <3>1. CASE todo[d] = <<>>
      <4>1. DialFails(d) /\ UNCHANGED <<via, seen>>
        BY <2>4, <3>1 DEF NotConnected
      <4>2. /\ place'[d] = "gone" /\ req'[d] = "none" /\ pin'[d] = None
            /\ \A c \in Call \ {d} :
                 /\ place'[c] = place[c] /\ req'[c] = req[c] /\ todo'[c] = todo[c]
                 /\ route'[c] = route[c] /\ pin'[c] = pin[c] /\ held'[c] = held[c]
                 /\ settled'[c] = settled[c]
        BY <4>1, FailedDialAlone
      <4>3. ASSUME NEW f \in Dial, NEW c \in Call, settled'[f] = c,
                   place'[f] \in {"ringing", "connected"}, place'[c] # "gone"
            PROVE  /\ pin'[f] # None /\ (pin'[f] = Base \/ held'[c] = {pin'[f]})
                   /\ c \in Dial => req'[c] \in {"sent", "done"}
        <5>1. f \in Call \ {d} /\ c \in Call \ {d}
          BY <4>2, <4>3
        <5>2. /\ settled[f] = c /\ place[f] \in {"ringing", "connected"} /\ place[c] # "gone"
              /\ pin'[f] = pin[f] /\ held'[c] = held[c] /\ req'[c] = req[c]
          BY <4>2, <4>3, <5>1
        <5> QED BY <5>2
      <4> QED BY <4>3
    <3>2. CASE todo[d] # <<>>
      BY <2>4, <3>2 DEF NotConnected, NextRoute
    <3> QED BY <3>1, <3>2
  <2>5. CASE Delivered(d)
    BY <2>5 DEF Delivered
  <2>6. CASE SendFails(d)
    BY <2>6 DEF SendFails, DialFails
  <2>7. CASE MakeCallReturns(d)
    BY <2>7 DEF MakeCallReturns
  <2>8. CASE HangupRinging(d)
    BY <2>8 DEF HangupRinging
  <2> QED BY <1>1, <2>1, <2>2, <2>3, <2>4, <2>5, <2>6, <2>7, <2>8
<1>2. ASSUME NEW c \in Incoming,
             \/ HandlePush(c) \/ ReserveAccept(c) \/ AnswerOffer(c)
             \/ AcceptFails(c) \/ Accepted(c)
      PROVE  Together'
  <2>1. CASE HandlePush(c)
    BY <2>1 DEF HandlePush
  <2>2. CASE ReserveAccept(c)
    BY <2>2 DEF ReserveAccept
  <2>3. CASE AnswerOffer(c)
    BY <2>3 DEF AnswerOffer
  <2>4. CASE AcceptFails(c)
    BY <2>4 DEF AcceptFails
  <2>5. CASE Accepted(c)
    BY <2>5 DEF Accepted
  <2> QED BY <1>2, <2>1, <2>2, <2>3, <2>4, <2>5
<1>3. ASSUME NEW c \in Call,
             Ends(c)
      PROVE  Together'
  <2>1. CASE Ends(c)
    BY <2>1 DEF Ends
  <2> QED BY <1>3, <2>1
<1>4. CASE Resolves
  BY <1>4 DEF Resolves, calls
<1>5. CASE UNCHANGED vars
  BY <1>5 DEF vars, calls
<1> QED BY <1>1, <1>2, <1>3, <1>4, <1>5 DEF Next

LEMMA PinInvariance == ASSUME MAX_LIVE_CALLS <= 2 PROVE Spec => [](Inv /\ PinInv)
<1>1. Inv /\ PinInv /\ [Next]_vars => PinInv'
  BY PlacedStep, SeenStep, TogetherStep DEF PinInv
<1> QED BY <1>1, InitInv, InitPin, NextInv, PTL DEF Spec

\* With the cap of two live calls, a call dialled while the other's instance
\* is certain is connected on that instance, whatever the list of routes has
\* become (live_call_route and accepting_routes).
THEOREM PinnedTogether == ASSUME MAX_LIVE_CALLS <= 2 PROVE Spec => []DialsTogether
<1>1. Inv /\ PinInv => DialsTogether
  <2> SUFFICES ASSUME Inv, PinInv, NEW d \in Dial, NEW c \in Call,
                      settled[d] = c, place[d] = "connected", place[c] = "connected",
                      pin[d] # Base
               PROVE  held[d] = held[c]
    BY DEF DialsTogether
  <2>1. pin[d] # None /\ held[c] = {pin[d]}
    BY DEF PinInv, Together
  <2>2. held[d] # {} /\ route[d] = pin[d] /\ route[d] \in Route
    BY <2>1 DEF PinInv, Placed
  <2>3. PICK i \in Instance : held[d] = {i} /\ i \in Reach(route[d])
    BY <2>1, <2>2 DEF Inv, CallsInv, OneInstance, Call
  <2> QED BY <2>1, <2>2, <2>3 DEF Reach
<1> QED BY <1>1, PinInvariance, PTL

=============================================================================
