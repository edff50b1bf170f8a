------------------------------ MODULE Resolver ------------------------------
(***************************************************************************)
(* How the gateway's failover list is found: the SRV resolver of           *)
(* src/src/dns.rs with its cache, and GatewayClient::resolve_gateway, which *)
(* register_device calls.  DNS itself is outside the repository: a zone is *)
(* what it would answer now, and it may change at any time.                *)
(*                                                                         *)
(* Time is counted in units of the cache's TTLs: both are constants, and   *)
(* one Tick moves every time passed and every time left by one.            *)
(***************************************************************************)
EXTENDS Naturals, Sequences, FiniteSets

CONSTANTS Instance,  \* the addresses of gateway instances
          Zones,     \* what DNS may answer for the gateway's domain
          SRV_TTL,   \* how long an SRV answer is cached (300 s)
          A_TTL,     \* how long an A/AAAA answer is cached (120 s)
          CHANGES    \* bound: how often DNS changes

\* A zone has the SRV records (each names an instance), how the host of each
\* instance resolves, and the A/AAAA addresses of the domain itself.
Records == [instance : Instance, priority : Nat, weight : Nat]

ASSUME ZonesAssumption ==
  \A z \in Zones : /\ z.srv \subseteq Records /\ IsFiniteSet(z.srv)
                   /\ z.host \in [Instance -> {"resolves", "fails", "slow"}]
                   /\ z.a \in Seq(Instance)
ASSUME TtlAssumption == SRV_TTL \in Nat /\ A_TTL \in 0 .. SRV_TTL /\ CHANGES \in Nat

VARIABLES
  zone,      \* what DNS answers now
  since,     \* how long ago it last answered each zone, up to a bound
  changes,   \* how often it will still change
  cache,     \* SrvResolver.cache: the domain's targets and their time left
  register,  \* where register_device is
  targets    \* GatewayClient.resolved_targets; <<>> until resolved

resolving == <<zone, since, changes, cache, register, targets>>

OLD == SRV_TTL  \* a time past which nothing distinguishes two times

\* (By priority, then the heavier first.)
Before(r, s) == \/ r.priority < s.priority
                \/ r.priority = s.priority /\ r.weight >= s.weight

\* The orders sort_by can leave the records with a resolvable host in:
\* records that compare equal stay as DNS returned them.
Sorted(z) ==
  LET found == {r \in z.srv : z.host[r.instance] = "resolves"}
      places == 1 .. Cardinality(found)
  IN {s \in [places -> found] :
        /\ \A i, j \in places : i < j => s[i] # s[j] /\ Before(s[i], s[j])}

\* A target whose address is slow to come takes the whole lookup past its
\* timeout, which is no longer than its own.
lookup_srv(z) ==
  IF \E r \in z.srv : z.host[r.instance] = "slow" THEN {<<>>}
  ELSE {[i \in DOMAIN s |-> s[i].instance] : s \in Sorted(z)}

\* What resolve_sip_server finds in a zone, and for how long it keeps it.
\* Nothing is kept when it finds nothing.
Found(z) ==
  {[to |-> s, left |-> SRV_TTL] : s \in lookup_srv(z) \ {<<>>}}
  \cup (IF <<>> \in lookup_srv(z) THEN {[to |-> z.a, left |-> A_TTL]} ELSE {})

ResolverTypeOK ==
  /\ zone \in Zones /\ since \in [Zones -> 0 .. OLD] /\ changes \in 0 .. CHANGES
  /\ cache.to \in Seq(Instance) /\ cache.left \in 0 .. SRV_TTL
  /\ register \in {"idle", "looking", "resolved"}
  /\ targets \in Seq(Instance)

ResolverInit ==
  /\ zone \in Zones /\ changes = CHANGES
  /\ since = [z \in Zones |-> IF z = zone THEN 0 ELSE OLD]
  /\ cache = [to |-> <<>>, left |-> 0]
  /\ register = "idle" /\ targets = <<>>

-----------------------------------------------------------------------------
(* DNS and time. *)

ZoneChanges ==
  /\ changes > 0 /\ changes' = changes - 1
  /\ zone' \in Zones \ {zone}
  /\ since' = [since EXCEPT ![zone'] = 0]
  /\ UNCHANGED <<cache, register, targets>>

Less(n) == IF n = 0 THEN 0 ELSE n - 1

Tick ==
  /\ cache.left > 0 \/ \E z \in Zones \ {zone} : since[z] < OLD
  /\ since' = [z \in Zones |-> IF z = zone \/ since[z] = OLD THEN since[z] ELSE since[z] + 1]
  /\ cache' = [cache EXCEPT !.left = Less(@)]
  /\ UNCHANGED <<zone, changes, register, targets>>

-----------------------------------------------------------------------------
(* register_device resolves the gateway before its request. *)

\* Mutant: an entry is used for as long as it is there.
mut_Cached == cache.to # <<>>

Cached == cache.left > 0

ResolveFromCache ==
  /\ register = "idle" /\ Cached
  /\ register' = "resolved"
  /\ targets' = cache.to
  /\ UNCHANGED <<zone, since, changes, cache>>

ResolveLooks ==
  /\ register = "idle" /\ ~Cached
  /\ register' = "looking"
  /\ UNCHANGED <<zone, since, changes, cache, targets>>

\* A lookup that finds nothing leaves the list as it was.
ResolveFinds ==
  /\ register = "looking" /\ register' = "resolved"
  /\ \E found \in Found(zone) :
       IF found.to = <<>> THEN UNCHANGED <<cache, targets>>
                          ELSE cache' = found /\ targets' = found.to
  /\ UNCHANGED <<zone, since, changes>>

\* The registration itself is in module Session.
Registers ==
  /\ register = "resolved" /\ register' = "idle"
  /\ UNCHANGED <<zone, since, changes, cache, targets>>

ResolverNext ==
  \/ ResolveFromCache \/ ResolveLooks \/ ResolveFinds \/ Registers
  \/ ZoneChanges \/ Tick

\* A registration sends its request, and every call after it, to what DNS
\* answers now or answered less than that answer's lifetime ago (SRV answers
\* are trusted for SRV_TTL; A/AAAA answers, which hide the SRV records, only
\* for A_TTL).  Only a lookup that finds nothing leaves the list as it was.
Recently(list) ==
  \E z \in Zones : \E found \in Found(z) :
    found.to = list /\ (z = zone \/ since[z] < found.left)
TargetsAreRecent ==
  [][register # "resolved" /\ register' = "resolved" =>
       \/ Recently(targets')
       \/ /\ register = "looking" /\ \E found \in Found(zone) : found.to = <<>>
          /\ UNCHANGED targets]_resolving
=============================================================================
