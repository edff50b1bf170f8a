----------------------------- MODULE MCResolver -----------------------------
EXTENDS Resolver

CONSTANTS h1, h2

rec(i, p, w) == [instance |-> i, priority |-> p, weight |-> w]

\* SRV with two priorities; two of one priority, one of them slow to
\* resolve; no answer.
MCZones ==
  {[srv |-> {rec(h1, 1, 5), rec(h2, 2, 9)}, host |-> [i \in Instance |-> "resolves"], a |-> <<h2>>],
   [srv |-> {rec(h1, 1, 5), rec(h2, 1, 5)},
    host |-> [i \in Instance |-> IF i = h1 THEN "slow" ELSE "resolves"], a |-> <<h2>>],
   [srv |-> {}, host |-> [i \in Instance |-> "fails"], a |-> <<>>]}

\* The resolver without the calls, for more changes of DNS.
ResolverSpec == ResolverInit /\ [][ResolverNext]_resolving
=============================================================================
