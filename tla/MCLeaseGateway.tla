---------------------------- MODULE MCLeaseGateway ----------------------------
(* Small instances of LeaseGateway for TLC: the scopes each run asks for.   *)
EXTENDS LeaseRefinement, TLC

CONSTANTS c1, c2, i1, i2, i3, s1, s2, t1, bad, rd, wr, p1, p2

MCScope(c, i, s, t, a, ttl) ==
    [capsule |-> c, instance |-> i, session |-> s, target |-> t,
     action |-> a, ttl |-> ttl]

\* Three holders of one target: two sessions on one instance, and a second
\* instance in the first session; one ttl is over soon, one later.
HolderScopes == {MCScope(c1, i1, s1, t1, rd, 1), MCScope(c1, i1, s2, t1, rd, 2),
                 MCScope(c1, i2, s1, t1, rd, 2)}

\* The same, and the first holder asks for a second action.
RaceScopes == HolderScopes \cup {MCScope(c1, i1, s1, t1, wr, 2)}

\* The holders, another capsule with an instance of its own, a malformed
\* target and ttls that are refused.
SerialScopes == HolderScopes
                \cup {MCScope(c2, i3, s2, t1, rd, 2), MCScope(c1, i1, s1, bad, rd, 1),
                      MCScope(c1, i1, s1, t1, rd, 0), MCScope(c1, i1, s1, t1, rd, 4)}

RivalScopes == {MCScope(c1, i1, s1, t1, rd, 2), MCScope(c2, i3, s2, t1, rd, 2)}

Slots == Permutations({p1, p2})
=============================================================================
