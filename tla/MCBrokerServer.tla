---------------------------- MODULE MCBrokerServer ----------------------------
(* Small instances of BrokerServer for TLC.                                 *)
EXTENDS BrokerServer, TLC

CONSTANTS c1, i1, s1, s2, t1, t2, rd, wr, g, h, bad, p1, p2

Cred(provider, actions, ttl) ==
    [provider |-> provider, actions |-> actions, ttl |-> ttl]
Declared(c, creds) == [capsule |-> c, creds |-> creds]
Sent(provider, target, action) ==
    [provider |-> provider, target |-> target, action |-> action]
MCScope(c, i, s, t, a, ttl) ==
    [capsule |-> c, instance |-> i, session |-> s, target |-> t,
     action |-> a, ttl |-> ttl]

BadCall == Sent(g, bad, bad)

\* For the interleavings of two connections of one instance: a provider with
\* an adapter and one without, a second session, an action not declared.
OneCapsule == i1 :> Declared(c1, <<Cred(g, {rd}, 1), Cred(h, {rd}, 1)>>)
OneCapsuleScopes == {MCScope(c1, i1, s, t, rd, 1) : s \in {s1, s2}, t \in {t1, t2}}
OneCapsuleParams == {Sent(g, t1, rd), Sent(g, t1, wr), Sent(h, t2, rd), BadCall}

\* The least that a lease needs to be taken back.
OneSession == i1 :> Declared(c1, <<Cred(g, {rd}, 2)>>)
OneSessionScopes == {MCScope(c1, i1, s1, t1, rd, 2)}
OneSessionParams == {Sent(g, t1, rd)}

BadCalls == {BadCall}
=============================================================================
