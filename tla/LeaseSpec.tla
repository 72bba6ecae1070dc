------------------------------- MODULE LeaseSpec -------------------------------
(***************************************************************************)
(* What a caller of the lease gateway, and the user who approves, may rely *)
(* on, without tables, reads, checks or channels: leases are issued on     *)
(* consents, taken back and ended, each in one atomic step, and a request  *)
(* that is granted is given one of them.  LeaseRefinement shows that       *)
(* LeaseGateway implements it.                                             *)
(*                                                                         *)
(* It does not promise that a session is ever refused: the rules on        *)
(* holders are properties of LeaseGateway (see its section Properties).    *)
(***************************************************************************)
EXTENDS Integers, Sequences

CONSTANTS
    Requesters,   \* those who may have a request open
    Wanted,       \* what may be requested: records as in LeaseGateway
    Nothing       \* what a requester without a request wants

VARIABLES
    time,
    leases,       \* the leases issued so far
    consents,     \* the consents asked for so far
    wants,        \* what each requester has requested
    given,        \* the lease a request was granted, 0 when none
    barred        \* the leases taken back before the request was opened

lvars == <<time, leases, consents, wants, given, barred>>

LInit ==
    /\ time = 0 /\ leases = <<>> /\ consents = <<>>
    /\ wants = [r \in Requesters |-> Nothing]
    /\ given = [r \in Requesters |-> 0]
    /\ barred = [r \in Requesters |-> {}]

LeaseIds == DOMAIN leases
TakenBack == {i \in LeaseIds : leases[i].status = "REVOKED"}

\* The lease serves the request: it is bound to the requester, covers the
\* action and has time left.
Serves(l, s) ==
    /\ l.instance = s.instance /\ l.session = s.session
    /\ l.target = s.target /\ s.action \in l.actions
    /\ time < l.expires

\* A consent is for one lease: of that capsule, target, action and length.
ConsentsTo(k, s) ==
    /\ consents[k] = [capsule |-> s.capsule, target |-> s.target,
                      action |-> s.action, ttl |-> s.ttl, decision |-> "allowed"]
    /\ \A i \in LeaseIds : leases[i].ask # k

IssuedTo(s, k) ==
    [capsule |-> s.capsule, instance |-> s.instance, session |-> s.session,
     target |-> s.target, actions |-> {s.action}, expires |-> time + s.ttl,
     status |-> "ACTIVE", ask |-> k]

Open(r, s) ==
    /\ wants[r] = Nothing
    /\ wants' = [wants EXCEPT ![r] = s]
    /\ barred' = [barred EXCEPT ![r] = TakenBack]
    /\ UNCHANGED <<time, leases, consents, given>>

\* A lease that is there already; never one taken back before the request.
GiveHeld(r, i) ==
    /\ wants[r] # Nothing /\ given[r] = 0
    /\ i \notin barred[r] /\ Serves(leases[i], wants[r])
    /\ given' = [given EXCEPT ![r] = i]
    /\ UNCHANGED <<time, leases, consents, wants, barred>>

\* A new one, on a consent to exactly what was requested.
GiveNew(r, k) ==
    /\ wants[r] # Nothing /\ given[r] = 0
    /\ ConsentsTo(k, wants[r])
    /\ leases' = Append(leases, IssuedTo(wants[r], k))
    /\ given' = [given EXCEPT ![r] = Len(leases')]
    /\ UNCHANGED <<time, consents, wants, barred>>

\* Answered, granted or not; or all at once, when the service stops.
Close(R) ==
    /\ wants' = [r \in Requesters |-> IF r \in R THEN Nothing ELSE wants[r]]
    /\ given' = [r \in Requesters |-> IF r \in R THEN 0 ELSE given[r]]
    /\ barred' = [r \in Requesters |-> IF r \in R THEN {} ELSE barred[r]]
    /\ UNCHANGED <<time, leases, consents>>

AskConsent(s) ==
    /\ \E r \in Requesters : wants[r] = s
    /\ consents' = Append(consents,
          [capsule |-> s.capsule, target |-> s.target, action |-> s.action,
           ttl |-> s.ttl, decision |-> "pending"])
    /\ UNCHANGED <<time, leases, wants, given, barred>>

Consent(k) ==
    /\ consents[k].decision = "pending"
    /\ \E d \in {"allowed", "refused"} :
          consents' = [consents EXCEPT ![k].decision = d]
    /\ UNCHANGED <<time, leases, wants, given, barred>>

Marked(i, st) == [leases[i] EXCEPT !.status = st]

\* Any of the leases at once, whatever their status; also none.
TakeBack ==
    /\ DOMAIN leases' = LeaseIds
    /\ \A i \in LeaseIds : leases'[i] \in {leases[i], Marked(i, "REVOKED")}
    /\ UNCHANGED <<time, consents, wants, given, barred>>

\* Only a lease whose time is over is ended.
End(i) ==
    /\ leases[i].expires <= time
    /\ leases' = [leases EXCEPT ![i] = Marked(i, "EXPIRED")]
    /\ UNCHANGED <<time, consents, wants, given, barred>>

Pass == time' = time + 1 /\ UNCHANGED <<leases, consents, wants, given, barred>>

LNext ==
    \/ TakeBack
    \/ \E r \in Requesters :
          \/ \E s \in Wanted : Open(r, s)
          \/ \E i \in LeaseIds : GiveHeld(r, i)
          \/ \E k \in DOMAIN consents : GiveNew(r, k)
    \/ \E R \in SUBSET Requesters : Close(R)
    \/ \E s \in Wanted : AskConsent(s)
    \/ \E k \in DOMAIN consents : Consent(k)
    \/ \E i \in LeaseIds : End(i)
    \/ Pass

LSpec == LInit /\ [][LNext]_lvars
=============================================================================
