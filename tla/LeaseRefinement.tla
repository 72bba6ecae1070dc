---------------------------- MODULE LeaseRefinement ----------------------------
(***************************************************************************)
(* LeaseGateway implements LeaseSpec.  Time, leases and consents are the   *)
(* clock, the table and the approvals; a request is open from its first    *)
(* step to the return of its answer, and given the row it was answered     *)
(* with.                                                                   *)
(***************************************************************************)
EXTENDS LeaseGateway

Given(r) == IF req[r].answer = "GRANTED" THEN req[r].seen.id ELSE 0

Promised == INSTANCE LeaseSpec WITH
    Requesters <- Requests, Wanted <- Scopes, Nothing <- NoScope,
    time <- now, leases <- db, consents <- asks,
    wants <- [r \in Requests |-> req[r].scope],
    given <- [r \in Requests |-> Given(r)],
    barred <- [r \in Requests |-> hist[r].revoked]

\* Every behaviour of the gateway, with its stale reads, late answers, races
\* and restarts, looks from outside like one of LeaseSpec: each lease on a
\* consent of its own, none ended early, none granted that was taken back
\* before the request, none granted that is over or somebody else's.
Implements == Promised!LSpec
=============================================================================
