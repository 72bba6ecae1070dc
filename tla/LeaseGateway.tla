----------------------------- MODULE LeaseGateway -----------------------------
(***************************************************************************)
(* Capability leases of the dsh-capsule runtime: LeaseGateway.request      *)
(* (lease/gateway.py) with the LeaseService and the SQLite LeaseStore it   *)
(* reads and writes, the approval channel to the host, the capsulectl      *)
(* process that revokes leases in the same database, the clock, and a      *)
(* restart of the runtime over the persisted rows.                         *)
(*                                                                         *)
(* A request is a coroutine.  Between two awaits it is atomic; at an await *)
(* other requests, the host and capsulectl (another process) may run.  So  *)
(* a row is read in one step and judged, against the clock of that moment, *)
(* in a later one, with the status it had when it was read.                *)
(*                                                                         *)
(* Provider and resource always travel together and are one "target" here. *)
(* A row's id is its place in db: rows are only appended, in the order of  *)
(* issued_at (one clock, one database thread), and never deleted.          *)
(***************************************************************************)
EXTENDS Integers, Sequences, FiniteSets

CONSTANTS
    Requests,     \* slots for requests in progress; a slot is reused
    Scopes,       \* what may be asked for, see ScopeType
    NoScope,      \* the scope of an idle slot
    Malformed,    \* targets that CapabilityLease refuses (no ":" in resource)
    MaxTTL,       \* MAX_TTL_SECONDS
    MaxTime,      \* bound on the clock
    MaxAsks       \* bound on the approvals asked for

ASSUME TimeAssumption == MaxTTL \in Nat /\ MaxTime \in Nat /\ MaxAsks \in Nat

ASSUME ScopesAssumption ==
    /\ NoScope \notin Scopes
    /\ \A s \in Scopes :
          s = [capsule |-> s.capsule, instance |-> s.instance,
               session |-> s.session, target |-> s.target,
               action |-> s.action, ttl |-> s.ttl]
    /\ \A s \in Scopes : s.ttl \in Int

VARIABLES
    now,      \* time.time(), in the unit of ttl
    db,       \* the leases table, oldest row first
    asks,     \* every approval asked of the host, with its decision
    req,      \* the request in each slot
    hist      \* per slot, what was revoked when its request began (history)

vars == <<now, db, asks, req, hist>>

Capsules  == {s.capsule : s \in Scopes}
Instances == {s.instance : s \in Scopes}
Sessions  == {s.session : s \in Scopes}
Targets   == {s.target : s \in Scopes}
Actions   == {s.action : s \in Scopes}

Status == {"ACTIVE", "REVOKED", "EXPIRED"}

\* A row keeps, besides its columns, the approval it was issued on (history).
RowType == [capsule : Capsules, instance : Instances, session : Sessions,
            target : Targets, actions : SUBSET Actions, expires : Int,
            status : Status, ask : Nat]

AskType == [capsule : Capsules, target : Targets, action : Actions, ttl : Int,
            decision : {"pending", "allowed", "refused"}]

\* What a read of the table returned: a row and the status it had then.  The
\* other columns of a row never change.
SeenType == [id : Nat, status : Status \cup {"NONE"}]
NoRow    == [id |-> 0, status |-> "NONE"]

Refusals == {"LEASE_REJECTED", "LEASE_REVOKED", "LEASE_SESSION_MISMATCH",
             "LEASE_CAPSULE_MISMATCH", "INVALID_RESOURCE"}
Answers  == {"none", "GRANTED"} \cup Refusals
Phases   == {"idle", "find", "matched", "expire", "block", "latest",
             "approval", "answered"}

ReqType == [pc : Phases, scope : Scopes \cup {NoScope}, seen : SeenType,
            ask : Nat, answer : Answers]
Idle    == [pc |-> "idle", scope |-> NoScope, seen |-> NoRow, ask |-> 0,
            answer |-> "none"]

HistType == [revoked : SUBSET Nat, blocker : Nat]
NoHist   == [revoked |-> {}, blocker |-> 0]

-----------------------------------------------------------------------------
(* The table *)

Ids == DOMAIN db

\* find_matching and find_for_resource: the rows each query selects.
KeyRows(s) == {i \in Ids : /\ db[i].instance = s.instance
                           /\ db[i].session = s.session
                           /\ db[i].target = s.target}
TargetRows(t) == {i \in Ids : db[i].target = t}

\* Slip: ORDER BY issued_at, without DESC.
OldestFirst(I) == {i \in I : \A j \in I : i <= j}
\* ORDER BY issued_at DESC LIMIT 1
Newest(I) == {i \in I : \A j \in I : j <= i}
Snapshots(I) == IF I = {} THEN {NoRow}
                ELSE {[id |-> i, status |-> db[i].status] : i \in Newest(I)}

\* Slip: the last instant of a lease counted as inside it.
UnexpiredInclusive(i) == now <= db[i].expires
Unexpired(i) == now < db[i].expires
Live(i)      == db[i].status = "ACTIVE" /\ Unexpired(i)

SetStatus(I, st) == [i \in Ids |-> IF i \in I THEN [db[i] EXCEPT !.status = st]
                                   ELSE db[i]]

\* Slip: the longest ttl instead of the one that was approved.
NewRowLongest(s, a) ==
    [capsule |-> s.capsule, instance |-> s.instance, session |-> s.session,
     target |-> s.target, actions |-> {s.action}, expires |-> now + MaxTTL,
     status |-> "ACTIVE", ask |-> a]

NewRow(s, a) == [capsule |-> s.capsule, instance |-> s.instance,
                 session |-> s.session, target |-> s.target,
                 actions |-> {s.action}, expires |-> now + s.ttl,
                 status |-> "ACTIVE", ask |-> a]

\* The parameters of host.approval.request_lease: neither session nor instance.
NewAsk(s) == [capsule |-> s.capsule, target |-> s.target, action |-> s.action,
              ttl |-> s.ttl, decision |-> "pending"]

-----------------------------------------------------------------------------
(* The conditions of LeaseGateway.request *)

ValidTTL(s) == s.ttl > 0 /\ s.ttl <= MaxTTL

\* Slip: only EXPIRED rows are left out of the reuse.
SeenNotExpired(q) == q.seen.status \in {"ACTIVE", "REVOKED"}
\* Slip: a lease is marked as expired one unit early, to allow for clock skew.
LapsedSeenEarly(q) == q.seen.status = "ACTIVE" /\ now + 1 >= db[q.seen.id].expires

\* find_matching_lease, on the row the key query returned
SeenActive(q)  == q.seen.status = "ACTIVE"
LapsedSeen(q)  == SeenActive(q) /\ ~Unexpired(q.seen.id)
MatchedSeen(q) == SeenActive(q) /\ Unexpired(q.seen.id)
Covers(q)      == q.scope.action \in db[q.seen.id].actions

\* Slip: a revoked lease blocks the instance it was bound to only.
RevokedHereSameInstance(q) ==
    /\ q.seen.status = "REVOKED"
    /\ db[q.seen.id].session = q.scope.session
    /\ db[q.seen.id].instance = q.scope.instance
\* Slip: the other session is found by its instance.
HeldByOtherSessionAndInstance(q) ==
    /\ q.seen.status = "ACTIVE" /\ now < db[q.seen.id].expires
    /\ db[q.seen.id].session # q.scope.session
    /\ db[q.seen.id].instance # q.scope.instance
\* Slip: the other holder is told by its capsule, as the error code suggests.
HeldByOtherCapsule(q) ==
    /\ q.seen.status = "ACTIVE" /\ now < db[q.seen.id].expires
    /\ db[q.seen.id].session = q.scope.session
    /\ db[q.seen.id].capsule # q.scope.capsule
\* the block checks, on the newest row of the target
RevokedHere(q) == q.seen.status = "REVOKED" /\ db[q.seen.id].session = q.scope.session
HeldByOtherSession(q) ==
    SeenActive(q) /\ Unexpired(q.seen.id) /\ db[q.seen.id].session # q.scope.session
HeldByOtherInstance(q) ==
    /\ SeenActive(q) /\ Unexpired(q.seen.id)
    /\ db[q.seen.id].session = q.scope.session
    /\ db[q.seen.id].instance # q.scope.instance
Blocked(q) == RevokedHere(q) \/ HeldByOtherSession(q) \/ HeldByOtherInstance(q)

\* Slip: the answer is looked up by what was asked, not by the call's id.
AllowedByScope(q) ==
    \E k \in DOMAIN asks : [asks[k] EXCEPT !.decision = "pending"] = NewAsk(q.scope)
                           /\ asks[k].decision = "allowed"

\* decision == "allowed-once" in the answer to this request's own call
Allowed(q) == asks[q.ask].decision = "allowed"

-----------------------------------------------------------------------------
(* Steps of a request *)

Init ==
    /\ now = 0
    /\ db = <<>>
    /\ asks = <<>>
    /\ req = [r \in Requests |-> Idle]
    /\ hist = [r \in Requests |-> NoHist]

At(r, pc) == req[r].pc = pc
Becomes(r, q) == req' = [req EXCEPT ![r] = q]
Goto(r, pc) == Becomes(r, [req[r] EXCEPT !.pc = pc])
Answer(r, a) == Becomes(r, [req[r] EXCEPT !.pc = "answered", !.answer = a])
Revoked == {i \in Ids : db[i].status = "REVOKED"}

\* The request arrives; an invalid ttl is refused before anything is read.  A
\* request whose parameters have the wrong types gets an error (-32602) before
\* the gateway is entered, and leaves no trace; it is left out.
\* MaxAsks leaves room for every request in progress to ask once.
Begin(r, s) ==
    /\ At(r, "idle")
    /\ Len(asks) + Cardinality({p \in Requests : ~At(p, "idle")}) < MaxAsks
    /\ Becomes(r, IF ValidTTL(s) THEN [Idle EXCEPT !.pc = "find", !.scope = s]
                  ELSE [Idle EXCEPT !.pc = "answered", !.scope = s,
                                    !.answer = "LEASE_REJECTED"])
    /\ \E top \in Snapshots(TargetRows(s.target)) :
          hist' = [hist EXCEPT ![r] =
             [revoked |-> Revoked,
              blocker |-> IF top.status = "REVOKED" /\ db[top.id].session = s.session
                          THEN top.id ELSE 0]]
    /\ UNCHANGED <<now, db, asks>>

FindRead(r) ==
    /\ At(r, "find")
    /\ \E row \in Snapshots(KeyRows(req[r].scope)) :
          Becomes(r, [req[r] EXCEPT !.pc = "matched", !.seen = row])
    /\ UNCHANGED <<now, db, asks, hist>>

Reuse(r) ==
    /\ At(r, "matched")
    /\ MatchedSeen(req[r]) /\ Covers(req[r])
    /\ Answer(r, "GRANTED")
    /\ UNCHANGED <<now, db, asks, hist>>

Miss(r) ==
    /\ At(r, "matched")
    /\ \/ ~SeenActive(req[r])
       \/ MatchedSeen(req[r]) /\ ~Covers(req[r])
    /\ Goto(r, "block")
    /\ UNCHANGED <<now, db, asks, hist>>

Lapse(r) ==
    /\ At(r, "matched")
    /\ LapsedSeen(req[r])
    /\ Goto(r, "expire")
    /\ UNCHANGED <<now, db, asks, hist>>

\* Slip: the reason of update_status passed as the status.
MarkReason(r) ==
    /\ At(r, "expire")
    /\ db' = SetStatus({req[r].seen.id}, "expired on lookup")
    /\ Goto(r, "block")
    /\ UNCHANGED <<now, asks, hist>>

\* update_status does not look at the status it overwrites.
MarkExpired(r) ==
    /\ At(r, "expire")
    /\ db' = SetStatus({req[r].seen.id}, "EXPIRED")
    /\ Goto(r, "block")
    /\ UNCHANGED <<now, asks, hist>>

BlockRead(r) ==
    /\ At(r, "block")
    /\ \E row \in Snapshots(TargetRows(req[r].scope.target)) :
          Becomes(r, [req[r] EXCEPT !.pc = "latest", !.seen = row])
    /\ UNCHANGED <<now, db, asks, hist>>

Refuse(r) ==
    /\ At(r, "latest")
    /\ \/ RevokedHere(req[r]) /\ Answer(r, "LEASE_REVOKED")
       \/ HeldByOtherSession(req[r]) /\ Answer(r, "LEASE_SESSION_MISMATCH")
       \/ HeldByOtherInstance(req[r]) /\ Answer(r, "LEASE_CAPSULE_MISMATCH")
    /\ UNCHANGED <<now, db, asks, hist>>

Ask(r) ==
    /\ At(r, "latest")
    /\ ~Blocked(req[r])
    /\ asks' = Append(asks, NewAsk(req[r].scope))
    /\ Becomes(r, [req[r] EXCEPT !.pc = "approval", !.ask = Len(asks) + 1])
    /\ UNCHANGED <<now, db, hist>>

\* The answer is taken and the lease issued without an await in between.  A
\* malformed resource is only noticed when the lease object is built.
Issue(r) ==
    /\ At(r, "approval")
    /\ Allowed(req[r])
    /\ \/ /\ req[r].scope.target \in Malformed
          /\ Answer(r, "INVALID_RESOURCE")
          /\ UNCHANGED db
       \/ /\ req[r].scope.target \notin Malformed
          /\ db' = Append(db, NewRow(req[r].scope, req[r].ask))
          /\ Becomes(r, [req[r] EXCEPT !.pc = "answered", !.answer = "GRANTED",
                            !.seen = [id |-> Len(db) + 1, status |-> "ACTIVE"]])
    /\ UNCHANGED <<now, asks, hist>>

\* Slip: call awaits the future without wait_for.
RejectDecided(r) ==
    /\ At(r, "approval")
    /\ asks[req[r].ask].decision # "pending"
    /\ Answer(r, "LEASE_REJECTED")
    /\ UNCHANGED <<now, db, asks, hist>>

\* Any other decision, an error on the channel, or no decision in time: the
\* host may be about to answer, or its answer on its way, and nobody reads it.
Reject(r) ==
    /\ At(r, "approval")
    /\ Answer(r, "LEASE_REJECTED")
    /\ UNCHANGED <<now, db, asks, hist>>

\* The caller has its answer.
Return(r) ==
    /\ At(r, "answered")
    /\ Becomes(r, Idle)
    /\ hist' = [hist EXCEPT ![r] = NoHist]
    /\ UNCHANGED <<now, db, asks>>

-----------------------------------------------------------------------------
(* The host, capsulectl, the clock and the process *)

Decide(k) ==
    /\ k \in DOMAIN asks
    /\ asks[k].decision = "pending"
    /\ \E d \in {"allowed", "refused"} : asks' = [asks EXCEPT ![k].decision = d]
    /\ UNCHANGED <<now, db, req, hist>>

\* capsulectl revoke: whatever the status of the row
Revoke(i) ==
    /\ i \in Ids
    /\ db' = SetStatus({i}, "REVOKED")
    /\ UNCHANGED <<now, asks, req, hist>>

ActiveRows == {i \in Ids : db[i].status = "ACTIVE"}

\* capsulectl revoke-session and revoke-capsule: the ACTIVE rows only
RevokeSession(ses) ==
    /\ db' = SetStatus({i \in ActiveRows : db[i].session = ses}, "REVOKED")
    /\ UNCHANGED <<now, asks, req, hist>>

RevokeCapsule(c) ==
    /\ db' = SetStatus({i \in ActiveRows : db[i].capsule = c}, "REVOKED")
    /\ UNCHANGED <<now, asks, req, hist>>

Tick ==
    /\ now < MaxTime
    /\ now' = now + 1
    /\ UNCHANGED <<db, asks, req, hist>>

\* The runtime exits and comes back: the requests are gone, the rows are not.
Restart ==
    /\ req' = [r \in Requests |-> Idle]
    /\ hist' = [r \in Requests |-> NoHist]
    /\ UNCHANGED <<now, db, asks>>

\* What the event loop runs for a request once it has begun.
Run(r) ==
    \/ FindRead(r) \/ Reuse(r) \/ Miss(r) \/ Lapse(r) \/ MarkExpired(r)
    \/ BlockRead(r) \/ Refuse(r) \/ Ask(r) \/ Issue(r) \/ Reject(r)

Next ==
    \/ \E r \in Requests : Run(r) \/ Return(r) \/ \E s \in Scopes : Begin(r, s)
    \/ \E k \in DOMAIN asks : Decide(k)
    \/ \E i \in Ids : Revoke(i)
    \/ \E ses \in Sessions : RevokeSession(ses)
    \/ \E c \in Capsules : RevokeCapsule(c)
    \/ Tick
    \/ Restart

Spec == Init /\ [][Next]_vars

-----------------------------------------------------------------------------
(* Properties *)

\* Types of the variables; a row or an ask that a slot refers to exists.
TypeOK ==
    /\ now \in Nat
    /\ db \in Seq(RowType)
    /\ asks \in Seq(AskType)
    /\ req \in [Requests -> ReqType]
    /\ hist \in [Requests -> HistType]

\* One-shot approval (ApprovalClient.request_lease, then issue): every lease
\* was issued on an approval the host allowed for exactly its capsule, target
\* and action, lives no longer than the ttl the host saw, and no approval
\* serves two leases, whatever the requests, late answers and restarts did.
OneShotApproval ==
    /\ \A i \in Ids :
          /\ db[i].ask \in DOMAIN asks
          /\ LET a == asks[db[i].ask]
             IN  /\ a.decision = "allowed"
                 /\ a.capsule = db[i].capsule /\ a.target = db[i].target
                 /\ db[i].actions = {a.action}
                 /\ db[i].expires <= now + a.ttl
    /\ \A i, j \in Ids : db[i].ask = db[j].ask => i = j

\* Revocation works by the next request (gateway.py:14, capsulectl): a request
\* that begins after a lease was revoked is never granted that lease, even
\* when a stale "expire" overwrites the revocation while it runs.
NoGrantAfterRevoke ==
    \A r \in Requests :
        req[r].answer = "GRANTED" => req[r].seen.id \notin hist[r].revoked

\* find_matching_lease writes EXPIRED on a status it read some time ago; it
\* only ever does so to a lease whose time is over.
ExpiredIsPast ==
    \A i \in Ids : db[i].status = "EXPIRED" => db[i].expires <= now

\* At most one (instance, session) holds live leases on a target: the binding
\* that the block checks of LeaseGateway.request defend (gateway.py:14-16).
SameHolder(i, j) == /\ db[i].session = db[j].session
                    /\ db[i].instance = db[j].instance
Exclusive(t) == \A i, j \in TargetRows(t) : Live(i) /\ Live(j) => SameHolder(i, j)
ExclusiveHolder == \A t \in Targets : Exclusive(t)

Grants(r)  == req[r].answer # "GRANTED" /\ req'[r].answer = "GRANTED"
IssuesFor(r) == Grants(r) /\ db' # db

\* LeaseGateway.request returns a lease of exactly the instance, session and
\* target that asked, that covers the action and is not over at that moment.
GrantIsLive ==
    [][\A r \in Requests : Grants(r) =>
          LET s == req[r].scope  row == db'[req'[r].seen.id]
          IN  /\ row.instance = s.instance /\ row.session = s.session
              /\ row.target = s.target /\ s.action \in row.actions
              /\ now < row.expires]_vars

\* The row that the block checks judged never ends up overlapped by the lease
\* they let through, however long the approval took (gateway.py:23-32).
CheckedRowNotOverlapped ==
    [][\A r \in Requests : IssuesFor(r) /\ req[r].seen.id # 0 =>
          LET row == db[req[r].seen.id]
          IN  \/ row.status # "ACTIVE" \/ now >= row.expires
              \/ /\ row.session = req[r].scope.session
                 /\ row.instance = req[r].scope.instance]_vars

\* How a target gets a second holder: only by a lease that is issued past a live
\* one of another holder which was not the row the block checks read, that is,
\* one issued while the host was asked (no second look, gateway.py:31), or one
\* hidden by a newer row (the checks look at one row, gateway.py:23, db.py:75).
\* Revocations, lapses, restarts, late answers and reuse never lead there.
HeldBy(i, s) == db[i].session = s.session /\ db[i].instance = s.instance
ExclusiveUnlessUnseen ==
    [][\A t \in Targets : Exclusive(t) /\ ~Exclusive(t)' =>
          \E r \in Requests :
             /\ IssuesFor(r) /\ req[r].scope.target = t
             /\ \E i \in TargetRows(t) : /\ Live(i) /\ ~HeldBy(i, req[r].scope)
                                         /\ i # req[r].seen.id]_vars

\* If the newest lease on the target was a revoked one of the same session when
\* the request began, a new one is issued only when a newer lease appeared on
\* the target meanwhile, or the revoked lease would be over by now: nothing but
\* the stale "expire" of a lapsed lease lifts the block (gateway.py:24-25).
RevokedBlocksIssue ==
    [][\A r \in Requests : IssuesFor(r) /\ hist[r].blocker # 0 =>
          \/ \E i \in TargetRows(req[r].scope.target) : i > hist[r].blocker
          \/ now >= db[hist[r].blocker].expires]_vars

\* The host is asked only when the key holds no live lease for the action
\* (gateway.py:13, README:228 "reuse").
NoNeedlessPrompt ==
    [][\A r \in Requests : req[r].pc = "latest" /\ req'[r].pc = "approval" =>
          ~\E i \in KeyRows(req[r].scope) :
              Live(i) /\ req[r].scope.action \in db[i].actions]_vars
=============================================================================
