---------------------------- MODULE LeaseGrantProofs ----------------------------
(* Theorems about what a grant of LeaseGateway rests on: the action        *)
(* properties GrantIsLive, CheckedRowNotOverlapped, ExclusiveUnlessUnseen  *)
(* and RevokedBlocksIssue.                                                 *)
EXTENDS LeaseGatewayProofs

-----------------------------------------------------------------------------
(* The inductive invariant, on top of IInv *)

Judging(r) == req[r].pc \notin {"idle", "answered"}

\* The row that the block checks saw has not become worse since.
JudgedInv(r) ==
    LET q == req[r]  row == db[q.seen.id] IN
    /\ q.pc \in {"latest", "approval"} /\ q.seen.status \in {"REVOKED", "EXPIRED"} =>
          row.status # "ACTIVE"
    /\ q.pc = "approval" /\ q.seen.status # "NONE" =>
          \/ row.status # "ACTIVE" \/ row.expires <= now
          \/ row.session = q.scope.session /\ row.instance = q.scope.instance

\* The revoked lease that a request met at its beginning is still in its way,
\* unless its time is over or a newer row covers it up.
BlockerInv(r) ==
    LET q == req[r]  b == hist[r].blocker IN
    b # 0 /\ Judging(r) =>
       /\ b \in TargetRows(q.scope.target) /\ db[b].session = q.scope.session
       /\ db[b].status # "ACTIVE"
       /\ q.pc = "latest" =>
             /\ q.seen.status # "NONE" /\ b <= q.seen.id
             /\ q.seen.id = b => q.seen.status = "REVOKED" \/ db[b].expires <= now
       /\ q.pc = "approval" =>
             \/ \E i \in TargetRows(q.scope.target) : i > b
             \/ db[b].expires <= now

GrantInv(r) == /\ Judging(r) => ValidTTL(req[r].scope)
               /\ JudgedInv(r)
               /\ BlockerInv(r)

GInv == IInv /\ \A r \in Requests : GrantInv(r)

-----------------------------------------------------------------------------
(* One step *)

\* What the lemmas below need of the state and of the rows.
LEMMA RowFacts ==
    ASSUME TypeInv, Next
    PROVE  /\ Monotone /\ now \in Nat /\ now' \in Nat /\ db \in Seq(RowType)
           /\ req \in [Requests -> ReqType] /\ hist \in [Requests -> HistType]
           /\ \A i \in Ids : i \in Nat /\ db[i].expires \in Int /\ db[i].status \in Status
           /\ \A i \in Ids : db'[i].expires = db[i].expires
           /\ \A i \in Ids : db[i].expires <= now => db'[i].expires <= now'
<1>1. Monotone /\ now' \in Nat
  BY Grows, TypeStep DEF TypeInv, TypeOK
<1>2. /\ now \in Nat /\ db \in Seq(RowType) /\ req \in [Requests -> ReqType]
      /\ hist \in [Requests -> HistType]
  BY DEF TypeInv, TypeOK
<1>3. \A i \in Ids : i \in Nat /\ db[i] \in RowType
  BY <1>2 DEF Ids
<1>4. \A i \in Ids : db[i].expires \in Int /\ db[i].status \in Status
  BY <1>3 DEF RowType
<1>5. now <= now' /\ \A i \in Ids : db'[i].expires = db[i].expires
  BY <1>1 DEF Monotone, SameRow
<1>6. \A i \in Ids : db[i].expires <= now => db'[i].expires <= now'
  BY <1>1, <1>2, <1>4, <1>5
<1> QED
  BY <1>1, <1>2, <1>3, <1>4, <1>5, <1>6

\* A slot that nobody moves keeps its part of the invariant.
LEMMA GrantUntouched ==
    ASSUME TypeInv, Next, NEW r \in Requests, SeenInv(r), GrantInv(r),
           req'[r] = req[r], hist'[r] = hist[r]
    PROVE  GrantInv(r)'
<1>1. \A i \in Ids : /\ i \in Ids'
                     /\ db'[i].session = db[i].session /\ db'[i].instance = db[i].instance
                     /\ db'[i].status = "ACTIVE" => db[i].status = "ACTIVE"
                     /\ db[i].expires <= now => db'[i].expires <= now'
  BY RowFacts DEF Monotone, SameRow
<1>2. \A t : \A i \in TargetRows(t) : i \in Ids /\ i \in TargetRows(t)'
  BY RowFacts DEF Monotone, SameRow, TargetRows
<1>3. (Judging(r) => ValidTTL(req[r].scope))'
  BY DEF GrantInv, Judging, ValidTTL
<1>4. JudgedInv(r)'
  <2>1. req[r].seen.status # "NONE" => req[r].seen.id \in Ids
    BY DEF SeenInv
  <2> QED
    BY <1>1, <2>1 DEF GrantInv, JudgedInv
<1>5. BlockerInv(r)'
  <2> SUFFICES ASSUME hist[r].blocker # 0, Judging(r)
               PROVE  BlockerInv(r)'
    BY DEF BlockerInv, Judging
  <2> DEFINE b == hist[r].blocker  t == req[r].scope.target
  <2>1. b \in Ids /\ b \in TargetRows(t) /\ b \in TargetRows(t)'
    BY <1>2 DEF GrantInv, BlockerInv
  <2>2. db'[b].session = req[r].scope.session /\ db'[b].status # "ACTIVE"
    BY <1>1, <2>1 DEF GrantInv, BlockerInv
  <2>3. db[b].expires <= now => db'[b].expires <= now'
    BY <1>1, <2>1
  <2>4. (\E i \in TargetRows(t) : i > b) => (\E i \in TargetRows(t)' : i > b)
    BY <1>2
  <2> QED
    BY <2>1, <2>2, <2>3, <2>4 DEF GrantInv, BlockerInv
<1> QED
  BY <1>3, <1>4, <1>5 DEF GrantInv

\* The block checks read the newest row of the target.
LEMMA BlockReads ==
    ASSUME TypeInv, ExpiredIsPast, Next, NEW r \in Requests, GrantInv(r), BlockRead(r)
    PROVE  GrantInv(r)'
<1> DEFINE t == req[r].scope.target  b == hist[r].blocker
<1>1. PICK v \in Snapshots(TargetRows(t)) :
         req' = [req EXCEPT ![r] = [req[r] EXCEPT !.pc = "latest", !.seen = v]]
  BY DEF BlockRead, Becomes
<1>2. req[r] \in ReqType /\ db' = db /\ now' = now /\ hist' = hist /\ req[r].pc = "block"
  BY RowFacts DEF BlockRead, At
<1>3. req'[r].pc = "latest" /\ req'[r].seen = v /\ req'[r].scope = req[r].scope
  BY <1>1, <1>2, RowFacts DEF ReqType
<1>4. TargetRows(t) \subseteq Ids
  BY DEF TargetRows
<1>5. /\ v.status = "NONE" => TargetRows(t) = {}
      /\ v.status # "NONE" => /\ v.id \in TargetRows(t) /\ v.status = db[v.id].status
                              /\ \A j \in TargetRows(t) : j <= v.id
  BY <1>1, <1>4, RowFacts, SnapshotRow
<1>6. ValidTTL(req[r].scope)
  BY <1>2 DEF GrantInv, Judging
<1>7. JudgedInv(r)'
  BY <1>2, <1>3, <1>5 DEF JudgedInv
<1>8. BlockerInv(r)'
  <2> SUFFICES ASSUME b # 0 PROVE BlockerInv(r)'
    BY <1>2 DEF BlockerInv
  <2>1. b \in TargetRows(t) /\ db[b].session = req[r].scope.session
        /\ db[b].status # "ACTIVE"
    BY <1>2 DEF GrantInv, BlockerInv, Judging
  <2>2. v.status # "NONE" /\ b <= v.id
    BY <1>5, <2>1
  <2>3. db[b].status = "REVOKED" \/ db[b].expires <= now
    BY <1>4, <2>1, RowFacts DEF ExpiredIsPast, Status
  <2>4. TargetRows(t)' = TargetRows(t)
    BY <1>2, <1>3 DEF TargetRows, Ids
  <2> QED
    BY <1>2, <1>3, <1>5, <2>1, <2>2, <2>3, <2>4 DEF BlockerInv
<1> QED
  BY <1>3, <1>6, <1>7, <1>8 DEF GrantInv

\* The host is asked only when the row that was read does not block the request.
LEMMA AskJudges ==
    ASSUME TypeInv, Next, NEW r \in Requests, SeenInv(r), GrantInv(r), Ask(r)
    PROVE  GrantInv(r)'
<1> DEFINE q == req[r]  t == req[r].scope.target  b == hist[r].blocker
<1>1. /\ q \in ReqType /\ q.pc = "latest" /\ ~Blocked(q)
      /\ db' = db /\ now' = now /\ hist' = hist
  BY RowFacts DEF Ask, At
<1>2. req'[r].pc = "approval" /\ req'[r].seen = q.seen /\ req'[r].scope = q.scope
  BY <1>1, RowFacts DEF Ask, Becomes, ReqType
<1>3. ValidTTL(q.scope)
  BY <1>1 DEF GrantInv, Judging
<1>4. q.seen.status \in {"NONE", "ACTIVE", "REVOKED", "EXPIRED"}
  BY <1>1 DEF ReqType, SeenType, Status
<1>5. q.seen.status # "NONE" => q.seen.id \in TargetRows(t)
  BY <1>1 DEF SeenInv
<1>6. JudgedInv(r)'
  <2>1. q.seen.status \in {"REVOKED", "EXPIRED"} => db[q.seen.id].status # "ACTIVE"
    BY <1>1 DEF GrantInv, JudgedInv
  <2>2. ASSUME q.seen.status = "ACTIVE"
        PROVE  \/ db[q.seen.id].expires <= now
               \/ /\ db[q.seen.id].session = q.scope.session
                  /\ db[q.seen.id].instance = q.scope.instance
    <3>1. db[q.seen.id].expires \in Int /\ now \in Nat
      BY <1>5, <2>2, RowFacts DEF TargetRows
    <3> QED
      BY <1>1, <2>2, <3>1 DEF Blocked, HeldByOtherSession, HeldByOtherInstance,
                              SeenActive, Unexpired
  <2> QED
    BY <1>1, <1>2, <1>4, <2>1, <2>2 DEF JudgedInv
<1>7. BlockerInv(r)'
  <2> SUFFICES ASSUME b # 0 PROVE BlockerInv(r)'
    BY <1>1 DEF BlockerInv
  <2>1. /\ b \in TargetRows(t) /\ db[b].session = q.scope.session
        /\ db[b].status # "ACTIVE" /\ q.seen.status # "NONE" /\ b <= q.seen.id
        /\ q.seen.id = b => q.seen.status = "REVOKED" \/ db[b].expires <= now
    BY <1>1 DEF GrantInv, BlockerInv, Judging
  <2>2. CASE q.seen.id = b
    BY <1>1, <1>2, <2>1, <2>2 DEF BlockerInv, Blocked, RevokedHere, TargetRows, Ids
  <2>3. CASE q.seen.id # b
    <3>1. b \in Nat /\ q.seen.id \in Nat
      BY <1>1, <2>1, RowFacts DEF TargetRows, ReqType, SeenType
    <3>2. q.seen.id \in TargetRows(t) /\ q.seen.id > b
      BY <1>5, <2>1, <2>3, <3>1
    <3> QED
      BY <1>1, <1>2, <2>1, <3>2 DEF BlockerInv, TargetRows, Ids
  <2> QED
    BY <2>2, <2>3
<1> QED
  BY <1>3, <1>2, <1>6, <1>7 DEF GrantInv

\* A step after which the slot neither judges nor waits for an approval keeps
\* what it knows of the revoked lease it met.
LEMMA GrantMoves ==
    ASSUME TypeInv, Next, NEW r \in Requests, GrantInv(r), Judging(r),
           req'[r].pc \in Phases \ {"latest", "approval"},
           req'[r].scope = req[r].scope, hist'[r] = hist[r]
    PROVE  GrantInv(r)'
<1>1. (Judging(r) => ValidTTL(req[r].scope))'
  BY DEF GrantInv, ValidTTL
<1>2. JudgedInv(r)'
  BY DEF JudgedInv
<1>3. BlockerInv(r)'
  <2> SUFFICES ASSUME hist[r].blocker # 0 PROVE BlockerInv(r)'
    BY DEF BlockerInv
  <2>1. /\ hist[r].blocker \in TargetRows(req[r].scope.target)
        /\ db[hist[r].blocker].session = req[r].scope.session
        /\ db[hist[r].blocker].status # "ACTIVE"
    BY DEF GrantInv, BlockerInv
  <2> QED
    BY <2>1, RowFacts DEF BlockerInv, TargetRows, Monotone, SameRow
<1> QED
  BY <1>1, <1>2, <1>3 DEF GrantInv

\* A request that begins: what it meets on the target is recorded.
LEMMA GrantBegins ==
    ASSUME TypeInv, Next, NEW r \in Requests, NEW s \in Scopes, Begin(r, s)
    PROVE  GrantInv(r)'
<1>1. PICK top \in Snapshots(TargetRows(s.target)) :
         hist' = [hist EXCEPT ![r] =
           [revoked |-> Revoked,
            blocker |-> IF top.status = "REVOKED" /\ db[top.id].session = s.session
                        THEN top.id ELSE 0]]
  BY DEF Begin
<1>2. db' = db
  BY DEF Begin
<1>3. req'[r] = IF ValidTTL(s) THEN [Idle EXCEPT !.pc = "find", !.scope = s]
                ELSE [Idle EXCEPT !.pc = "answered", !.scope = s,
                                  !.answer = "LEASE_REJECTED"]
  BY RowFacts DEF Begin, Becomes
<1>4. CASE ~ValidTTL(s)
  <2>1. req'[r].pc = "answered"
    BY <1>3, <1>4 DEF Idle
  <2> QED
    BY <2>1 DEF GrantInv, JudgedInv, BlockerInv, Judging
<1>5. CASE ValidTTL(s)
  <2>1. req'[r].pc = "find" /\ req'[r].scope = s
    BY <1>3, <1>5 DEF Idle
  <2>2. hist'[r].blocker # 0 =>
           /\ hist'[r].blocker = top.id
           /\ top.status = "REVOKED" /\ db[top.id].session = s.session
    BY <1>1, RowFacts
  <2>3. top.status = "REVOKED" =>
           top.id \in TargetRows(s.target) /\ db[top.id].status = "REVOKED"
    BY <1>1, RowFacts, SnapshotRow DEF TargetRows
  <2>4. (Judging(r) => ValidTTL(req[r].scope))'
    BY <1>5, <2>1 DEF ValidTTL
  <2>5. JudgedInv(r)'
    BY <2>1 DEF JudgedInv
  <2>6. BlockerInv(r)'
    BY <1>2, <2>1, <2>2, <2>3 DEF BlockerInv, TargetRows, Ids
  <2> QED
    BY <2>4, <2>5, <2>6 DEF GrantInv
<1> QED
  BY <1>4, <1>5

\* A slot that is free, or has its answer, has nothing to keep.
LEMMA GrantDone ==
    ASSUME NEW r \in Requests, req'[r].pc \in {"idle", "answered"}
    PROVE  GrantInv(r)'
BY DEF GrantInv, JudgedInv, BlockerInv, Judging

\* A step of a request keeps its own part of the invariant.
LEMMA GrantRuns ==
    ASSUME TypeInv, ExpiredIsPast, Next, NEW r \in Requests, SeenInv(r), GrantInv(r), Run(r)
    PROVE  GrantInv(r)'
<1>1. req[r] \in ReqType /\ req \in [Requests -> ReqType]
  BY RowFacts
<1>2. \A x : Becomes(r, x) => req'[r] = x
  BY <1>1 DEF Becomes
<1>3. hist' = hist /\ req'[r].scope = req[r].scope
  BY TypeRun DEF Run, FindRead, Reuse, Miss, Lapse, MarkExpired, BlockRead, Refuse, Ask,
                 Issue, Reject
<1>4. CASE BlockRead(r)
  BY <1>4, BlockReads
<1>5. CASE Ask(r)
  BY <1>5, AskJudges
<1>6. CASE Reuse(r) \/ Refuse(r) \/ Issue(r) \/ Reject(r)
  <2>1. \E x : Becomes(r, x) /\ x.pc = "answered"
    <3>1. \A a : [req[r] EXCEPT !.pc = "answered", !.answer = a].pc = "answered"
      BY <1>1 DEF ReqType
    <3>2. \A a, v : [req[r] EXCEPT !.pc = "answered", !.answer = a, !.seen = v].pc
                      = "answered"
      BY <1>1 DEF ReqType
    <3> QED
      BY <1>6, <3>1, <3>2 DEF Reuse, Refuse, Issue, Reject, Answer
  <2> QED
    BY <1>2, <2>1, GrantDone
<1>7. CASE FindRead(r) \/ Miss(r) \/ Lapse(r) \/ MarkExpired(r)
  <2>1. \E x : Becomes(r, x) /\ x.pc \in {"matched", "block", "expire"}
    <3>1. \A pc : [req[r] EXCEPT !.pc = pc].pc = pc
      BY <1>1 DEF ReqType
    <3>2. \A v : [req[r] EXCEPT !.pc = "matched", !.seen = v].pc = "matched"
      BY <1>1 DEF ReqType
    <3> QED
      BY <1>7, <3>1, <3>2 DEF FindRead, Miss, Lapse, MarkExpired, Goto
  <2>2. req'[r].pc \in Phases \ {"latest", "approval"}
    BY <1>2, <2>1 DEF Phases
  <2>3. Judging(r)
    BY <1>7 DEF FindRead, Miss, Lapse, MarkExpired, At, Judging
  <2> QED
    BY <1>3, <2>2, <2>3, GrantMoves
<1> QED
  BY <1>4, <1>5, <1>6, <1>7 DEF Run

\* Every step keeps the invariant.
LEMMA GInvNext == GInv /\ [Next]_vars => GInv'
<1> SUFFICES ASSUME GInv, [Next]_vars PROVE GInv'
  OBVIOUS
<1>1. IInv'
  BY IInvNext DEF GInv
<1>2. CASE Next
  <2> SUFFICES ASSUME NEW p \in Requests PROVE GrantInv(p)'
    BY <1>1 DEF GInv
  <2>1. TypeInv /\ ExpiredIsPast /\ SeenInv(p) /\ GrantInv(p)
    BY DEF GInv, IInv
  <2>2. req \in [Requests -> ReqType] /\ hist \in [Requests -> HistType]
    BY <2>1 DEF TypeInv, TypeOK
  <2>3. CASE Run(p)
    BY <1>2, <2>1, <2>3, GrantRuns
  <2>4. CASE \E s \in Scopes : Begin(p, s)
    BY <1>2, <2>1, <2>4, GrantBegins
  <2>5. CASE Return(p) \/ Restart
    <3>1. req'[p] = Idle
      BY <2>2, <2>5 DEF Return, Restart, Becomes
    <3> QED
      BY <3>1, GrantDone DEF Idle
  <2>6. CASE req'[p] = req[p] /\ hist'[p] = hist[p]
    BY <1>2, <2>1, <2>6, GrantUntouched
  <2>7. ASSUME NEW r \in Requests, r # p, Run(r)
        PROVE  req'[p] = req[p] /\ hist'[p] = hist[p]
    <3>1. hist' = hist
      BY <2>7 DEF Run, FindRead, Reuse, Miss, Lapse, MarkExpired, BlockRead, Refuse,
                  Ask, Issue, Reject
    <3> QED
      BY <2>1, <2>7, <3>1, TypeRun
  <2>8. ASSUME NEW r \in Requests, r # p, Return(r) \/ \E s \in Scopes : Begin(r, s)
        PROVE  req'[p] = req[p] /\ hist'[p] = hist[p]
    BY <2>2, <2>8 DEF Return, Begin, Becomes
  <2>9. CASE \/ \E k \in DOMAIN asks : Decide(k)
             \/ \E i \in Ids : Revoke(i)
             \/ \E ses \in Sessions : RevokeSession(ses)
             \/ \E c \in Capsules : RevokeCapsule(c)
             \/ Tick
    BY <2>6, <2>9 DEF Decide, Revoke, RevokeSession, RevokeCapsule, Tick
  <2> QED
    BY <1>2, <2>3, <2>4, <2>5, <2>6, <2>7, <2>8, <2>9 DEF Next
<1>3. CASE UNCHANGED vars
  BY <1>1, <1>3 DEF vars, GInv, GrantInv, Judging, ValidTTL, JudgedInv, BlockerInv,
                    TargetRows, Ids
<1> QED
  BY <1>2, <1>3

-----------------------------------------------------------------------------
(* The theorems *)

\* The invariant always holds.
THEOREM GrantInvariance == Spec => []GInv
<1>1. Init => GInv
  <2> SUFFICES ASSUME Init PROVE GInv
    OBVIOUS
  <2>1. \A r \in Requests : req[r].pc = "idle"
    BY DEF Init, Idle
  <2>2. \A r \in Requests : GrantInv(r)
    BY <2>1 DEF GrantInv, JudgedInv, BlockerInv, Judging
  <2> QED
    BY <2>2, IInvInit DEF GInv
<1> QED
  BY <1>1, GInvNext, PTL DEF Spec

\* Only Reuse and Issue grant, and only Issue writes a row as it does.
LEMMA GrantSteps ==
    ASSUME TypeInv, Next, NEW r \in Requests, Grants(r)
    PROVE  Reuse(r) \/ IssuesRow(r)
<1>1. req \in [Requests -> ReqType] /\ req[r] \in ReqType
  BY DEF TypeInv, TypeOK
<1>2. req[r].answer # "GRANTED" /\ req'[r].answer = "GRANTED"
  BY DEF Grants
<1>3. \A x : Becomes(r, x) => x.answer = "GRANTED"
  BY <1>1, <1>2 DEF Becomes
<1>4. Idle.answer # "GRANTED"
  BY DEF Idle
<1>5. CASE Run(r)
  <2>1. \A a : Answer(r, a) => a = "GRANTED"
    BY <1>1, <1>2 DEF Answer, Becomes, ReqType
  <2>2. \A pc : ~Goto(r, pc)
    BY <1>1, <1>2 DEF Goto, Becomes, ReqType
  <2>3. ~FindRead(r) /\ ~BlockRead(r)
    BY <1>1, <1>2 DEF FindRead, BlockRead, Becomes, ReqType
  <2>4. ~Miss(r) /\ ~Lapse(r) /\ ~MarkExpired(r)
    BY <2>2 DEF Miss, Lapse, MarkExpired
  <2>5. ~Ask(r)
    BY <1>1, <1>2 DEF Ask, Becomes, ReqType
  <2>6. ~Refuse(r) /\ ~Reject(r)
    BY <2>1 DEF Refuse, Reject
  <2>7. Issue(r) => IssuesRow(r)
    <3>1. Issue(r) => req[r].scope \in Scopes /\ req[r].ask \in Nat
      BY <1>1 DEF Issue, At, Busy, ScopeInv, ReqType, TypeInv
    <3>2. Issue(r) => NewRow(req[r].scope, req[r].ask) \in RowType
      BY <3>1, NewRecords DEF TypeInv, TypeOK
    <3>3. Issue(r) => db' = Append(db, NewRow(req[r].scope, req[r].ask))
      BY <2>1 DEF Issue
    <3> QED
      BY <3>1, <3>2, <3>3 DEF IssuesRow
  <2> QED
    BY <1>5, <2>3, <2>4, <2>5, <2>6, <2>7 DEF Run
<1>6. ASSUME NEW s \in Scopes, Begin(r, s) PROVE FALSE
  <2>1. /\ [Idle EXCEPT !.pc = "find", !.scope = s].answer # "GRANTED"
        /\ [Idle EXCEPT !.pc = "answered", !.scope = s,
                        !.answer = "LEASE_REJECTED"].answer # "GRANTED"
    BY DEF Idle
  <2> QED
    BY <1>3, <1>6, <2>1 DEF Begin
<1>7. ~Return(r) /\ ~Restart
  BY <1>2, <1>3, <1>4 DEF Return, Restart
<1>8. req'[r] # req[r]
  BY <1>2
<1>9. \A p \in Requests : p # r => ~Run(p) /\ ~Return(p) /\ \A s \in Scopes : ~Begin(p, s)
  BY <1>1, <1>8, TypeRun DEF Return, Begin, Becomes
<1> QED
  BY <1>5, <1>6, <1>7, <1>8, <1>9
     DEF Next, Decide, Revoke, RevokeSession, RevokeCapsule, Tick

\* LeaseGateway.request grants a live lease of exactly what was asked for
\* (GrantIsLive).
THEOREM GrantIsLiveHolds == Spec => GrantIsLive
<1>1. ASSUME GInv, [Next]_vars
      PROVE  [\A r \in Requests : Grants(r) =>
                LET s == req[r].scope  row == db'[req'[r].seen.id]
                IN  /\ row.instance = s.instance /\ row.session = s.session
                    /\ row.target = s.target /\ s.action \in row.actions
                    /\ now < row.expires]_vars
  <2> SUFFICES ASSUME Next, NEW r \in Requests, Grants(r)
               PROVE  LET s == req[r].scope  row == db'[req'[r].seen.id]
                      IN  /\ row.instance = s.instance /\ row.session = s.session
                          /\ row.target = s.target /\ s.action \in row.actions
                          /\ now < row.expires
    BY <1>1
  <2>1. TypeInv /\ SeenInv(r) /\ GrantInv(r)
    BY <1>1 DEF GInv, IInv
  <2>2. /\ req \in [Requests -> ReqType] /\ req[r] \in ReqType /\ now \in Nat
        /\ db \in Seq(RowType)
    BY <2>1 DEF TypeInv, TypeOK
  <2>3. CASE Reuse(r)
    <3>1. /\ req[r].pc = "matched" /\ MatchedSeen(req[r]) /\ Covers(req[r]) /\ db' = db
          /\ req'[r].seen = req[r].seen
      BY <2>2, <2>3 DEF Reuse, At, Answer, Becomes, ReqType
    <3>2. req[r].seen.id \in KeyRows(req[r].scope)
      BY <2>1, <3>1 DEF SeenInv, MatchedSeen, SeenActive
    <3> QED
      BY <3>1, <3>2 DEF KeyRows, MatchedSeen, Unexpired, Covers
  <2>4. CASE IssuesRow(r)
    <3> DEFINE n == Len(db) + 1  s == req[r].scope
    <3>1. /\ db' = Append(db, NewRow(s, req[r].ask)) /\ s \in Scopes
          /\ NewRow(s, req[r].ask) \in RowType /\ req[r].pc = "approval"
      BY <2>4 DEF IssuesRow, Issue, At
    <3>2. db'[n] = NewRow(s, req[r].ask)
      BY <2>2, <3>1, AppendRow
    <3>3. req'[r].seen.id = n
      <4>1. CASE Answer(r, "INVALID_RESOURCE")
        <5>1. req'[r].answer = "INVALID_RESOURCE"
          BY <2>2, <4>1 DEF Answer, Becomes, ReqType
        <5> QED
          BY <5>1 DEF Grants
      <4>2. CASE Becomes(r, [req[r] EXCEPT !.pc = "answered", !.answer = "GRANTED",
                               !.seen = [id |-> Len(db) + 1, status |-> "ACTIVE"]])
        BY <2>2, <4>2 DEF Becomes, ReqType
      <4> QED
        BY <2>4, <4>1, <4>2 DEF IssuesRow, Issue
    <3>4. s.ttl \in Int /\ s.ttl > 0
      BY <2>1, <3>1, ScopeFields DEF GrantInv, Judging, ValidTTL
    <3>5. now < now + s.ttl
      BY <2>2, <3>4
    <3> QED
      BY <3>2, <3>3, <3>5 DEF NewRow
  <2> QED
    BY <2>1, <2>3, <2>4, GrantSteps
<1> QED
  BY GrantInvariance, <1>1, PTL DEF Spec, GrantIsLive

\* A request that is issued a lease is one that waited for an approval.
LEMMA IssueFacts ==
    ASSUME GInv, Next, NEW r \in Requests, IssuesFor(r)
    PROVE  req[r].pc = "approval" /\ SeenInv(r) /\ GrantInv(r)
<1>1. Reuse(r) \/ IssuesRow(r)
  BY GrantSteps DEF IssuesFor, GInv, IInv
<1>2. ~Reuse(r)
  BY DEF IssuesFor, Reuse
<1> QED
  BY <1>1, <1>2 DEF IssuesRow, Issue, At, GInv, IInv

\* The row that let a request through is not overlapped by what it is issued
\* (CheckedRowNotOverlapped).
THEOREM CheckedRowHolds == Spec => CheckedRowNotOverlapped
<1>1. ASSUME GInv, [Next]_vars
      PROVE  [\A r \in Requests : IssuesFor(r) /\ req[r].seen.id # 0 =>
                LET row == db[req[r].seen.id]
                IN  \/ row.status # "ACTIVE" \/ now >= row.expires
                    \/ /\ row.session = req[r].scope.session
                       /\ row.instance = req[r].scope.instance]_vars
  <2> SUFFICES ASSUME Next, NEW r \in Requests, IssuesFor(r), req[r].seen.id # 0
               PROVE  LET row == db[req[r].seen.id]
                      IN  \/ row.status # "ACTIVE" \/ now >= row.expires
                          \/ /\ row.session = req[r].scope.session
                             /\ row.instance = req[r].scope.instance
    BY <1>1
  <2>1. req[r].pc = "approval" /\ SeenInv(r) /\ GrantInv(r)
    BY <1>1, IssueFacts
  <2>2. req[r].seen.status # "NONE" /\ req[r].seen.id \in Ids
    BY <2>1 DEF SeenInv
  <2>3. now \in Nat /\ db[req[r].seen.id].expires \in Int
    BY <1>1, <2>2, RowFacts DEF GInv, IInv
  <2> QED
    BY <2>1, <2>2, <2>3 DEF GrantInv, JudgedInv
<1> QED
  BY GrantInvariance, <1>1, PTL DEF Spec, CheckedRowNotOverlapped

\* Only an Issue step changes which rows there are.
LEMMA IdsStep ==
    ASSUME TypeInv, Next
    PROVE  Ids' = Ids \/ \E r \in Requests : IssuesRow(r)
<1>1. db \in Seq(RowType) /\ "EXPIRED" \in Status /\ "REVOKED" \in Status
  BY DEF TypeInv, TypeOK, Status
<1>2. CASE db' = db
  BY <1>2 DEF Ids
<1>3. CASE RevokesRows
  BY <1>1, <1>3, StatusWrite DEF RevokesRows
<1>4. CASE \E r \in Requests : MarkExpired(r)
  BY <1>1, <1>4, StatusWrite DEF MarkExpired
<1> QED
  BY <1>2, <1>3, <1>4, DbStep

\* Where no row is added, leases only stop being live.
LEMMA Fades ==
    ASSUME TypeInv, Monotone, now' \in Nat, Ids' = Ids
    PROVE  /\ \A i \in Ids : Live(i)' => Live(i)
           /\ \A s : KeyRows(s)' = KeyRows(s)
           /\ \A t : TargetRows(t)' = TargetRows(t)
<1>1. \A i \in Ids : db[i].expires \in Int
  <2>1. db \in Seq(RowType)
    BY DEF TypeInv, TypeOK
  <2>2. \A i \in Ids : db[i] \in RowType
    BY <2>1 DEF Ids
  <2> QED
    BY <2>2 DEF RowType
<1>2. now \in Nat
  BY DEF TypeInv, TypeOK
<1>3. \A i \in Ids : Live(i)' => Live(i)
  BY <1>1, <1>2 DEF Monotone, SameRow, Live, Unexpired
<1>4. \A s : KeyRows(s)' = KeyRows(s)
  BY DEF Monotone, SameRow, KeyRows
<1>5. \A t : TargetRows(t)' = TargetRows(t)
  BY DEF Monotone, SameRow, TargetRows
<1> QED
  BY <1>3, <1>4, <1>5

\* A step that adds no row leaves a target with one holder as it is.
LEMMA HolderKept ==
    ASSUME TypeInv, Monotone, now' \in Nat, Ids' = Ids, NEW t \in Targets, Exclusive(t)
    PROVE  Exclusive(t)'
<1>1. /\ \A i \in Ids : Live(i)' => Live(i)
      /\ TargetRows(t)' = TargetRows(t)
  BY Fades DEF TargetRows
<1>2. \A i \in TargetRows(t) : i \in Ids
  BY DEF TargetRows
<1>3. \A i \in Ids : db'[i].session = db[i].session /\ db'[i].instance = db[i].instance
  BY DEF Monotone, SameRow
<1> QED
  BY <1>1, <1>2, <1>3 DEF Exclusive, SameHolder

\* Where one does take the target away from its holder, the row it adds meets
\* a live lease of another holder.
LEMMA HolderMet ==
    ASSUME TypeInv, NEW r \in Requests, IssuesRow(r), NEW t \in Targets,
           Exclusive(t), ~Exclusive(t)'
    PROVE  /\ req[r].scope.target = t
           /\ \E i \in TargetRows(t) : Live(i) /\ ~HeldBy(i, req[r].scope)
<1> DEFINE s == req[r].scope  n == Len(db) + 1
<1>1. /\ Ids' = Ids \cup {n} /\ now' = now
      /\ \A i \in Ids : db'[i] = db[i]
      /\ db'[n] = NewRow(s, req[r].ask)
  <2>1. db \in Seq(RowType)
    BY DEF TypeInv, TypeOK
  <2> QED
    BY <2>1, AppendRow DEF IssuesRow, Issue, Ids
<1>2. \A i \in Ids : Live(i)' <=> Live(i)
  BY <1>1 DEF Live, Unexpired
<1>3. db'[n].session = s.session /\ db'[n].instance = s.instance /\ db'[n].target = s.target
  BY <1>1 DEF NewRow
<1>4. PICK i \in TargetRows(t)', j \in TargetRows(t)' :
         Live(i)' /\ Live(j)' /\ ~SameHolder(i, j)'
  BY DEF Exclusive
<1>5. /\ i \in Ids' /\ db'[i].target = t
      /\ j \in Ids' /\ db'[j].target = t
  BY <1>4 DEF TargetRows
<1>6. ASSUME i \in Ids, j \in Ids PROVE FALSE
  BY <1>1, <1>2, <1>4, <1>5, <1>6 DEF Exclusive, TargetRows, SameHolder
<1>7. ASSUME NEW k \in {i, j}, k \in Ids, {i, j} = {k, n}
      PROVE  /\ s.target = t
             /\ \E l \in TargetRows(t) : Live(l) /\ ~HeldBy(l, s)
  <2>1. s.target = t /\ k \in TargetRows(t) /\ Live(k)
    BY <1>1, <1>2, <1>3, <1>4, <1>5, <1>7 DEF TargetRows
  <2>2. ~HeldBy(k, s)
    BY <1>1, <1>3, <1>4, <1>7 DEF HeldBy, SameHolder
  <2> QED
    BY <2>1, <2>2
<1>8. i # n \/ j # n
  BY <1>4 DEF SameHolder
<1> QED
  BY <1>1, <1>5, <1>6, <1>7, <1>8

\* A target gets a second holder only by a lease issued past a live one that
\* the block checks did not read (ExclusiveUnlessUnseen).
THEOREM ExclusiveUnlessUnseenHolds == Spec => ExclusiveUnlessUnseen
<1>1. ASSUME GInv, [Next]_vars
      PROVE  [\A t \in Targets : Exclusive(t) /\ ~Exclusive(t)' =>
                \E r \in Requests :
                   /\ IssuesFor(r) /\ req[r].scope.target = t
                   /\ \E i \in TargetRows(t) : /\ Live(i) /\ ~HeldBy(i, req[r].scope)
                                               /\ i # req[r].seen.id]_vars
  <2> SUFFICES ASSUME Next, NEW t \in Targets, Exclusive(t), ~Exclusive(t)'
               PROVE  \E r \in Requests :
                         /\ IssuesFor(r) /\ req[r].scope.target = t
                         /\ \E i \in TargetRows(t) : /\ Live(i)
                                                     /\ ~HeldBy(i, req[r].scope)
                                                     /\ i # req[r].seen.id
    BY <1>1
  <2>1. TypeInv /\ Monotone /\ now' \in Nat
    BY <1>1, RowFacts DEF GInv, IInv
  <2>2. PICK r \in Requests : IssuesRow(r)
    BY <2>1, IdsStep, HolderKept
  <2>3. req[r].scope.target = t
    BY <2>1, <2>2, HolderMet
  <2>4. PICK i \in TargetRows(t) : Live(i) /\ ~HeldBy(i, req[r].scope)
    BY <2>1, <2>2, HolderMet
  <2>5. /\ req[r].pc = "approval" /\ SeenInv(r) /\ JudgedInv(r) /\ req[r] \in ReqType
        /\ req \in [Requests -> ReqType] /\ db \in Seq(RowType)
    BY <1>1, <2>1, <2>2, RowFacts DEF GInv, IInv, GrantInv, IssuesRow, Issue, At
  <2>6. IssuesFor(r)
    <3>1. db' # db
      BY <2>2, <2>5, AppendRow DEF IssuesRow
    <3>2. req'[r].answer = "GRANTED"
      BY <2>2, <2>5, <3>1 DEF IssuesRow, Issue, Becomes, ReqType
    <3> QED
      BY <2>5, <3>1, <3>2 DEF IssuesFor, Grants, SeenInv
  <2>7. i # req[r].seen.id
    <3>1. i \in Ids /\ i # 0 /\ db[i].expires \in Int /\ now \in Nat
      BY <1>1, <2>1, <2>5, RowFacts DEF TargetRows, Ids
    <3>2. CASE req[r].seen.status = "NONE"
      BY <2>5, <3>1, <3>2 DEF SeenInv
    <3>3. CASE req[r].seen.status # "NONE"
      BY <2>4, <2>5, <3>1, <3>3 DEF JudgedInv, Live, Unexpired, HeldBy
    <3> QED
      BY <3>2, <3>3
  <2> QED
    BY <2>3, <2>4, <2>6, <2>7
<1> QED
  BY GrantInvariance, <1>1, PTL DEF Spec, ExclusiveUnlessUnseen

\* A revoked newest lease keeps its session from a new one, until a newer row
\* covers it or its time is over (RevokedBlocksIssue).
THEOREM RevokedBlocksIssueHolds == Spec => RevokedBlocksIssue
<1>1. ASSUME GInv, [Next]_vars
      PROVE  [\A r \in Requests : IssuesFor(r) /\ hist[r].blocker # 0 =>
                \/ \E i \in TargetRows(req[r].scope.target) : i > hist[r].blocker
                \/ now >= db[hist[r].blocker].expires]_vars
  <2> SUFFICES ASSUME Next, NEW r \in Requests, IssuesFor(r), hist[r].blocker # 0
               PROVE  \/ \E i \in TargetRows(req[r].scope.target) : i > hist[r].blocker
                      \/ now >= db[hist[r].blocker].expires
    BY <1>1
  <2>1. req[r].pc = "approval" /\ GrantInv(r)
    BY <1>1, IssueFacts
  <2>2. /\ hist[r].blocker \in Ids
        /\ \/ \E i \in TargetRows(req[r].scope.target) : i > hist[r].blocker
           \/ db[hist[r].blocker].expires <= now
    BY <2>1 DEF GrantInv, BlockerInv, Judging, TargetRows
  <2>3. now \in Nat /\ db[hist[r].blocker].expires \in Int
    BY <1>1, <2>2, RowFacts DEF GInv, IInv
  <2> QED
    BY <2>2, <2>3
<1> QED
  BY GrantInvariance, <1>1, PTL DEF Spec, RevokedBlocksIssue

=============================================================================
