-------------------------- MODULE LeaseGatewayProofs --------------------------
(* Theorems about LeaseGateway for every value of its constants.            *)
EXTENDS LeaseGateway, TLAPS

-----------------------------------------------------------------------------
(* Lemmas on the operators of the model *)

\* A scope's components belong to the sets derived from Scopes.
LEMMA ScopeFields ==
    ASSUME NEW s \in Scopes
    PROVE  /\ s.capsule \in Capsules /\ s.instance \in Instances
           /\ s.session \in Sessions /\ s.target \in Targets
           /\ s.action \in Actions /\ s.ttl \in Int
BY ScopesAssumption DEF Capsules, Instances, Sessions, Targets, Actions

\* An update of the status column keeps the rows, their order and every other
\* column.
LEMMA SetStatusRows ==
    ASSUME db \in Seq(RowType), NEW I, NEW st \in Status
    PROVE  /\ SetStatus(I, st) \in Seq(RowType)
           /\ Len(SetStatus(I, st)) = Len(db)
           /\ DOMAIN SetStatus(I, st) = Ids
           /\ \A i \in Ids :
                 /\ i \in I => SetStatus(I, st)[i] = [db[i] EXCEPT !.status = st]
                 /\ i \notin I => SetStatus(I, st)[i] = db[i]
<1> DEFINE t == SetStatus(I, st)
<1>1. Ids = 1..Len(db) /\ Len(db) \in Nat
  BY DEF Ids
<1>2. \A i \in Ids : db[i] \in RowType
  BY <1>1
<1>3. \A i \in Ids : t[i] = IF i \in I THEN [db[i] EXCEPT !.status = st] ELSE db[i]
  BY DEF SetStatus
<1>4. \A i \in Ids : t[i] \in RowType
  BY <1>2, <1>3 DEF RowType
<1>5. t \in [1..Len(db) -> RowType]
  BY <1>1, <1>4 DEF SetStatus
<1>6. t \in Seq(RowType) /\ Len(t) = Len(db) /\ DOMAIN t = Ids
  BY <1>1, <1>5
<1> QED
  BY <1>3, <1>6

\* The lease that issue builds is a row, and so is the ask that precedes it.
LEMMA NewRecords ==
    ASSUME now \in Nat, NEW s \in Scopes, NEW a \in Nat
    PROVE  NewRow(s, a) \in RowType /\ NewAsk(s) \in AskType
<1>1. now + s.ttl \in Int
  BY ScopeFields
<1>2. NewRow(s, a) \in RowType
  BY <1>1, ScopeFields DEF NewRow, RowType, Status
<1>3. NewAsk(s) \in AskType
  BY ScopeFields DEF NewAsk, AskType
<1> QED
  BY <1>2, <1>3

\* The same, for a step that writes the table so.
LEMMA StatusWrite ==
    ASSUME db \in Seq(RowType), NEW I, NEW st \in Status, db' = SetStatus(I, st)
    PROVE  /\ DOMAIN db' = Ids /\ Ids' = Ids
           /\ \A i \in Ids : i \in I => db'[i].status = st
           /\ \A i \in Ids : i \notin I => db'[i] = db[i]
<1>1. /\ DOMAIN db' = Ids
      /\ \A i \in Ids : /\ i \in I => db'[i] = [db[i] EXCEPT !.status = st]
                        /\ i \notin I => db'[i] = db[i]
  BY SetStatusRows
<1>2. \A i \in Ids : db[i] \in RowType
  BY DEF Ids
<1>3. \A i \in Ids : [db[i] EXCEPT !.status = st].status = st
  BY <1>2 DEF RowType
<1> QED
  BY <1>1, <1>3 DEF Ids

\* Issuing a lease appends one row and leaves the others as they are.
LEMMA AppendRow ==
    ASSUME db \in Seq(RowType), NEW row \in RowType
    PROVE  /\ Append(db, row) \in Seq(RowType)
           /\ Len(Append(db, row)) = Len(db) + 1
           /\ DOMAIN Append(db, row) = Ids \cup {Len(db) + 1}
           /\ Len(db) \in Nat /\ Ids = 1..Len(db)
           /\ \A i \in Ids : Append(db, row)[i] = db[i]
           /\ Append(db, row)[Len(db) + 1] = row
BY DEF Ids

\* What a query returns is NoRow, when it selects nothing, or one of the
\* selected rows, the newest, with its status.
LEMMA SnapshotRow ==
    ASSUME db \in Seq(RowType), NEW I, I \subseteq Ids, NEW v \in Snapshots(I)
    PROVE  /\ v \in SeenType
           /\ v.status = "NONE" => v.id = 0 /\ I = {}
           /\ v.status # "NONE" => /\ v.id \in I /\ v.status = db[v.id].status
                                   /\ \A j \in I : j <= v.id
<1>1. Ids = 1..Len(db) /\ Len(db) \in Nat
  BY DEF Ids
<1>2. \A i \in Ids : db[i].status \in Status
  <2>1. \A i \in Ids : db[i] \in RowType
    BY <1>1
  <2> QED
    BY <2>1 DEF RowType
<1>3. CASE I = {}
  BY <1>3 DEF Snapshots, NoRow, SeenType
<1>4. CASE I # {}
  <2>1. PICK i \in Newest(I) : v = [id |-> i, status |-> db[i].status]
    BY <1>4 DEF Snapshots
  <2>2. i \in I /\ \A j \in I : j <= i
    BY <2>1 DEF Newest
  <2>3. v.id = i /\ v.status = db[i].status /\ v \in SeenType
    BY <1>1, <1>2, <2>1, <2>2 DEF SeenType
  <2>4. v.status # "NONE"
    BY <1>2, <2>2, <2>3 DEF Status
  <2> QED
    BY <2>2, <2>3, <2>4
<1> QED
  BY <1>3, <1>4

-----------------------------------------------------------------------------
(* The inductive invariant *)

Busy(r) == ~At(r, "idle")

\* A request in progress has a scope.
ScopeInv == \A r \in Requests : Busy(r) => req[r].scope \in Scopes

TypeInv == TypeOK /\ ScopeInv

\* What a slot remembers of the table.
SeenInv(r) ==
    LET q == req[r] IN
    /\ q.seen.status # "NONE" => q.seen.id \in Ids
    /\ q.seen.status = "NONE" => q.seen.id = 0
    /\ q.pc \in {"matched", "expire"} /\ q.seen.status # "NONE" =>
          q.seen.id \in KeyRows(q.scope)
    /\ q.pc = "expire" =>
          q.seen.status # "NONE" /\ db[q.seen.id].expires <= now
    /\ q.pc \in {"latest", "approval"} /\ q.seen.status # "NONE" =>
          q.seen.id \in TargetRows(q.scope.target)
    /\ q.answer = "GRANTED" => q.pc = "answered"

\* The approval a slot waits for is its own, for its own scope, and unused.
AskInv(r) ==
    At(r, "approval") =>
       /\ req[r].ask \in DOMAIN asks
       /\ [asks[req[r].ask] EXCEPT !.decision = "pending"] = NewAsk(req[r].scope)
       /\ \A i \in Ids : db[i].ask # req[r].ask
       /\ \A p \in Requests : At(p, "approval") /\ p # r => req[p].ask # req[r].ask

\* What was revoked when a request began is not ACTIVE again, and is not what
\* the request has seen ACTIVE.
HistInv(r) ==
    /\ \A i \in hist[r].revoked : i \in Ids /\ db[i].status # "ACTIVE"
    /\ req[r].pc = "matched" /\ req[r].seen.status = "ACTIVE" =>
          req[r].seen.id \notin hist[r].revoked
    /\ req[r].answer = "GRANTED" => req[r].seen.id \notin hist[r].revoked

IInv == /\ TypeInv
        /\ OneShotApproval
        /\ ExpiredIsPast
        /\ \A r \in Requests : SeenInv(r) /\ AskInv(r) /\ HistInv(r)

-----------------------------------------------------------------------------
(* Type correctness *)

\* The initial state is well typed.
LEMMA TypeInit == Init => TypeInv
BY DEF Init, TypeInv, TypeOK, ScopeInv, Busy, At, Idle, NoHist, ReqType, HistType,
       SeenType, NoRow, Phases, Answers, Refusals, Status

\* The four ways in which a step treats the table.
RevokesRows == \E I : /\ db' = SetStatus(I, "REVOKED")
                      /\ UNCHANGED <<now, asks, req, hist>>
IssuesRow(r) == /\ Issue(r) /\ req[r].scope \in Scopes
                /\ NewRow(req[r].scope, req[r].ask) \in RowType
                /\ db' = Append(db, NewRow(req[r].scope, req[r].ask))

\* What a step of a request does to the table.
LEMMA DbRun ==
    ASSUME TypeInv, NEW r \in Requests, Run(r)
    PROVE  db' = db \/ MarkExpired(r) \/ IssuesRow(r)
<1>1. CASE Issue(r)
  <2>1. req[r].scope \in Scopes /\ req[r].ask \in Nat
    BY <1>1 DEF Issue, At, Busy, ScopeInv, ReqType, TypeInv, TypeOK
  <2>2. NewRow(req[r].scope, req[r].ask) \in RowType
    BY <2>1, NewRecords DEF TypeInv, TypeOK
  <2> QED
    BY <1>1, <2>1, <2>2 DEF Issue, IssuesRow
<1>2. CASE FindRead(r) \/ Reuse(r) \/ Miss(r) \/ Lapse(r) \/ BlockRead(r)
  BY <1>2 DEF FindRead, Reuse, Miss, Lapse, BlockRead
<1>3. CASE Refuse(r) \/ Ask(r) \/ Reject(r)
  BY <1>3 DEF Refuse, Ask, Reject
<1> QED
  BY <1>1, <1>2, <1>3 DEF Run

\* What any step does to the table: rows are never dropped.
LEMMA DbStep ==
    ASSUME TypeInv, Next
    PROVE  \/ db' = db
           \/ RevokesRows
           \/ \E r \in Requests : MarkExpired(r) \/ IssuesRow(r)
<1>1. ASSUME NEW r \in Requests, Run(r)
      PROVE  db' = db \/ MarkExpired(r) \/ IssuesRow(r)
  BY <1>1, DbRun
<1>2. CASE (\E i \in Ids : Revoke(i)) \/ (\E ses \in Sessions : RevokeSession(ses))
           \/ (\E c \in Capsules : RevokeCapsule(c))
  BY <1>2 DEF Revoke, RevokeSession, RevokeCapsule, RevokesRows
<1>3. CASE (\E r \in Requests : Return(r) \/ \E s \in Scopes : Begin(r, s))
           \/ (\E k \in DOMAIN asks : Decide(k)) \/ Tick \/ Restart
  BY <1>3 DEF Return, Begin, Decide, Tick, Restart
<1> QED
  BY <1>1, <1>2, <1>3 DEF Next

\* The table keeps its type.
LEMMA TypeDb ==
    ASSUME TypeInv, Next
    PROVE  db' \in Seq(RowType)
<1>1. db \in Seq(RowType) /\ "EXPIRED" \in Status /\ "REVOKED" \in Status
  BY DEF TypeInv, TypeOK, Status
<1>2. CASE RevokesRows
  BY <1>1, <1>2, SetStatusRows DEF RevokesRows
<1>3. CASE \E r \in Requests : MarkExpired(r)
  BY <1>1, <1>3, SetStatusRows DEF MarkExpired
<1>4. CASE \E r \in Requests : IssuesRow(r)
  BY <1>1, <1>4, AppendRow DEF IssuesRow
<1> QED
  BY <1>1, <1>2, <1>3, <1>4, DbStep

\* The requests after a step of one of them.
LEMMA TypeRun ==
    ASSUME TypeInv, NEW r \in Requests, Run(r)
    PROVE  /\ req' \in [Requests -> ReqType]
           /\ \A p \in Requests : p # r => req'[p] = req[p]
           /\ req'[r].scope = req[r].scope /\ Busy(r) /\ Busy(r)'
<1> USE DEF TypeInv, TypeOK
<1>1. req[r] \in ReqType /\ Len(db) \in Nat /\ Len(asks) \in Nat
  OBVIOUS
<1>2. KeyRows(req[r].scope) \subseteq Ids /\ TargetRows(req[r].scope.target) \subseteq Ids
  BY DEF KeyRows, TargetRows
<1>3. \A I \in SUBSET Ids : Snapshots(I) \subseteq SeenType
  BY SnapshotRow
<1> DEFINE Goes(x) == x \in ReqType /\ x.scope = req[r].scope /\ x.pc # "idle"
<1>4. \A pc \in Phases \ {"idle"} : Goes([req[r] EXCEPT !.pc = pc])
  BY <1>1 DEF ReqType
<1>5. \A a \in Answers : Goes([req[r] EXCEPT !.pc = "answered", !.answer = a])
  BY <1>1 DEF ReqType, Phases
<1>6. \A pc \in Phases \ {"idle"} : \A v \in SeenType :
         Goes([req[r] EXCEPT !.pc = pc, !.seen = v])
  BY <1>1 DEF ReqType
<1>7. \A n \in Nat : Goes([req[r] EXCEPT !.pc = "approval", !.ask = n])
  BY <1>1 DEF ReqType, Phases
<1>8. \A v \in SeenType :
         Goes([req[r] EXCEPT !.pc = "answered", !.answer = "GRANTED", !.seen = v])
  BY <1>1 DEF ReqType, Phases, Answers
<1>9. Busy(r) /\ \E x : Goes(x) /\ Becomes(r, x)
  <2> HIDE DEF Goes
  <2> USE DEF Phases, Answers, Refusals, Goto, Answer, At, Busy
  <2>1. CASE FindRead(r)
    BY <1>2, <1>3, <1>6, <2>1 DEF FindRead
  <2>2. CASE BlockRead(r)
    BY <1>2, <1>3, <1>6, <2>2 DEF BlockRead
  <2>3. CASE Reuse(r) \/ Miss(r) \/ Lapse(r) \/ MarkExpired(r)
    BY <1>4, <1>5, <2>3 DEF Reuse, Miss, Lapse, MarkExpired
  <2>4. CASE Refuse(r) \/ Reject(r)
    BY <1>5, <2>4 DEF Refuse, Reject
  <2>5. CASE Ask(r)
    <3>1. Len(asks) + 1 \in Nat
      BY <1>1
    <3> QED
      BY <1>7, <2>5, <3>1 DEF Ask
  <2>6. CASE Issue(r)
    <3>1. [id |-> Len(db) + 1, status |-> "ACTIVE"] \in SeenType
      BY <1>1 DEF SeenType, Status
    <3> QED
      BY <1>5, <1>8, <2>6, <3>1 DEF Issue
  <2> QED
    BY <2>1, <2>2, <2>3, <2>4, <2>5, <2>6 DEF Run
<1> QED
  BY <1>1, <1>9 DEF Busy, At, Becomes

\* Every step keeps the types.
LEMMA TypeStep ==
    ASSUME TypeInv, Next
    PROVE  TypeInv'
<1> USE DEF TypeInv, TypeOK
<1>1. db' \in Seq(RowType)
  BY TypeDb
<1>2. now' \in Nat
  <2>1. CASE Tick
    BY <2>1 DEF Tick
  <2>2. ASSUME NEW r \in Requests, Run(r) PROVE now' = now
    BY <2>2 DEF Run, FindRead, Reuse, Miss, Lapse, MarkExpired, BlockRead, Refuse, Ask,
                Issue, Reject
  <2> QED
    BY <2>1, <2>2 DEF Next, Return, Begin, Decide, Revoke, RevokeSession,
                      RevokeCapsule, Restart
<1>3. asks' \in Seq(AskType)
  <2>1. ASSUME NEW r \in Requests, Ask(r) PROVE asks' \in Seq(AskType)
    <3>1. req[r].scope \in Scopes
      BY <2>1 DEF Ask, At, Busy, ScopeInv
    <3>2. NewAsk(req[r].scope) \in AskType
      BY <3>1, NewRecords
    <3> QED
      BY <2>1, <3>2 DEF Ask
  <2>2. ASSUME NEW k \in DOMAIN asks, Decide(k) PROVE asks' \in Seq(AskType)
    <3>1. PICK d \in {"allowed", "refused"} : asks' = [asks EXCEPT ![k].decision = d]
      BY <2>2 DEF Decide
    <3>2. asks[k] \in AskType
      OBVIOUS
    <3>3. [asks[k] EXCEPT !.decision = d] \in AskType
      BY <3>2 DEF AskType
    <3>4. asks' = [asks EXCEPT ![k] = [asks[k] EXCEPT !.decision = d]]
      BY <3>1
    <3> QED
      BY <3>3, <3>4
  <2>3. CASE asks' = asks
    BY <2>3
  <2> QED
    BY <2>1, <2>2, <2>3
       DEF Next, Run, FindRead, Reuse, Miss, Lapse, MarkExpired, BlockRead, Refuse,
           Issue, Reject, Return, Begin, Revoke, RevokeSession, RevokeCapsule,
           Tick, Restart
<1>4. hist' \in [Requests -> HistType]
  <2>1. NoHist \in HistType
    BY DEF NoHist, HistType
  <2>2. ASSUME NEW r \in Requests, NEW s \in Scopes, Begin(r, s)
        PROVE  hist' \in [Requests -> HistType]
    <3>1. PICK top \in Snapshots(TargetRows(s.target)) :
             hist' = [hist EXCEPT ![r] =
               [revoked |-> Revoked,
                blocker |-> IF top.status = "REVOKED" /\ db[top.id].session = s.session
                            THEN top.id ELSE 0]]
      BY <2>2 DEF Begin
    <3>2. top.id \in Nat
      BY SnapshotRow DEF TargetRows, SeenType
    <3>3. Revoked \in SUBSET Nat
      BY DEF Revoked, Ids
    <3>4. [revoked |-> Revoked,
           blocker |-> IF top.status = "REVOKED" /\ db[top.id].session = s.session
                       THEN top.id ELSE 0] \in HistType
      BY <3>2, <3>3 DEF HistType
    <3> QED
      BY <3>1, <3>4
  <2>3. CASE (\E r \in Requests : Return(r)) \/ Restart
    BY <2>1, <2>3 DEF Return, Restart
  <2>4. CASE hist' = hist
    BY <2>4
  <2> QED
    BY <2>2, <2>3, <2>4
       DEF Next, Run, FindRead, Reuse, Miss, Lapse, MarkExpired, BlockRead, Refuse,
           Ask, Issue, Reject, Decide, Revoke, RevokeSession, RevokeCapsule, Tick
<1>5. req' \in [Requests -> ReqType] /\ ScopeInv'
  <2> USE DEF ScopeInv
  <2>1. ASSUME NEW r \in Requests, Run(r)
        PROVE  req' \in [Requests -> ReqType] /\ ScopeInv'
    BY <2>1, TypeRun DEF Busy, At
  <2>2. Idle \in ReqType /\ Idle.pc = "idle"
    BY DEF Idle, ReqType, Phases, SeenType, NoRow, Answers
  <2>3. ASSUME NEW r \in Requests, NEW s \in Scopes, Begin(r, s)
        PROVE  req' \in [Requests -> ReqType] /\ ScopeInv'
    <3>1. PICK x \in ReqType : x.scope = s /\ Becomes(r, x)
      <4>1. [Idle EXCEPT !.pc = "find", !.scope = s] \in ReqType
        BY DEF Idle, ReqType, Phases, SeenType, NoRow, Answers
      <4>2. [Idle EXCEPT !.pc = "answered", !.scope = s, !.answer = "LEASE_REJECTED"] \in ReqType
        BY DEF Idle, ReqType, Phases, SeenType, NoRow, Answers, Refusals
      <4>3. Idle.scope = NoScope
        BY DEF Idle
      <4> QED
        BY <2>3, <4>1, <4>2 DEF Begin, Idle
    <3> QED
      BY <3>1 DEF Busy, At, Becomes
  <2>4. CASE (\E r \in Requests : Return(r)) \/ Restart
    BY <2>2, <2>4 DEF Return, Restart, Becomes, Busy, At
  <2>5. CASE req' = req
    BY <2>5 DEF Busy, At
  <2> QED
    BY <2>1, <2>3, <2>4, <2>5
       DEF Next, Decide, Revoke, RevokeSession, RevokeCapsule, Tick
<1> QED
  BY <1>1, <1>2, <1>3, <1>4, <1>5

\* The types of LeaseGateway hold in every reachable state.
THEOREM TypeCorrect == Spec => []TypeOK
<1>1. TypeInv /\ UNCHANGED vars => TypeInv'
  BY DEF TypeInv, TypeOK, ScopeInv, Busy, At, vars
<1>2. TypeInv => TypeOK
  BY DEF TypeInv
<1> QED
  BY TypeInit, TypeStep, <1>1, <1>2, PTL DEF Spec

-----------------------------------------------------------------------------
(* The table only grows *)

\* What no step may do to the rows and the clock: drop a row, change a column
\* other than the status, make a row ACTIVE again, turn time back.
SameRow(i) == /\ db'[i].capsule = db[i].capsule /\ db'[i].instance = db[i].instance
              /\ db'[i].session = db[i].session /\ db'[i].target = db[i].target
              /\ db'[i].actions = db[i].actions /\ db'[i].expires = db[i].expires
              /\ db'[i].ask = db[i].ask
              /\ db'[i].status = "ACTIVE" => db[i].status = "ACTIVE"

Monotone == /\ now <= now'
            /\ \A i \in Ids : i \in Ids' /\ SameRow(i)

\* Every step of the runtime, the host and capsulectl respects it.
LEMMA Grows ==
    ASSUME TypeInv, Next
    PROVE  Monotone
<1> USE DEF TypeInv, TypeOK
<1>0. \A i \in Ids : db[i] \in RowType
  BY DEF Ids
<1>1. now <= now'
  <2>0. now \in Nat
    OBVIOUS
  <2> HIDE DEF TypeInv, TypeOK
  <2>1. CASE Tick
    <3>1. now' = now + 1
      BY <2>1 DEF Tick
    <3> QED
      BY <2>0, <3>1
  <2>2. ASSUME NEW r \in Requests, Run(r) PROVE now' = now
    BY <2>2 DEF Run, FindRead, Reuse, Miss, Lapse, MarkExpired, BlockRead, Refuse, Ask,
                Issue, Reject
  <2>3. CASE now' = now
    BY <2>0, <2>3
  <2> QED
    BY <2>1, <2>2, <2>3 DEF Next, Return, Begin, Decide, Revoke, RevokeSession,
                            RevokeCapsule, Restart
<1>2. ASSUME NEW I, NEW st \in {"EXPIRED", "REVOKED"}, db' = SetStatus(I, st)
      PROVE  \A i \in Ids : i \in Ids' /\ SameRow(i)
  <2>1. st \in Status
    BY DEF Status
  <2>2. /\ Ids' = Ids
        /\ \A i \in Ids : db'[i] = [db[i] EXCEPT !.status = st] \/ db'[i] = db[i]
    BY <1>2, <2>1, SetStatusRows DEF Ids
  <2> QED
    BY <1>0, <2>2 DEF SameRow, RowType
<1>3. CASE db' = db
  BY <1>1, <1>3 DEF Ids, SameRow, Monotone
<1>4. CASE RevokesRows \/ \E r \in Requests : MarkExpired(r)
  BY <1>1, <1>2, <1>4 DEF RevokesRows, MarkExpired, Monotone
<1>5. CASE \E r \in Requests : IssuesRow(r)
  BY <1>1, <1>5, AppendRow DEF IssuesRow, Ids, SameRow, Monotone
<1> QED
  BY <1>3, <1>4, <1>5, DbStep

-----------------------------------------------------------------------------
(* EXPIRED leases are over *)

\* Every step keeps ExpiredIsPast: MarkExpired is the only one to write it.
LEMMA ExpiredStep ==
    ASSUME TypeInv, ExpiredIsPast, \A r \in Requests : SeenInv(r), Next
    PROVE  ExpiredIsPast'
<1>1. /\ db \in Seq(RowType) /\ now \in Nat /\ now' \in Nat
      /\ \A i \in Ids : db[i] \in RowType
      /\ \A i \in Ids : db[i].expires \in Int
      /\ "EXPIRED" \in Status /\ "REVOKED" \in Status
  <2>1. db \in Seq(RowType) /\ now \in Nat /\ now' \in Nat
    BY TypeStep DEF TypeInv, TypeOK
  <2>2. \A i \in Ids : db[i] \in RowType
    BY <2>1 DEF Ids
  <2> QED
    BY <2>1, <2>2 DEF RowType, Status
<1>2. now <= now' /\ \A i \in Ids : db'[i].expires = db[i].expires
  BY Grows DEF Monotone, SameRow
<1>3. SUFFICES ASSUME NEW i \in Ids', db'[i].status = "EXPIRED"
               PROVE  i \in Ids /\ db[i].expires <= now
  <2>1. ASSUME NEW i \in Ids', db'[i].status = "EXPIRED" PROVE db'[i].expires <= now'
    BY <1>1, <1>2, <1>3, <2>1
  <2> QED
    BY <2>1 DEF ExpiredIsPast
<1>4. CASE db' = db
  BY <1>3, <1>4 DEF ExpiredIsPast, Ids
<1>5. CASE RevokesRows
  <2>1. PICK I : db' = SetStatus(I, "REVOKED")
    BY <1>5 DEF RevokesRows
  <2>2. Ids' = Ids /\ (i \in I => db'[i].status = "REVOKED")
                   /\ (i \notin I => db'[i] = db[i])
    BY <1>1, <1>3, <2>1, StatusWrite
  <2> QED
    BY <1>3, <2>2 DEF ExpiredIsPast
<1>6. CASE \E r \in Requests : MarkExpired(r)
  <2>1. PICK r \in Requests : MarkExpired(r)
    BY <1>6
  <2>2. db[req[r].seen.id].expires <= now
    BY <2>1 DEF MarkExpired, At, SeenInv
  <2>3. db' = SetStatus({req[r].seen.id}, "EXPIRED")
    BY <2>1 DEF MarkExpired
  <2>4. /\ Ids' = Ids
        /\ \A j \in Ids : j \notin {req[r].seen.id} => db'[j] = db[j]
    BY <1>1, <2>3, StatusWrite
  <2> QED
    BY <1>3, <2>2, <2>4 DEF ExpiredIsPast
<1>7. CASE \E r \in Requests : IssuesRow(r)
  <2>1. PICK r \in Requests : IssuesRow(r)
    BY <1>7
  <2>2. NewRow(req[r].scope, req[r].ask).status = "ACTIVE"
    BY DEF NewRow
  <2>3. i \in Ids /\ db'[i] = db[i]
    BY <1>1, <1>3, <2>1, <2>2, AppendRow DEF IssuesRow, Ids
  <2> QED
    BY <1>3, <2>3 DEF ExpiredIsPast
<1> QED
  BY <1>4, <1>5, <1>6, <1>7, DbStep

-----------------------------------------------------------------------------
(* What the slots remember *)

\* Nothing that others do to the table spoils what a slot remembers of it.
LEMMA Untouched ==
    ASSUME TypeInv, Monotone, now' \in Nat, NEW r \in Requests, SeenInv(r), HistInv(r),
           req'[r] = req[r], hist'[r] = hist[r]
    PROVE  SeenInv(r)' /\ HistInv(r)'
<1>1. \A i \in Ids : db[i].expires \in Int
  <2>1. db \in Seq(RowType)
    BY DEF TypeInv, TypeOK
  <2>2. \A i \in Ids : db[i] \in RowType
    BY <2>1 DEF Ids
  <2> QED
    BY <2>2 DEF RowType
<1>2. now \in Nat
  BY DEF TypeInv, TypeOK
<1>3. \A s : \A i \in KeyRows(s) : i \in KeyRows(s)'
  BY DEF Monotone, SameRow, KeyRows
<1>4. \A t : \A i \in TargetRows(t) : i \in TargetRows(t)'
  BY DEF Monotone, SameRow, TargetRows
<1>5. \A i \in Ids :
         /\ i \in Ids' /\ db'[i].expires = db[i].expires
         /\ (db[i].expires <= now) => (db'[i].expires <= now')
         /\ (db'[i].status = "ACTIVE") => (db[i].status = "ACTIVE")
  BY <1>1, <1>2 DEF Monotone, SameRow
<1>6. SeenInv(r)'
  BY <1>3, <1>4, <1>5 DEF SeenInv
<1>7. HistInv(r)'
  BY <1>5 DEF HistInv
<1> QED
  BY <1>6, <1>7

\* A new request, and a slot that is free again.
LEMMA Fresh ==
    ASSUME NEW r \in Requests, req'[r].seen = NoRow, req'[r].answer # "GRANTED",
           req'[r].pc \in {"idle", "find", "answered"},
           \A i \in hist'[r].revoked : i \in Ids' /\ db'[i].status # "ACTIVE"
    PROVE  SeenInv(r)' /\ HistInv(r)'
<1>1. req'[r].seen.status = "NONE" /\ req'[r].seen.id = 0
  BY DEF NoRow
<1>2. req'[r].pc \notin {"matched", "expire", "latest", "approval"}
  OBVIOUS
<1>3. SeenInv(r)'
  BY <1>1, <1>2 DEF SeenInv
<1>4. HistInv(r)'
  BY <1>1, <1>2 DEF HistInv
<1> QED
  BY <1>3, <1>4

\* The step of a request keeps what its own slot remembers.
LEMMA RunSeen ==
    ASSUME TypeInv, Monotone, NEW r \in Requests, SeenInv(r), HistInv(r), Run(r),
           now' \in Nat
    PROVE  SeenInv(r)' /\ HistInv(r)'
<1>1. /\ db \in Seq(RowType) /\ now \in Nat /\ req[r] \in ReqType
      /\ req \in [Requests -> ReqType]
  BY DEF TypeInv, TypeOK
<1>2. \A i \in Ids : db[i].expires \in Int
  <2>1. \A i \in Ids : db[i] \in RowType
    BY <1>1 DEF Ids
  <2> QED
    BY <2>1 DEF RowType
<1>3. \A i \in Ids : i \in Ids' /\ db'[i].expires = db[i].expires
                    /\ (db'[i].status = "ACTIVE" => db[i].status = "ACTIVE")
  BY DEF Monotone, SameRow
<1>4. \A x : Becomes(r, x) => req'[r] = x
  BY <1>1 DEF Becomes
<1>5. ASSUME NEW pc, Goto(r, pc)
      PROVE  /\ req'[r].pc = pc /\ req'[r].seen = req[r].seen
             /\ req'[r].scope = req[r].scope /\ req'[r].answer = req[r].answer
  BY <1>1, <1>4, <1>5 DEF ReqType, Goto
<1>6. CASE FindRead(r)
  <2>1. PICK v \in Snapshots(KeyRows(req[r].scope)) :
           req'[r] = [req[r] EXCEPT !.pc = "matched", !.seen = v]
    BY <1>4, <1>6 DEF FindRead
  <2>2. KeyRows(req[r].scope) \subseteq Ids
    BY DEF KeyRows
  <2>3. v.status # "NONE" => v.id \in KeyRows(req[r].scope) /\ v.status = db[v.id].status
    BY <1>1, <2>1, <2>2, SnapshotRow
  <2>4. v.status = "NONE" => v.id = 0
    BY <1>1, <2>1, <2>2, SnapshotRow
  <2>5. /\ req'[r].pc = "matched" /\ req'[r].seen = v
        /\ req'[r].scope = req[r].scope /\ req'[r].answer = req[r].answer
    BY <1>1, <2>1 DEF ReqType
  <2>6. db' = db /\ hist' = hist /\ req[r].pc = "find"
    BY <1>6 DEF FindRead, At
  <2>7. req[r].answer # "GRANTED"
    BY <2>6 DEF SeenInv
  <2>8. SeenInv(r)'
    BY <2>3, <2>4, <2>5, <2>6, <2>7 DEF SeenInv, KeyRows, Ids
  <2>9. HistInv(r)'
    BY <2>3, <2>5, <2>6, <2>7 DEF HistInv, Ids
  <2> QED
    BY <2>8, <2>9
<1>7. CASE BlockRead(r)
  <2>1. PICK v \in Snapshots(TargetRows(req[r].scope.target)) :
           req'[r] = [req[r] EXCEPT !.pc = "latest", !.seen = v]
    BY <1>4, <1>7 DEF BlockRead
  <2>2. TargetRows(req[r].scope.target) \subseteq Ids
    BY DEF TargetRows
  <2>3. v.status # "NONE" => v.id \in TargetRows(req[r].scope.target) /\ v.status = db[v.id].status
    BY <1>1, <2>1, <2>2, SnapshotRow
  <2>4. v.status = "NONE" => v.id = 0
    BY <1>1, <2>1, <2>2, SnapshotRow
  <2>5. /\ req'[r].pc = "latest" /\ req'[r].seen = v
        /\ req'[r].scope = req[r].scope /\ req'[r].answer = req[r].answer
    BY <1>1, <2>1 DEF ReqType
  <2>6. db' = db /\ hist' = hist /\ req[r].pc = "block"
    BY <1>7 DEF BlockRead, At
  <2>7. req[r].answer # "GRANTED"
    BY <2>6 DEF SeenInv
  <2>8. SeenInv(r)'
    BY <2>3, <2>4, <2>5, <2>6, <2>7 DEF SeenInv, TargetRows, Ids
  <2>9. HistInv(r)'
    BY <2>5, <2>6, <2>7 DEF HistInv, Ids
  <2> QED
    BY <2>8, <2>9
<1>8. CASE Miss(r)
  <2>1. req'[r].pc = "block" /\ req[r].pc = "matched" /\ db' = db /\ hist' = hist
    BY <1>5, <1>8 DEF Miss, At
  <2> QED
    BY <1>5, <1>8, <2>1 DEF Miss, SeenInv, HistInv, Ids
<1>9. CASE MarkExpired(r)
  <2>1. req'[r].pc = "block" /\ req[r].pc = "expire" /\ hist' = hist
    BY <1>5, <1>9 DEF MarkExpired, At
  <2> QED
    BY <1>3, <1>5, <1>9, <2>1 DEF MarkExpired, SeenInv, HistInv
<1>10. CASE Lapse(r)
  <2>1. /\ req'[r].pc = "expire" /\ req[r].pc = "matched"
        /\ db' = db /\ hist' = hist /\ now' = now
    BY <1>5, <1>10 DEF Lapse, At
  <2>2. /\ req[r].seen.status = "ACTIVE" /\ req[r].seen.id \in Ids
        /\ db[req[r].seen.id].expires <= now
    BY <1>1, <1>2, <1>10 DEF Lapse, LapsedSeen, SeenActive, Unexpired, SeenInv
  <2> QED
    BY <1>5, <1>10, <2>1, <2>2 DEF Lapse, SeenInv, HistInv, Ids, KeyRows
<1>11. CASE Reuse(r)
  <2>1. /\ req'[r].pc = "answered" /\ req'[r].seen = req[r].seen
        /\ req[r].pc = "matched" /\ req[r].seen.status = "ACTIVE"
        /\ db' = db /\ hist' = hist
    BY <1>1, <1>4, <1>11 DEF Reuse, At, Answer, ReqType, MatchedSeen, SeenActive
  <2> QED
    BY <2>1 DEF SeenInv, HistInv, Ids
<1>12. CASE Refuse(r) \/ Reject(r)
  <2>1. /\ req'[r].pc = "answered" /\ req'[r].seen = req[r].seen
        /\ req'[r].answer # "GRANTED" /\ db' = db /\ hist' = hist
    BY <1>1, <1>4, <1>12 DEF Refuse, Reject, Answer, ReqType
  <2> QED
    BY <2>1 DEF SeenInv, HistInv, Ids
<1>13. CASE Ask(r)
  <2>1. /\ req'[r].pc = "approval" /\ req'[r].seen = req[r].seen
        /\ req'[r].scope = req[r].scope /\ req'[r].answer = req[r].answer
        /\ req[r].pc = "latest" /\ db' = db /\ hist' = hist
    BY <1>1, <1>4, <1>13 DEF Ask, At, ReqType
  <2> QED
    BY <2>1 DEF SeenInv, HistInv, Ids, TargetRows
<1>14. CASE Issue(r) /\ req[r].scope.target \in Malformed
  <2>1. /\ req'[r].pc = "answered" /\ req'[r].seen = req[r].seen
        /\ req'[r].answer # "GRANTED" /\ db' = db /\ hist' = hist
    BY <1>1, <1>4, <1>14 DEF Issue, Answer, ReqType
  <2> QED
    BY <2>1 DEF SeenInv, HistInv, Ids
<1>15. CASE Issue(r) /\ req[r].scope.target \notin Malformed
  <2>0. req'[r] = [req[r] EXCEPT !.pc = "answered", !.answer = "GRANTED",
                     !.seen = [id |-> Len(db) + 1, status |-> "ACTIVE"]]
    BY <1>4, <1>15 DEF Issue
  <2>1. /\ req'[r].pc = "answered"
        /\ req'[r].seen = [id |-> Len(db) + 1, status |-> "ACTIVE"]
        /\ req'[r].seen.id = Len(db) + 1
        /\ hist' = hist /\ db' = Append(db, NewRow(req[r].scope, req[r].ask))
    BY <1>1, <1>15, <2>0 DEF Issue, ReqType
  <2>2. Len(db) + 1 \notin Ids /\ Len(db) + 1 \in Ids'
    BY <1>1, <2>1 DEF Ids
  <2>3. SeenInv(r)'
    BY <2>1, <2>2 DEF SeenInv
  <2>4. \A i \in hist'[r].revoked : i \in Ids /\ i \in Ids' /\ db'[i].status # "ACTIVE"
    BY <1>3, <2>1 DEF HistInv
  <2>5. HistInv(r)'
    BY <2>1, <2>2, <2>4 DEF HistInv
  <2> QED
    BY <2>3, <2>5
<1> QED
  BY <1>6, <1>7, <1>8, <1>9, <1>10, <1>11, <1>12, <1>13, <1>14, <1>15 DEF Run

\* Every step keeps what the slots remember of the table true.
LEMMA SeenStep ==
    ASSUME TypeInv, \A r \in Requests : SeenInv(r) /\ HistInv(r), Next, NEW p \in Requests
    PROVE  SeenInv(p)' /\ HistInv(p)'
<1>1. Monotone
  BY Grows
<1>2. /\ now' \in Nat /\ db \in Seq(RowType) /\ req \in [Requests -> ReqType]
      /\ hist \in [Requests -> HistType]
  BY TypeStep DEF TypeInv, TypeOK
<1>3. CASE req'[p] = req[p] /\ hist'[p] = hist[p]
  BY <1>1, <1>2, <1>3, Untouched
<1>4. CASE req'[p] = Idle /\ hist'[p] = NoHist
  BY <1>4, Fresh DEF Idle, NoHist
<1>5. CASE Run(p)
  BY <1>1, <1>2, <1>5, RunSeen
<1>6. ASSUME NEW s \in Scopes, Begin(p, s) PROVE SeenInv(p)' /\ HistInv(p)'
  <2>1. /\ req'[p] = IF ValidTTL(s) THEN [Idle EXCEPT !.pc = "find", !.scope = s]
                     ELSE [Idle EXCEPT !.pc = "answered", !.scope = s,
                                       !.answer = "LEASE_REJECTED"]
        /\ db' = db /\ hist'[p].revoked = Revoked
    BY <1>2, <1>6 DEF Begin, Becomes
  <2>2. /\ req'[p].seen = NoRow /\ req'[p].answer # "GRANTED"
        /\ req'[p].pc \in {"idle", "find", "answered"}
    BY <2>1 DEF Idle
  <2>3. \A i \in hist'[p].revoked : i \in Ids' /\ db'[i].status # "ACTIVE"
    BY <2>1 DEF Revoked, Ids
  <2> QED
    BY <2>2, <2>3, Fresh
<1>7. ASSUME NEW r \in Requests, NEW s \in Scopes, Begin(r, s), r # p
      PROVE  req'[p] = req[p] /\ hist'[p] = hist[p]
  BY <1>2, <1>7 DEF Begin, Becomes
<1>8. ASSUME NEW r \in Requests, Run(r), r # p
      PROVE  req'[p] = req[p] /\ hist'[p] = hist[p]
  <2>1. hist' = hist
    BY <1>8 DEF Run, FindRead, Reuse, Miss, Lapse, MarkExpired, BlockRead, Refuse, Ask,
                Issue, Reject
  <2> QED
    BY <1>8, <2>1, TypeRun
<1>9. ASSUME NEW r \in Requests, Return(r)
      PROVE  \/ req'[p] = Idle /\ hist'[p] = NoHist
             \/ req'[p] = req[p] /\ hist'[p] = hist[p]
  BY <1>2, <1>9 DEF Return, Becomes
<1>10. CASE Restart
  BY <1>4, <1>10 DEF Restart
<1>11. CASE \/ \E k \in DOMAIN asks : Decide(k)
            \/ \E i \in Ids : Revoke(i)
            \/ \E ses \in Sessions : RevokeSession(ses)
            \/ \E c \in Capsules : RevokeCapsule(c)
            \/ Tick
  BY <1>3, <1>11 DEF Decide, Revoke, RevokeSession, RevokeCapsule, Tick
<1> QED
  BY <1>3, <1>4, <1>5, <1>6, <1>7, <1>8, <1>9, <1>10, <1>11 DEF Next

-----------------------------------------------------------------------------
(* One approval, one lease *)

AskInvs == \A r \in Requests : AskInv(r)

\* A row that was issued on an approval the host allowed for it.
Backed(i) ==
    /\ db[i].ask \in DOMAIN asks
    /\ asks[db[i].ask].decision = "allowed"
    /\ asks[db[i].ask].capsule = db[i].capsule
    /\ asks[db[i].ask].target = db[i].target
    /\ db[i].actions = {asks[db[i].ask].action}
    /\ db[i].expires <= now + asks[db[i].ask].ttl

\* Rows stay backed while the asks they cite keep their contents.
LEMMA StaysBacked ==
    ASSUME TypeInv, TypeInv', Monotone, NEW i \in Ids, Backed(i), DOMAIN asks \subseteq DOMAIN asks',
           asks'[db[i].ask] = asks[db[i].ask]
    PROVE  Backed(i)'
<1>1. now \in Nat /\ now' \in Nat /\ now <= now' /\ i \in Ids' /\ SameRow(i)
  BY DEF TypeInv, TypeOK, Monotone
<1>2. db[i].expires \in Int
  <2>1. db \in Seq(RowType)
    BY DEF TypeInv, TypeOK
  <2>2. db[i] \in RowType
    BY <2>1 DEF Ids
  <2> QED
    BY <2>2 DEF RowType
<1>3. asks[db[i].ask].ttl \in Int
  <2>1. asks \in Seq(AskType)
    BY DEF TypeInv, TypeOK
  <2>2. asks[db[i].ask] \in AskType
    BY <2>1 DEF Backed
  <2> QED
    BY <2>2 DEF AskType
<1>4. db'[i].ask = db[i].ask
  BY <1>1 DEF SameRow
<1>5. db'[i].expires <= now' + asks'[db'[i].ask].ttl
  BY <1>1, <1>2, <1>3, <1>4 DEF SameRow, Backed
<1> QED
  BY <1>1, <1>4, <1>5 DEF SameRow, Backed

\* Steps that neither ask, decide nor issue.
LEMMA AskQuiet ==
    ASSUME TypeInv, TypeInv', Monotone, OneShotApproval, AskInvs,
           asks' = asks, Ids' = Ids,
           \A p \in Requests : req'[p] = req[p] \/ req'[p].pc # "approval"
    PROVE  OneShotApproval' /\ AskInvs'
<1>1. \A i \in Ids : db'[i].ask = db[i].ask
  BY DEF Monotone, SameRow
<1>2. \A i \in Ids' : Backed(i)'
  <2>1. \A i \in Ids : Backed(i)
    BY DEF OneShotApproval, Backed
  <2> QED
    BY <2>1, StaysBacked
<1>3. OneShotApproval'
  <2>1. \A i, j \in Ids' : db'[i].ask = db'[j].ask => i = j
    BY <1>1 DEF OneShotApproval
  <2> QED
    BY <1>2, <2>1 DEF OneShotApproval, Backed
<1>4. AskInvs'
  BY <1>1 DEF AskInvs, AskInv, At, NewAsk
<1> QED
  BY <1>3, <1>4

\* An Ask step appends an ask that only its own slot refers to.
LEMMA AskAsks ==
    ASSUME TypeInv, TypeInv', Monotone, OneShotApproval, AskInvs,
           NEW r \in Requests, Ask(r)
    PROVE  OneShotApproval' /\ AskInvs'
<1> DEFINE n == Len(asks) + 1
<1>1. /\ asks \in Seq(AskType) /\ req \in [Requests -> ReqType] /\ req[r] \in ReqType
      /\ Len(asks) \in Nat
  BY DEF TypeInv, TypeOK
<1>2. /\ asks' = Append(asks, NewAsk(req[r].scope))
      /\ req' = [req EXCEPT ![r] = [req[r] EXCEPT !.pc = "approval", !.ask = n]]
      /\ db' = db /\ now' = now
  BY DEF Ask, Becomes
<1>3. /\ DOMAIN asks' = DOMAIN asks \cup {n} /\ n \notin DOMAIN asks
      /\ \A k \in DOMAIN asks : asks'[k] = asks[k]
      /\ asks'[n] = NewAsk(req[r].scope)
  BY <1>1, <1>2
<1>4. \A i \in Ids : Backed(i)
  BY DEF OneShotApproval, Backed
<1>5. OneShotApproval'
  <2>1. \A i \in Ids : Backed(i)'
    BY <1>3, <1>4, StaysBacked DEF Backed
  <2>2. Ids' = Ids
    BY <1>2 DEF Ids
  <2> QED
    BY <1>2, <2>1, <2>2 DEF OneShotApproval, Backed
<1>6. ASSUME NEW p \in Requests PROVE AskInv(p)'
  <2>1. CASE p = r
    <3>1. req'[r].ask = n /\ req'[r].scope = req[r].scope
      BY <1>1, <1>2 DEF ReqType
    <3>2. [asks'[n] EXCEPT !.decision = "pending"] = NewAsk(req[r].scope)
      BY <1>3 DEF NewAsk
    <3>3. \A i \in Ids : db[i].ask # n
      BY <1>3, <1>4 DEF Backed
    <3>4. \A q \in Requests : q # r => req'[q] = req[q]
      BY <1>1, <1>2
    <3>5. \A q \in Requests : At(q, "approval") => req[q].ask # n
      BY <1>3 DEF AskInvs, AskInv
    <3> QED
      BY <1>2, <1>3, <2>1, <3>1, <3>2, <3>3, <3>4, <3>5 DEF AskInv, At, NewAsk, Ids
  <2>2. CASE p # r
    <3>1. req'[p] = req[p] /\ \A q \in Requests : q # r => req'[q] = req[q]
      BY <1>1, <1>2, <2>2
    <3>2. req'[r].ask = n
      BY <1>1, <1>2 DEF ReqType
    <3>3. At(p, "approval") => /\ req[p].ask \in DOMAIN asks
                               /\ asks'[req[p].ask] = asks[req[p].ask]
      BY <1>3 DEF AskInvs, AskInv
    <3> QED
      BY <1>2, <1>3, <2>2, <3>1, <3>2, <3>3 DEF AskInvs, AskInv, At, NewAsk, Ids
  <2> QED
    BY <2>1, <2>2
<1> QED
  BY <1>5, <1>6 DEF AskInvs

\* A decision of the host changes a pending ask, which backs no lease.
LEMMA AskDecides ==
    ASSUME TypeInv, TypeInv', Monotone, OneShotApproval, AskInvs,
           NEW k \in DOMAIN asks, Decide(k)
    PROVE  OneShotApproval' /\ AskInvs'
<1>1. asks \in Seq(AskType)
  BY DEF TypeInv, TypeOK
<1>2. PICK d \in {"allowed", "refused"} : asks' = [asks EXCEPT ![k].decision = d]
  BY DEF Decide
<1>3. /\ DOMAIN asks' = DOMAIN asks
      /\ asks'[k] = [asks[k] EXCEPT !.decision = d]
      /\ \A j \in DOMAIN asks : j # k => asks'[j] = asks[j]
  BY <1>1, <1>2
<1>4. db' = db /\ req' = req /\ Ids' = Ids /\ asks[k].decision = "pending"
  BY DEF Decide, Ids
<1>5. \A i \in Ids : Backed(i)'
  <2>1. \A i \in Ids : Backed(i)
    BY DEF OneShotApproval, Backed
  <2> QED
    BY <1>3, <1>4, <2>1, StaysBacked DEF Backed
<1>6. OneShotApproval'
  BY <1>4, <1>5 DEF OneShotApproval, Backed
<1>7. \A j \in DOMAIN asks : [asks'[j] EXCEPT !.decision = "pending"]
                              = [asks[j] EXCEPT !.decision = "pending"]
  BY <1>1, <1>3 DEF AskType
<1>8. AskInvs'
  BY ZenonT(60), <1>3, <1>4, <1>7 DEF AskInvs, AskInv, At, NewAsk
<1> QED
  BY <1>6, <1>8

\* An Issue step spends an allowed ask that no lease rests on yet.
LEMMA AskIssues ==
    ASSUME TypeInv, TypeInv', Monotone, OneShotApproval, AskInvs,
           NEW r \in Requests, IssuesRow(r)
    PROVE  OneShotApproval' /\ AskInvs'
<1> DEFINE s == req[r].scope  a == req[r].ask
<1>0. PICK n : n = Len(db) + 1
  OBVIOUS
<1>1. db \in Seq(RowType) /\ req \in [Requests -> ReqType] /\ req[r] \in ReqType
      /\ asks \in Seq(AskType) /\ now \in Nat
  BY DEF TypeInv, TypeOK
<1>2. /\ db' = Append(db, NewRow(s, a)) /\ asks' = asks /\ now' = now
      /\ At(r, "approval") /\ asks[a].decision = "allowed"
  BY DEF IssuesRow, Issue, Allowed
<1>3. /\ Ids' = Ids \cup {n} /\ n \notin Ids
      /\ \A i \in Ids : db'[i] = db[i]
      /\ db'[n] = NewRow(s, a)
  BY <1>0, <1>1, <1>2, AppendRow DEF IssuesRow, Ids
<1>4. /\ a \in DOMAIN asks /\ [asks[a] EXCEPT !.decision = "pending"] = NewAsk(s)
      /\ \A i \in Ids : db[i].ask # a
      /\ \A p \in Requests : At(p, "approval") /\ p # r => req[p].ask # a
  BY <1>2 DEF AskInvs, AskInv
<1>5. /\ asks[a].capsule = s.capsule /\ asks[a].target = s.target
      /\ asks[a].action = s.action /\ asks[a].ttl = s.ttl
  <2>1. asks[a] \in AskType
    BY <1>1, <1>4
  <2> QED
    BY <1>4, <2>1 DEF NewAsk, AskType
<1>6. Backed(n)'
  <2>1. /\ db'[n].ask = a /\ db'[n].capsule = s.capsule /\ db'[n].target = s.target
        /\ db'[n].actions = {s.action} /\ db'[n].expires = now + s.ttl
    BY <1>3 DEF NewRow
  <2>2. s.ttl \in Int
    BY ScopeFields DEF IssuesRow
  <2> QED
    BY <1>1, <1>2, <1>4, <1>5, <2>1, <2>2 DEF Backed
<1>7. \A i \in Ids : Backed(i)'
  <2>1. \A i \in Ids : Backed(i)
    BY DEF OneShotApproval, Backed
  <2> QED
    BY <1>2, <2>1, StaysBacked
<1>8. OneShotApproval'
  <2>1. db'[n].ask = a
    BY <1>3 DEF NewRow
  <2>2. \A i, j \in Ids' : db'[i].ask = db'[j].ask => i = j
    BY <1>3, <1>4, <2>1 DEF OneShotApproval
  <2> QED
    BY <1>3, <1>6, <1>7, <2>2 DEF OneShotApproval, Backed
<1>9. ASSUME NEW p \in Requests PROVE AskInv(p)'
  <2>1. req'[r].pc = "answered" /\ \A q \in Requests : q # r => req'[q] = req[q]
    <3>1. \E x \in {[req[r] EXCEPT !.pc = "answered", !.answer = "INVALID_RESOURCE"],
                    [req[r] EXCEPT !.pc = "answered", !.answer = "GRANTED",
                       !.seen = [id |-> Len(db) + 1, status |-> "ACTIVE"]]} :
             req' = [req EXCEPT ![r] = x]
      BY DEF IssuesRow, Issue, Answer, Becomes
    <3> QED
      BY ZenonT(60), <1>1, <3>1 DEF ReqType
  <2>2. db'[n].ask = a
    BY <1>3 DEF NewRow
  <2>3. CASE p = r
    BY <2>1, <2>3 DEF AskInv, At
  <2>4. CASE p # r /\ req[p].pc = "approval"
    <3>1. AskInv(p) /\ req'[p] = req[p]
      BY <2>1, <2>4 DEF AskInvs
    <3>2. \A i \in Ids' : db'[i].ask # req'[p].ask
      BY <1>3, <1>4, <2>2, <2>4, <3>1 DEF AskInv, At
    <3>3. \A q \in Requests : req'[q].pc = "approval" /\ q # p => req'[q].ask # req'[p].ask
      BY <2>1, <2>4, <3>1 DEF AskInv, At
    <3> QED
      BY <1>2, <2>4, <3>1, <3>2, <3>3 DEF AskInv, At, NewAsk
  <2>5. CASE p # r /\ req[p].pc # "approval"
    BY <2>1, <2>5 DEF AskInv, At
  <2> QED
    BY <2>3, <2>4, <2>5
<1> QED
  BY <1>8, <1>9 DEF AskInvs

\* Every step keeps the asks and the leases they back in order.
LEMMA AskStep ==
    ASSUME TypeInv, OneShotApproval, AskInvs, Next
    PROVE  OneShotApproval' /\ AskInvs'
<1>1. TypeInv' /\ Monotone
  BY TypeStep, Grows
<1>2. req \in [Requests -> ReqType] /\ db \in Seq(RowType)
  BY DEF TypeInv, TypeOK
<1>3. ASSUME NEW r \in Requests, Run(r)
      PROVE  OneShotApproval' /\ AskInvs'
  <2>1. CASE Ask(r)
    BY <1>1, <2>1, AskAsks
  <2>2. CASE IssuesRow(r)
    BY <1>1, <2>2, AskIssues
  <2>3. CASE ~Ask(r) /\ db' = db
    <3>1. asks' = asks
      BY <1>3, <2>3 DEF Run, FindRead, Reuse, Miss, Lapse, MarkExpired, BlockRead,
                        Refuse, Issue, Reject
    <3>2. req'[r].pc # "approval"
      <4>1. \E x : x.pc # "approval" /\ req' = [req EXCEPT ![r] = x]
        <5>1. \A pc \in Phases : [req[r] EXCEPT !.pc = pc].pc = pc
          BY <1>2 DEF ReqType
        <5>2. \A v : [req[r] EXCEPT !.pc = "matched", !.seen = v].pc = "matched"
          BY <1>2 DEF ReqType
        <5>3. \A v : [req[r] EXCEPT !.pc = "latest", !.seen = v].pc = "latest"
          BY <1>2 DEF ReqType
        <5>4. \A v : [req[r] EXCEPT !.pc = "answered", !.answer = v].pc = "answered"
          BY <1>2 DEF ReqType
        <5>5. \A v : [req[r] EXCEPT !.pc = "answered", !.answer = "GRANTED",
                         !.seen = v].pc = "answered"
          BY <1>2 DEF ReqType
        <5>6. CASE FindRead(r) \/ BlockRead(r)
          BY <5>2, <5>3, <5>6 DEF FindRead, BlockRead, Becomes
        <5>7. CASE Miss(r) \/ Lapse(r) \/ MarkExpired(r)
          BY ZenonT(60), <5>1, <5>7 DEF Miss, Lapse, MarkExpired, Goto, Becomes, Phases
        <5>8. CASE Reuse(r) \/ Refuse(r) \/ Reject(r)
          BY <5>4, <5>8 DEF Reuse, Refuse, Reject, Answer, Becomes
        <5>9. CASE Issue(r)
          BY <5>4, <5>5, <5>9 DEF Issue, Answer, Becomes
        <5> QED
          BY <1>3, <2>3, <5>6, <5>7, <5>8, <5>9 DEF Run
      <4> QED
        BY <1>2, <4>1
    <3>3. Ids' = Ids /\ \A p \in Requests : p # r => req'[p] = req[p]
      BY <1>3, <2>3, TypeRun DEF Ids
    <3> QED
      BY <1>1, <3>1, <3>2, <3>3, AskQuiet
  <2>4. CASE MarkExpired(r)
    <3>1. Ids' = Ids /\ asks' = asks
      BY <1>2, <2>4, StatusWrite DEF MarkExpired, Status
    <3>2. req'[r].pc # "approval"
      BY <1>2, <2>4 DEF MarkExpired, Goto, Becomes, ReqType
    <3>3. \A p \in Requests : p # r => req'[p] = req[p]
      BY <1>3, TypeRun
    <3> QED
      BY <1>1, <3>1, <3>2, <3>3, AskQuiet
  <2>5. db' = db \/ MarkExpired(r) \/ IssuesRow(r)
    BY <1>3, DbRun
  <2> QED
    BY <2>1, <2>2, <2>3, <2>4, <2>5
<1>4. ASSUME NEW k \in DOMAIN asks, Decide(k) PROVE OneShotApproval' /\ AskInvs'
  BY <1>1, <1>4, AskDecides
<1>5. CASE RevokesRows
  <2>1. Ids' = Ids /\ asks' = asks /\ req' = req
    BY <1>2, <1>5, StatusWrite DEF RevokesRows, Status
  <2> QED
    BY <1>1, <2>1, AskQuiet
<1>6. CASE (\E r \in Requests : Return(r) \/ \E s \in Scopes : Begin(r, s)) \/ Restart \/ Tick
  <2>1. Ids' = Ids /\ asks' = asks
    BY <1>6 DEF Return, Begin, Restart, Tick, Ids
  <2>2. \A p \in Requests : req'[p] = req[p] \/ req'[p].pc # "approval"
    <3>1. Idle.pc = "idle"
      BY DEF Idle
    <3>2. ASSUME NEW r \in Requests, NEW s \in Scopes, Begin(r, s), NEW p \in Requests
          PROVE  req'[p] = req[p] \/ req'[p].pc # "approval"
      <4>1. /\ [Idle EXCEPT !.pc = "find", !.scope = s].pc # "approval"
            /\ [Idle EXCEPT !.pc = "answered", !.scope = s,
                            !.answer = "LEASE_REJECTED"].pc # "approval"
        BY DEF Idle
      <4> QED
        BY <1>2, <3>2, <4>1 DEF Begin, Becomes
    <3> QED
      BY <1>2, <1>6, <3>1, <3>2 DEF Return, Restart, Tick, Becomes
  <2> QED
    BY <1>1, <2>1, <2>2, AskQuiet
<1>7. ASSUME \/ \E i \in Ids : Revoke(i)
             \/ \E ses \in Sessions : RevokeSession(ses)
             \/ \E c \in Capsules : RevokeCapsule(c)
      PROVE  RevokesRows
  BY <1>7 DEF Revoke, RevokeSession, RevokeCapsule, RevokesRows
<1> QED
  BY <1>3, <1>4, <1>5, <1>6, <1>7 DEF Next

-----------------------------------------------------------------------------
(* The invariant and its consequences *)

\* The inductive invariant holds initially.
LEMMA IInvInit == Init => IInv
<1> SUFFICES ASSUME Init PROVE IInv
  OBVIOUS
<1>1. TypeInv
  BY TypeInit
<1>2. Ids = {}
  BY DEF Init, Ids
<1>3. OneShotApproval /\ ExpiredIsPast
  BY <1>2 DEF OneShotApproval, ExpiredIsPast
<1>4. ASSUME NEW r \in Requests PROVE SeenInv(r) /\ AskInv(r) /\ HistInv(r)
  BY DEF Init, Idle, NoHist, NoRow, SeenInv, AskInv, HistInv, At
<1> QED
  BY <1>1, <1>3, <1>4 DEF IInv

\* Every step keeps the inductive invariant.
LEMMA IInvNext == IInv /\ [Next]_vars => IInv'
<1> SUFFICES ASSUME IInv, [Next]_vars PROVE IInv'
  OBVIOUS
<1> USE DEF IInv
<1>1. CASE Next
  <2>1. TypeInv'
    BY <1>1, TypeStep
  <2>2. ExpiredIsPast'
    BY <1>1, ExpiredStep
  <2>3. OneShotApproval' /\ AskInvs'
    BY <1>1, AskStep DEF AskInvs
  <2>4. \A r \in Requests : SeenInv(r)' /\ HistInv(r)'
    BY <1>1, SeenStep
  <2> QED
    BY <2>1, <2>2, <2>3, <2>4 DEF AskInvs
<1>2. CASE UNCHANGED vars
  BY <1>2 DEF vars, TypeInv, TypeOK, ScopeInv, Busy, At, OneShotApproval, ExpiredIsPast,
              Ids, SeenInv, AskInv, HistInv, KeyRows, TargetRows, NewAsk
<1> QED
  BY <1>1, <1>2

\* The inductive invariant, and with it each of its parts, always holds.
THEOREM Invariance == Spec => []IInv
BY IInvInit, IInvNext, PTL DEF Spec

\* Every lease rests on an approval of its own (OneShotApproval).
THEOREM OneShotApprovalHolds == Spec => []OneShotApproval
<1>1. IInv => OneShotApproval
  BY DEF IInv
<1> QED
  BY Invariance, <1>1, PTL

\* A status EXPIRED is only found on leases that are over (ExpiredIsPast).
THEOREM ExpiredIsPastHolds == Spec => []ExpiredIsPast
<1>1. IInv => ExpiredIsPast
  BY DEF IInv
<1> QED
  BY Invariance, <1>1, PTL

\* A lease revoked before a request began is not what it gets
\* (NoGrantAfterRevoke).
THEOREM NoGrantAfterRevokeHolds == Spec => []NoGrantAfterRevoke
<1>1. IInv => NoGrantAfterRevoke
  BY DEF IInv, HistInv, NoGrantAfterRevoke
<1> QED
  BY Invariance, <1>1, PTL

=============================================================================
