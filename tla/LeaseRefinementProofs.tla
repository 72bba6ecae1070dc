------------------------ MODULE LeaseRefinementProofs ------------------------
(* LeaseGateway implements LeaseSpec, for every value of its constants: the *)
(* theorem Implementation, with one lemma for each way in which a step of   *)
(* the gateway looks from outside.                                          *)
EXTENDS LeaseRefinement, LeaseGatewayProofs

-----------------------------------------------------------------------------
(* The invariant that the mapping needs *)

\* A slot without a request wants nothing.
SlotInv(r) == At(r, "idle") => req[r].scope = NoScope

RInv == IInv /\ \A r \in Requests : SlotInv(r)

\* A free slot has no scope left, also after every step.
LEMMA SlotStep ==
    ASSUME TypeInv, Next, NEW p \in Requests, SlotInv(p)
    PROVE  SlotInv(p)'
<1>1. req \in [Requests -> ReqType]
  BY DEF TypeInv, TypeOK
<1>2. CASE req'[p] = req[p]
  BY <1>2 DEF SlotInv, At
<1>3. CASE req'[p] = Idle
  BY <1>3 DEF SlotInv, At, Idle
<1>4. ASSUME NEW r \in Requests, Run(r) PROVE SlotInv(p)'
  BY <1>2, <1>4, TypeRun DEF SlotInv, Busy, At
<1>5. ASSUME NEW r \in Requests, NEW s \in Scopes, Begin(r, s) PROVE SlotInv(p)'
  <2>1. req'[r].pc # "idle"
    BY <1>1, <1>5 DEF Begin, Becomes, Idle
  <2>2. p # r => req'[p] = req[p]
    BY <1>1, <1>5 DEF Begin, Becomes
  <2> QED
    BY <1>2, <2>1, <2>2 DEF SlotInv, At
<1>6. CASE (\E r \in Requests : Return(r)) \/ Restart
  <2>1. req'[p] = req[p] \/ req'[p] = Idle
    BY <1>1, <1>6 DEF Return, Restart, Becomes
  <2> QED
    BY <1>2, <1>3, <2>1
<1>7. CASE \/ \E k \in DOMAIN asks : Decide(k)
           \/ \E i \in Ids : Revoke(i)
           \/ \E ses \in Sessions : RevokeSession(ses)
           \/ \E c \in Capsules : RevokeCapsule(c)
           \/ Tick
  BY <1>2, <1>7 DEF Decide, Revoke, RevokeSession, RevokeCapsule, Tick
<1> QED
  BY <1>4, <1>5, <1>6, <1>7 DEF Next

\* The invariant always holds.
LEMMA RInvariance == Spec => []RInv
<1>1. Init => RInv
  <2>1. Init => \A r \in Requests : SlotInv(r)
    BY DEF Init, SlotInv, Idle
  <2> QED
    BY <2>1, IInvInit DEF RInv
<1>2. RInv /\ [Next]_vars => RInv'
  <2> SUFFICES ASSUME RInv, [Next]_vars PROVE RInv'
    OBVIOUS
  <2>1. IInv'
    BY IInvNext DEF RInv
  <2>2. CASE Next
    BY <2>1, <2>2, SlotStep DEF RInv, IInv
  <2>3. CASE UNCHANGED vars
    BY <2>1, <2>3 DEF RInv, SlotInv, At, vars
  <2> QED
    BY <2>2, <2>3
<1> QED
  BY <1>1, <1>2, PTL DEF Spec

-----------------------------------------------------------------------------
(* The mapped variables *)

Wants  == [r \in Requests |-> req[r].scope]
Givens == [r \in Requests |-> Given(r)]
Barred == [r \in Requests |-> hist[r].revoked]

\* What is wanted and given where a request is in progress.
LEMMA InProgress ==
    ASSUME RInv, NEW r \in Requests, Busy(r)
    PROVE  /\ Wants[r] = req[r].scope /\ req[r].scope \in Scopes /\ Wants[r] # NoScope
           /\ Barred[r] = hist[r].revoked
           /\ req[r].pc # "answered" => Givens[r] = 0
<1>1. req[r].scope \in Scopes
  BY DEF RInv, IInv, TypeInv, ScopeInv
<1>2. req[r].pc # "answered" => Given(r) = 0
  BY DEF RInv, IInv, SeenInv, Given
<1> QED
  BY <1>1, <1>2, ScopesAssumption DEF Wants, Givens, Barred

\* A slot that is moved without a new scope or a grant looks the same.
LEMMA LooksTheSame ==
    ASSUME RInv, NEW r \in Requests, hist' = hist,
           \A p \in Requests : p # r => req'[p] = req[p],
           req'[r].scope = req[r].scope, Given(r)' = Given(r)
    PROVE  Wants' = Wants /\ Givens' = Givens /\ Barred' = Barred
BY DEF Wants, Givens, Barred, Given

\* A slot that is granted a lease is given the row it saw last.
LEMMA LooksGiven ==
    ASSUME RInv, NEW r \in Requests, hist' = hist,
           \A p \in Requests : p # r => req'[p] = req[p],
           req'[r].scope = req[r].scope, req'[r].answer = "GRANTED"
    PROVE  /\ Wants' = Wants /\ Barred' = Barred
           /\ Givens' = [Givens EXCEPT ![r] = req'[r].seen.id]
BY DEF Wants, Givens, Barred, Given

-----------------------------------------------------------------------------
(* How each step looks *)

\* A request that reads, judges, is refused or not granted: nothing is seen.
LEMMA QuietSteps ==
    ASSUME RInv, NEW r \in Requests, Run(r),
           db' = db, asks' = asks, req'[r].answer # "GRANTED"
    PROVE  UNCHANGED Promised!lvars
<1>1. now' = now /\ hist' = hist
  BY DEF Run, FindRead, Reuse, Miss, Lapse, MarkExpired, BlockRead, Refuse, Ask, Issue,
         Reject
<1>2. /\ req'[r].scope = req[r].scope /\ Busy(r)
      /\ \A p \in Requests : p # r => req'[p] = req[p]
  BY TypeRun DEF RInv, IInv
<1>3. req[r].pc # "answered"
  BY DEF Run, FindRead, Reuse, Miss, Lapse, MarkExpired, BlockRead, Refuse, Ask, Issue,
         Reject, At
<1>4. Given(r) = 0 /\ Given(r)' = 0
  BY <1>3 DEF RInv, IInv, SeenInv, Given
<1>5. Wants' = Wants /\ Givens' = Givens /\ Barred' = Barred
  BY <1>1, <1>2, <1>4, LooksTheSame
<1> QED
  BY <1>1, <1>5 DEF Promised!lvars, Wants, Givens, Barred

\* The approval asked for is the consent to what the request wants.
LEMMA AskLooks ==
    ASSUME RInv, NEW r \in Requests, Ask(r)
    PROVE  Promised!LNext
<1>1. /\ req \in [Requests -> ReqType] /\ req[r] \in ReqType
      /\ req[r].pc = "latest" /\ Run(r) /\ Busy(r)
  BY DEF RInv, IInv, TypeInv, TypeOK, Ask, At, Run, Busy
<1>2. /\ req'[r].scope = req[r].scope /\ req'[r].answer = req[r].answer
      /\ \A p \in Requests : p # r => req'[p] = req[p]
  BY <1>1 DEF Ask, Becomes, ReqType
<1>3. Given(r) = 0 /\ Given(r)' = 0
  BY <1>1, <1>2 DEF RInv, IInv, SeenInv, Given
<1>4. Wants' = Wants /\ Givens' = Givens /\ Barred' = Barred
  BY <1>2, <1>3, LooksTheSame DEF Ask
<1>5. Wants[r] = req[r].scope /\ req[r].scope \in Scopes
  BY <1>1, InProgress
<1>6. Promised!AskConsent(req[r].scope)
  BY <1>4, <1>5 DEF Ask, NewAsk, Promised!AskConsent, Wants, Givens, Barred
<1> QED
  BY <1>5, <1>6 DEF Promised!LNext

\* The mark EXPIRED ends a lease whose time is over.
LEMMA MarkLooks ==
    ASSUME RInv, NEW r \in Requests, MarkExpired(r)
    PROVE  Promised!LNext
<1> DEFINE i == req[r].seen.id
<1>1. /\ req \in [Requests -> ReqType] /\ req[r] \in ReqType /\ db \in Seq(RowType)
      /\ req[r].pc = "expire" /\ Run(r)
  BY DEF RInv, IInv, TypeInv, TypeOK, MarkExpired, At, Run
<1>2. /\ req'[r].scope = req[r].scope /\ req'[r].answer = req[r].answer
      /\ \A p \in Requests : p # r => req'[p] = req[p]
  BY <1>1 DEF MarkExpired, Goto, Becomes, ReqType
<1>3. Given(r) = 0 /\ Given(r)' = 0
  BY <1>1, <1>2 DEF RInv, IInv, SeenInv, Given
<1>4. Wants' = Wants /\ Givens' = Givens /\ Barred' = Barred
  BY <1>2, <1>3, LooksTheSame DEF MarkExpired
<1>5. i \in Ids /\ db[i].expires <= now
  BY <1>1 DEF RInv, IInv, SeenInv
<1>6. db' = [db EXCEPT ![i] = [db[i] EXCEPT !.status = "EXPIRED"]]
  <2>1. db' = [j \in Ids |-> IF j \in {i} THEN [db[j] EXCEPT !.status = "EXPIRED"]
                             ELSE db[j]]
    BY DEF MarkExpired, SetStatus
  <2> QED
    BY <1>1, <1>5, <2>1 DEF Ids
<1>7. Promised!End(i)
  BY <1>4, <1>5, <1>6 DEF MarkExpired, Promised!End, Promised!Marked, Wants, Givens, Barred
<1> QED
  BY <1>5, <1>7 DEF Promised!LNext, Promised!LeaseIds, Ids

\* A lease that is reused is one the requester is entitled to.
LEMMA ReuseLooks ==
    ASSUME RInv, NEW r \in Requests, Reuse(r)
    PROVE  Promised!LNext
<1> DEFINE i == req[r].seen.id
<1>1. /\ req \in [Requests -> ReqType] /\ req[r] \in ReqType
      /\ req[r].pc = "matched" /\ Run(r) /\ Busy(r)
  BY DEF RInv, IInv, TypeInv, TypeOK, Reuse, At, Run, Busy
<1>2. /\ req'[r].scope = req[r].scope /\ req'[r].answer = "GRANTED"
      /\ req'[r].seen = req[r].seen
      /\ \A p \in Requests : p # r => req'[p] = req[p]
  BY <1>1 DEF Reuse, Answer, Becomes, ReqType
<1>3. Wants' = Wants /\ Barred' = Barred /\ Givens' = [Givens EXCEPT ![r] = i]
  BY <1>2, LooksGiven DEF Reuse
<1>4. /\ Wants[r] = req[r].scope /\ Wants[r] # NoScope /\ Givens[r] = 0
      /\ Barred[r] = hist[r].revoked
  BY <1>1, InProgress
<1>5. /\ i \in KeyRows(req[r].scope) /\ req[r].seen.status = "ACTIVE"
      /\ now < db[i].expires /\ req[r].scope.action \in db[i].actions
  BY <1>1 DEF Reuse, MatchedSeen, SeenActive, Unexpired, Covers, RInv, IInv, SeenInv
<1>6. i \notin hist[r].revoked
  BY <1>1, <1>5 DEF RInv, IInv, HistInv
<1>7. Promised!Serves(db[i], Wants[r])
  BY <1>4, <1>5 DEF Promised!Serves, KeyRows
<1>8. Promised!GiveHeld(r, i)
  BY <1>3, <1>4, <1>6, <1>7 DEF Reuse, Promised!GiveHeld, Wants, Givens, Barred
<1> QED
  BY <1>5, <1>8 DEF Promised!LNext, Promised!LeaseIds, KeyRows, Ids

\* A lease that is issued is a new one on a consent that served none so far.
LEMMA IssueLooks ==
    ASSUME RInv, NEW r \in Requests, Issue(r)
    PROVE  [Promised!LNext]_Promised!lvars
<1> DEFINE s == req[r].scope  k == req[r].ask  n == Len(db) + 1
<1>1. /\ req \in [Requests -> ReqType] /\ req[r] \in ReqType /\ db \in Seq(RowType)
      /\ asks \in Seq(AskType) /\ req[r].pc = "approval" /\ Run(r) /\ Busy(r)
  BY DEF RInv, IInv, TypeInv, TypeOK, Issue, At, Run, Busy
<1>2. CASE Answer(r, "INVALID_RESOURCE") /\ UNCHANGED db
  <2>1. req'[r].answer # "GRANTED"
    BY <1>1, <1>2 DEF Answer, Becomes, ReqType
  <2> QED
    BY <1>1, <1>2, <2>1, QuietSteps DEF Issue
<1>3. CASE /\ db' = Append(db, NewRow(s, k))
           /\ Becomes(r, [req[r] EXCEPT !.pc = "answered", !.answer = "GRANTED",
                             !.seen = [id |-> n, status |-> "ACTIVE"]])
  <2>1. /\ req'[r].scope = s /\ req'[r].answer = "GRANTED" /\ req'[r].seen.id = n
        /\ \A p \in Requests : p # r => req'[p] = req[p]
    BY <1>1, <1>3 DEF Becomes, ReqType
  <2>2. Wants' = Wants /\ Barred' = Barred /\ Givens' = [Givens EXCEPT ![r] = n]
    BY <2>1, LooksGiven DEF Issue
  <2>3. Wants[r] = s /\ s \in Scopes /\ Wants[r] # NoScope /\ Givens[r] = 0
    BY <1>1, InProgress
  <2>4. /\ k \in DOMAIN asks /\ asks[k] \in AskType /\ asks[k].decision = "allowed"
        /\ [asks[k] EXCEPT !.decision = "pending"] = NewAsk(s)
        /\ \A i \in Ids : db[i].ask # k
    <3>1. AskInv(r)
      BY DEF RInv, IInv
    <3>2. /\ k \in DOMAIN asks /\ [asks[k] EXCEPT !.decision = "pending"] = NewAsk(s)
          /\ \A i \in Ids : db[i].ask # k
      BY <1>1, <3>1, Zenon DEF AskInv, At
    <3>3. asks[k] \in AskType
      BY <1>1, <3>2
    <3> QED
      BY <3>2, <3>3 DEF Issue, Allowed
  <2>5. asks[k] = [capsule |-> s.capsule, target |-> s.target, action |-> s.action,
                   ttl |-> s.ttl, decision |-> "allowed"]
    BY <2>4 DEF AskType, NewAsk
  <2>6. Promised!ConsentsTo(k, Wants[r])
    BY <2>3, <2>4, <2>5 DEF Promised!ConsentsTo, Promised!LeaseIds, Ids
  <2>7. Len(db') = n
    BY <1>1, <1>3
  <2>8. db' = Append(db, Promised!IssuedTo(Wants[r], k))
    BY <1>3, <2>3 DEF NewRow, Promised!IssuedTo
  <2>9. Promised!GiveNew(r, k)
    BY <2>2, <2>3, <2>6, <2>7, <2>8 DEF Issue, Promised!GiveNew, Wants, Givens, Barred
  <2> QED
    BY <2>4, <2>9 DEF Promised!LNext
<1> QED
  BY <1>2, <1>3 DEF Issue

\* Every step of a request in progress is one of those, or shows nothing.
LEMMA RunLooks ==
    ASSUME RInv, NEW r \in Requests, Run(r)
    PROVE  [Promised!LNext]_Promised!lvars
<1>1. req \in [Requests -> ReqType] /\ req[r] \in ReqType
  BY DEF RInv, IInv, TypeInv, TypeOK
<1>2. CASE Ask(r) \/ MarkExpired(r) \/ Reuse(r) \/ Issue(r)
  BY <1>2, AskLooks, MarkLooks, ReuseLooks, IssueLooks
<1>3. CASE FindRead(r) \/ Miss(r) \/ Lapse(r) \/ BlockRead(r)
  <2>1. db' = db /\ asks' = asks /\ req'[r].answer = req[r].answer /\ req[r].pc # "answered"
    BY <1>1, <1>3 DEF FindRead, Miss, Lapse, BlockRead, Goto, Becomes, ReqType, At
  <2> QED
    BY <2>1, QuietSteps DEF RInv, IInv, SeenInv
<1>4. CASE Refuse(r) \/ Reject(r)
  <2>1. db' = db /\ asks' = asks
    BY <1>4 DEF Refuse, Reject
  <2>2. \A a : Answer(r, a) => req'[r].answer = a
    BY <1>1 DEF Answer, Becomes, ReqType
  <2>3. req'[r].answer # "GRANTED"
    BY <1>4, <2>2 DEF Refuse, Reject
  <2> QED
    BY <2>1, <2>3, QuietSteps
<1> QED
  BY <1>2, <1>3, <1>4 DEF Run

\* A request that arrives is opened, with what is taken back at that moment.
LEMMA BeginLooks ==
    ASSUME RInv, NEW r \in Requests, NEW s \in Scopes, Begin(r, s)
    PROVE  Promised!LNext
<1>1. /\ req \in [Requests -> ReqType] /\ hist \in [Requests -> HistType]
      /\ req[r].pc = "idle"
  BY DEF RInv, IInv, TypeInv, TypeOK, Begin, At
<1>2. Given(r) = 0 /\ Wants[r] = NoScope
  BY <1>1 DEF RInv, IInv, SeenInv, SlotInv, At, Given, Wants
<1>3. /\ req'[r].scope = s /\ req'[r].answer # "GRANTED"
      /\ hist'[r].revoked = Revoked
      /\ \A p \in Requests : p # r => req'[p] = req[p] /\ hist'[p] = hist[p]
  <2>1. /\ [Idle EXCEPT !.pc = "find", !.scope = s].scope = s
        /\ [Idle EXCEPT !.pc = "find", !.scope = s].answer # "GRANTED"
    BY DEF Idle
  <2>2. LET q == [Idle EXCEPT !.pc = "answered", !.scope = s, !.answer = "LEASE_REJECTED"]
        IN  q.scope = s /\ q.answer # "GRANTED"
    BY DEF Idle
  <2> QED
    BY <1>1, <2>1, <2>2 DEF Begin, Becomes
<1>4. Wants' = [Wants EXCEPT ![r] = s]
  BY <1>3 DEF Wants
<1>5. Barred' = [Barred EXCEPT ![r] = Revoked]
  BY <1>3 DEF Barred
<1>6. Givens' = Givens
  BY <1>2, <1>3 DEF Givens, Given
<1>7. Revoked = Promised!TakenBack
  BY DEF Revoked, Promised!TakenBack, Promised!LeaseIds, Ids
<1>8. Promised!Open(r, s)
  BY <1>2, <1>4, <1>5, <1>6, <1>7 DEF Begin, Promised!Open, Wants, Givens, Barred
<1> QED
  BY <1>8 DEF Promised!LNext

\* An answer that was returned, or a restart, closes requests.
LEMMA CloseLooks ==
    ASSUME RInv, NEW R \in SUBSET Requests, UNCHANGED <<now, db, asks>>,
           \A p \in Requests : /\ req'[p] = IF p \in R THEN Idle ELSE req[p]
                               /\ hist'[p] = IF p \in R THEN NoHist ELSE hist[p]
    PROVE  Promised!LNext
<1>1. /\ Idle.scope = NoScope /\ Idle.answer # "GRANTED" /\ NoHist.revoked = {}
  BY DEF Idle, NoHist
<1>2. Wants' = [p \in Requests |-> IF p \in R THEN NoScope ELSE Wants[p]]
  BY <1>1 DEF Wants
<1>3. Givens' = [p \in Requests |-> IF p \in R THEN 0 ELSE Givens[p]]
  BY <1>1 DEF Givens, Given
<1>4. Barred' = [p \in Requests |-> IF p \in R THEN {} ELSE Barred[p]]
  BY <1>1 DEF Barred
<1>5. Promised!Close(R)
  BY <1>2, <1>3, <1>4 DEF Promised!Close, Wants, Givens, Barred
<1> QED
  BY <1>5 DEF Promised!LNext

\* The host's decision, capsulectl's revocations and the clock leave the slots
\* alone, and are what LeaseSpec says of them.
LEMMA OutsideLooks ==
    ASSUME RInv, UNCHANGED <<req, hist>>,
           \/ \E k \in DOMAIN asks : Decide(k)
           \/ \E i \in Ids : Revoke(i)
           \/ \E ses \in Sessions : RevokeSession(ses)
           \/ \E c \in Capsules : RevokeCapsule(c)
           \/ Tick
    PROVE  Promised!LNext
<1>1. Wants' = Wants /\ Givens' = Givens /\ Barred' = Barred
  BY DEF Wants, Givens, Given, Barred
<1>2. ASSUME NEW k \in DOMAIN asks, Decide(k) PROVE Promised!LNext
  <2>1. Promised!Consent(k)
    BY <1>1, <1>2 DEF Decide, Promised!Consent, Wants, Givens, Barred
  <2> QED
    BY <2>1 DEF Promised!LNext
<1>3. ASSUME NEW I, db' = SetStatus(I, "REVOKED"), UNCHANGED <<now, asks>>
      PROVE  Promised!LNext
  <2>1. DOMAIN db' = Ids /\ \A i \in Ids : db'[i] \in {db[i], Promised!Marked(i, "REVOKED")}
    BY <1>3 DEF SetStatus, Promised!Marked
  <2>2. Promised!TakeBack
    BY <1>1, <1>3, <2>1 DEF Promised!TakeBack, Promised!LeaseIds, Ids, Wants, Givens, Barred
  <2> QED
    BY <2>2 DEF Promised!LNext
<1>4. CASE \/ \E i \in Ids : Revoke(i)
           \/ \E ses \in Sessions : RevokeSession(ses)
           \/ \E c \in Capsules : RevokeCapsule(c)
  BY <1>3, <1>4 DEF Revoke, RevokeSession, RevokeCapsule
<1>5. CASE Tick
  <2>1. Promised!Pass
    BY <1>1, <1>5 DEF Tick, Promised!Pass, Wants, Givens, Barred
  <2> QED
    BY <2>1 DEF Promised!LNext
<1> QED
  BY <1>2, <1>4, <1>5

-----------------------------------------------------------------------------
(* The theorem *)

\* The gateway starts as LeaseSpec does.
LEMMA InitLooks == Init => Promised!LInit
<1>1. Idle.scope = NoScope /\ Idle.answer # "GRANTED" /\ NoHist.revoked = {}
  BY DEF Idle, NoHist
<1> QED
  BY <1>1 DEF Init, Promised!LInit, Given

\* Every step of the gateway is a step of LeaseSpec, or shows nothing.
LEMMA NextLooks == RInv /\ [Next]_vars => [Promised!LNext]_Promised!lvars
<1> SUFFICES ASSUME RInv, [Next]_vars PROVE [Promised!LNext]_Promised!lvars
  OBVIOUS
<1>1. req \in [Requests -> ReqType] /\ hist \in [Requests -> HistType]
  BY DEF RInv, IInv, TypeInv, TypeOK
<1>2. ASSUME NEW r \in Requests, Run(r) PROVE [Promised!LNext]_Promised!lvars
  BY <1>2, RunLooks
<1>3. ASSUME NEW r \in Requests, NEW s \in Scopes, Begin(r, s) PROVE Promised!LNext
  BY <1>3, BeginLooks
<1>4. ASSUME NEW r \in Requests, Return(r) PROVE Promised!LNext
  <2>1. \A p \in Requests : /\ req'[p] = IF p \in {r} THEN Idle ELSE req[p]
                            /\ hist'[p] = IF p \in {r} THEN NoHist ELSE hist[p]
    BY <1>1, <1>4 DEF Return, Becomes
  <2> QED
    BY <1>4, <2>1, CloseLooks DEF Return
<1>5. CASE Restart
  <2>1. \A p \in Requests : /\ req'[p] = IF p \in Requests THEN Idle ELSE req[p]
                            /\ hist'[p] = IF p \in Requests THEN NoHist ELSE hist[p]
    BY <1>5 DEF Restart
  <2> QED
    BY <1>5, <2>1, CloseLooks DEF Restart
<1>6. CASE \/ \E k \in DOMAIN asks : Decide(k)
           \/ \E i \in Ids : Revoke(i)
           \/ \E ses \in Sessions : RevokeSession(ses)
           \/ \E c \in Capsules : RevokeCapsule(c)
           \/ Tick
  <2>1. UNCHANGED <<req, hist>>
    BY <1>6 DEF Decide, Revoke, RevokeSession, RevokeCapsule, Tick
  <2> QED
    BY <1>6, <2>1, OutsideLooks
<1>7. CASE UNCHANGED vars
  BY <1>7 DEF vars, Promised!lvars, Given
<1> QED
  BY <1>2, <1>3, <1>4, <1>5, <1>6, <1>7 DEF Next

\* Every behaviour of the gateway is, seen from outside, one of LeaseSpec: each
\* lease on a consent of its own, none ended early, none granted that was taken
\* back before the request, or is over, or is somebody else's (Implements).
THEOREM Implementation == Spec => Implements
BY InitLooks, NextLooks, RInvariance, PTL DEF Spec, Implements, Promised!LSpec

=============================================================================
