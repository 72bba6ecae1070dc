--------------------------- MODULE BrokerServerProofs ---------------------------
(* Theorems about BrokerServer for every value of its constants: composed   *)
(* with the broker the gateway is still the gateway of LeaseGateway, so its *)
(* theorems carry over, and no operation runs without its warrant.          *)
EXTENDS BrokerServer, LeaseGrantProofs, WellFoundedInduction

-----------------------------------------------------------------------------
(* The inductive invariant *)

\* The call on a connection and the request in its slot belong together.
LinkInv(r) ==
    LET c == call[r]  q == req[r] IN
    /\ q.answer # "none" => q.pc = "answered"
    /\ c.pc = "idle" => At(r, "idle")
    /\ c.pc = "respond" => q.pc \in {"idle", "answered"}
    /\ c.pc \in {"credential", "execute"} => q.answer = "GRANTED"
    /\ Busy(r) => /\ c.param \notin BadParams /\ Permits(c.server, c.param)
                  /\ q.scope.session \in Sessions
                  /\ q.scope = Scope(c.server, q.scope.session, c.param)

\* A lease that was granted is bound to what its request asked for.
HeldInv(r) ==
    req[r].answer = "GRANTED" =>
        /\ req[r].seen.id \in KeyRows(req[r].scope)
        /\ req[r].scope.action \in db[req[r].seen.id].actions

\* Leases are issued to instances under the name of their own capsule only.
CapsuleInv == \A i \in Ids : /\ db[i].instance \in Servers
                             /\ db[i].capsule = Manifest[db[i].instance].capsule

BTypes == /\ ctx \in [Servers -> Sessions \cup {NoSession}]
          /\ call \in [Requests -> CallType]

BInv == /\ IInv
        /\ BTypes
        /\ CapsuleInv
        /\ \A r \in Requests : LinkInv(r) /\ HeldInv(r)

-----------------------------------------------------------------------------
(* The broker uses the gateway as it is *)

\* A provider that is declared has a first entry in the manifest, the one that
\* BrokerPolicy.check reads: among positions there is a least one.
LEMMA FirstIsEntry ==
    ASSUME NEW i \in Servers, NEW p, Entries(i, p) # {}
    PROVE  \E k \in Entries(i, p) : First(i, p) = Manifest[i].creds[k]
<1> DEFINE E == Entries(i, p)  Lt == OpToRel(<, Nat)
<1>1. E \subseteq Nat /\ E # {}
  BY ManifestAssumption DEF Entries
<1>2. PICK m \in E : \A j \in E : ~(<<j, m>> \in Lt)
  <2> HIDE DEF E, Lt
  <2>1. IsWellFoundedOn(Lt, Nat)
    BY NatLessThanWellFounded, Zenon DEF Lt
  <2> QED
    BY <1>1, <2>1, WFMin
<1>3. \A j \in E : m <= j
  <2> SUFFICES ASSUME NEW j \in E  PROVE m <= j
    OBVIOUS
  <2>1. ~(j < m)
    BY <1>1, <1>2 DEF OpToRel
  <2> QED
    BY <1>1, <2>1
<1> QED
  BY <1>3 DEF First

\* A call that is not refused asks for something the manifest permits.
LEMMA ReceiveBegins ==
    ASSUME BTypes, NEW r \in Requests, NEW i \in Servers, NEW p \in Params,
           ~Refused(i, p)
    PROVE  /\ p \notin BadParams /\ Permits(i, p) /\ ctx[i] \in Sessions
           /\ Scope(i, ctx[i], p) \in Scopes
<1>1. p \notin BadParams /\ Permits(i, p) /\ ctx[i] \in Sessions
  BY DEF Refused, BTypes
<1>2. Entries(i, p) # {} /\ p.action \in First(i, p).actions
  BY <1>1 DEF Permits
<1>3. PICK k \in Entries(i, p) : First(i, p) = Manifest[i].creds[k]
  BY <1>2, FirstIsEntry
<1>4. k \in DOMAIN Manifest[i].creds /\ Manifest[i].creds[k].provider = p.provider
  BY DEF Entries
<1>5. Scope(i, ctx[i], p) \in Scopes
  BY <1>1, <1>2, <1>3, <1>4, ScopesCover DEF Scope
<1> QED
  BY <1>1, <1>5

\* What a step of the broker, the manager or the rest is for the gateway.
LEMMA GatewayStep ==
    ASSUME BTypes, BNext
    PROVE  [Next]_vars
<1>1. ASSUME NEW r \in Requests, Serve(r) \/ CredentialArrives(r) PROVE [Next]_vars
  <2>1. CASE LeaseStep(r)
    BY <2>1 DEF LeaseStep, Next
  <2>2. CASE Written(r)
    BY <2>2 DEF Written, Next
  <2>3. CASE Granted(r) \/ NotGranted(r) \/ CredentialFails(r) \/ Executed(r)
             \/ CredentialArrives(r)
    BY <2>3 DEF Granted, NotGranted, CredentialFails, Executed, CredentialArrives
  <2> QED
    BY <1>1, <2>1, <2>2, <2>3 DEF Serve, Handle
<1>2. ASSUME NEW r \in Requests, NEW i \in Servers, NEW p \in Params, Receive(r, i, p)
      PROVE  [Next]_vars
  BY <1>2, ReceiveBegins DEF Receive, Next
<1>3. CASE \E i \in Servers : EndCall(i) \/ \E ses \in Sessions : BeginCall(i, ses)
  BY <1>3 DEF EndCall, BeginCall
<1>4. CASE Outside \/ BRestart
  BY <1>4 DEF Outside, BRestart, Next
<1> QED
  BY <1>1, <1>2, <1>3, <1>4 DEF BNext

\* The types of the broker's own variables.
LEMMA BTypesStep ==
    ASSUME BTypes, BNext
    PROVE  BTypes'
<1>1. NoCall \in CallType
  BY ManifestAssumption DEF NoCall, CallType
<1>2. \A r \in Requests : call[r] \in CallType
  BY DEF BTypes
<1>3. \A r \in Requests : \A c \in CallType : Steps(r, c) => call' \in [Requests -> CallType]
  BY DEF BTypes, Steps
<1>4. ASSUME NEW r \in Requests, Serve(r) \/ CredentialArrives(r) PROVE BTypes'
  <2>1. \A pc \in {"credential", "execute", "respond"} :
           [call[r] EXCEPT !.pc = pc] \in CallType
    BY <1>2 DEF CallType
  <2>2. ctx' = ctx /\ (call' = call \/ \E c \in CallType : Steps(r, c))
    BY <1>1, <1>4, <2>1
       DEF Serve, Handle, LeaseStep, Granted, NotGranted, CredentialFails, Executed, Written,
           CredentialArrives, Respond, bvars
  <2> QED
    BY <1>3, <2>2 DEF BTypes
<1>5. ASSUME NEW r \in Requests, NEW i \in Servers, NEW p \in Params, Receive(r, i, p)
      PROVE  BTypes'
  <2>1. [NoCall EXCEPT !.pc = "respond"] \in CallType
    BY <1>1 DEF CallType
  <2>2. [pc |-> "lease", server |-> i, param |-> p] \in CallType
    BY DEF CallType
  <2> QED
    BY <1>3, <1>5, <2>1, <2>2 DEF Receive, BTypes
<1>6. CASE \E i \in Servers : EndCall(i) \/ \E ses \in Sessions : BeginCall(i, ses)
  BY <1>6 DEF EndCall, BeginCall, BTypes
<1>7. CASE Outside /\ UNCHANGED bvars
  BY <1>7 DEF bvars, BTypes
<1>8. CASE BRestart
  BY <1>1, <1>8 DEF BRestart, BTypes
<1> QED
  BY <1>4, <1>5, <1>6, <1>7, <1>8 DEF BNext

\* They hold at first.
LEMMA BTypesInit == BInit => BTypes
<1>1. NoCall \in CallType
  BY ManifestAssumption DEF NoCall, CallType
<1> QED
  BY <1>1 DEF BInit, BTypes

\* Under the broker the gateway does nothing that LeaseGateway does not do, so
\* whatever is proved of LeaseGateway holds for it (broker/server.py calls
\* LeaseGateway.request, and nothing else of it).
THEOREM BrokerUsesGateway == BSpec => Spec
<1>1. BTypes /\ [BNext]_allVars => BTypes'
  BY BTypesStep DEF allVars, BTypes
<1>2. BTypes /\ [BNext]_allVars => [Next]_vars
  BY GatewayStep DEF allVars
<1>3. BInit => Init
  BY DEF BInit
<1> QED
  BY <1>1, <1>2, <1>3, BTypesInit, PTL DEF BSpec, Spec

-----------------------------------------------------------------------------
(* What a granted lease is bound to *)

\* An answer, once given, stays until it is returned.
LEMMA AnswerStays ==
    ASSUME IInv, Next, NEW r \in Requests, req[r].answer = "GRANTED",
           req'[r].answer = "GRANTED"
    PROVE  req'[r] = req[r]
<1>1. req \in [Requests -> ReqType] /\ req[r].pc = "answered" /\ TypeInv
  BY DEF IInv, TypeInv, TypeOK, SeenInv
<1>2. ~Run(r)
  BY <1>1 DEF Run, FindRead, Reuse, Miss, Lapse, MarkExpired, BlockRead, Refuse, Ask,
              Issue, Reject, At
<1>3. \A s \in Scopes : ~Begin(r, s)
  BY <1>1 DEF Begin, At
<1>4. ~Return(r) /\ ~Restart
  BY <1>1 DEF Return, Restart, Becomes, Idle
<1>5. \A p \in Requests : p # r /\ Run(p) => req'[r] = req[r]
  BY <1>1, TypeRun
<1>6. \A p \in Requests : p # r /\ (Return(p) \/ \E s \in Scopes : Begin(p, s))
         => req'[r] = req[r]
  BY <1>1 DEF Return, Begin, Becomes
<1>7. CASE \/ \E k \in DOMAIN asks : Decide(k)
           \/ \E i \in Ids : Revoke(i)
           \/ \E ses \in Sessions : RevokeSession(ses)
           \/ \E c \in Capsules : RevokeCapsule(c)
           \/ Tick
  BY <1>7 DEF Decide, Revoke, RevokeSession, RevokeCapsule, Tick
<1> QED
  BY <1>2, <1>3, <1>4, <1>5, <1>6, <1>7 DEF Next

\* Every step keeps a granted lease bound to its request.
LEMMA HeldStep ==
    ASSUME IInv, Next, NEW r \in Requests, HeldInv(r)
    PROVE  HeldInv(r)'
<1> SUFFICES ASSUME req'[r].answer = "GRANTED"
             PROVE  /\ req'[r].seen.id \in KeyRows(req[r].scope)'
                    /\ req'[r].scope.action \in db'[req'[r].seen.id].actions
  BY DEF HeldInv
<1>1. /\ TypeInv /\ Monotone /\ req \in [Requests -> ReqType] /\ req[r] \in ReqType
      /\ db \in Seq(RowType)
  BY Grows DEF IInv, TypeInv, TypeOK
<1>2. CASE req[r].answer = "GRANTED"
  <2>1. req'[r] = req[r]
    BY <1>2, AnswerStays
  <2> QED
    BY <1>1, <1>2, <2>1 DEF HeldInv, KeyRows, Monotone, SameRow
<1>3. CASE Reuse(r)
  <2>1. /\ req[r].pc = "matched" /\ MatchedSeen(req[r]) /\ Covers(req[r]) /\ db' = db
        /\ req'[r].seen = req[r].seen /\ req'[r].scope = req[r].scope
    BY <1>1, <1>3 DEF Reuse, At, Answer, Becomes, ReqType
  <2>2. req[r].seen.id \in KeyRows(req[r].scope)
    BY <2>1 DEF IInv, SeenInv, MatchedSeen, SeenActive
  <2> QED
    BY <2>1, <2>2 DEF KeyRows, Covers, Ids
<1>4. CASE IssuesRow(r)
  <2> DEFINE n == Len(db) + 1  s == req[r].scope
  <2>1. /\ Ids' = Ids \cup {n} /\ db'[n] = NewRow(s, req[r].ask)
    BY <1>1, <1>4, AppendRow DEF IssuesRow, Ids
  <2>2. req'[r].seen.id = n /\ req'[r].scope = s
    <3>1. CASE Answer(r, "INVALID_RESOURCE")
      <4>1. req'[r].answer = "INVALID_RESOURCE"
        BY <1>1, <3>1 DEF Answer, Becomes, ReqType
      <4> QED
        BY <4>1
    <3>2. CASE Becomes(r, [req[r] EXCEPT !.pc = "answered", !.answer = "GRANTED",
                             !.seen = [id |-> Len(db) + 1, status |-> "ACTIVE"]])
      BY <1>1, <3>2 DEF Becomes, ReqType
    <3> QED
      BY <1>4, <3>1, <3>2 DEF IssuesRow, Issue
  <2> QED
    BY <2>1, <2>2 DEF NewRow, KeyRows
<1> QED
  BY <1>1, <1>2, <1>3, <1>4, GrantSteps DEF Grants

\* No step but an Issue adds a row, and the row is its request's.
LEMMA CapsuleStep ==
    ASSUME IInv, CapsuleInv, Next,
           \A r \in Requests : Busy(r) =>
              /\ req[r].scope.instance \in Servers
              /\ req[r].scope.capsule = Manifest[req[r].scope.instance].capsule
    PROVE  CapsuleInv'
<1>1. TypeInv /\ Monotone /\ db \in Seq(RowType) /\ "EXPIRED" \in Status /\ "REVOKED" \in Status
  BY Grows DEF IInv, TypeInv, TypeOK, Status
<1>2. \A i \in Ids : db'[i].instance = db[i].instance /\ db'[i].capsule = db[i].capsule
  BY <1>1 DEF Monotone, SameRow
<1>3. CASE Ids' = Ids
  BY <1>2, <1>3 DEF CapsuleInv
<1>4. ASSUME NEW r \in Requests, IssuesRow(r) PROVE CapsuleInv'
  <2> DEFINE n == Len(db) + 1  s == req[r].scope
  <2>1. Ids' = Ids \cup {n} /\ db'[n] = NewRow(s, req[r].ask) /\ Busy(r)
    BY <1>1, <1>4, AppendRow DEF IssuesRow, Ids, Issue, At, Busy
  <2>2. db'[n].instance = s.instance /\ db'[n].capsule = s.capsule
    BY <2>1 DEF NewRow
  <2> QED
    BY <1>2, <2>1, <2>2 DEF CapsuleInv
<1>5. CASE db' = db
  BY <1>3, <1>5 DEF Ids
<1>6. CASE RevokesRows \/ \E r \in Requests : MarkExpired(r)
  BY <1>1, <1>3, <1>6, StatusWrite DEF RevokesRows, MarkExpired
<1> QED
  BY <1>1, <1>4, <1>5, <1>6, DbStep

-----------------------------------------------------------------------------
(* The call and the request in its slot *)

\* A step of a request happens in a slot that is waiting for its answer.
LEMMA RunWaits ==
    ASSUME IInv, NEW r \in Requests, Run(r), LinkInv(r)
    PROVE  /\ req[r].pc \notin {"idle", "answered"}
           /\ call[r].pc \notin {"idle", "respond", "credential", "execute"}
<1>1. req[r].pc \notin {"idle", "answered"}
  BY DEF Run, FindRead, Reuse, Miss, Lapse, MarkExpired, BlockRead, Refuse, Ask, Issue,
         Reject, At
<1> QED
  BY <1>1 DEF LinkInv, At

\* The gateway's part of the step.
LEMMA LinkRuns ==
    ASSUME IInv, BTypes, NEW r \in Requests, LinkInv(r), LeaseStep(r)
    PROVE  LinkInv(r)'
<1>1. /\ req \in [Requests -> ReqType] /\ req[r] \in ReqType /\ TypeInv /\ Run(r)
      /\ call' = call
  BY DEF IInv, TypeInv, TypeOK, LeaseStep, bvars
<1>2. req'[r].scope = req[r].scope /\ Busy(r)
  BY <1>1, TypeRun
<1>3. /\ req[r].pc # "answered"
      /\ call[r].pc \notin {"idle", "respond", "credential", "execute"}
  BY <1>1, RunWaits
<1>4. req[r].answer = "none"
  BY <1>3 DEF LinkInv
<1>5. req'[r].answer # "none" => req'[r].pc = "answered"
  <2>1. \E x : Becomes(r, x) /\ (x.pc = "answered" \/ x.answer = "none")
    <3>1. \A pc : [req[r] EXCEPT !.pc = pc].answer = "none"
      BY <1>1, <1>4 DEF ReqType
    <3>2. \A pc, v : [req[r] EXCEPT !.pc = pc, !.seen = v].answer = "none"
      BY <1>1, <1>4 DEF ReqType
    <3>3. \A pc, v : [req[r] EXCEPT !.pc = pc, !.ask = v].answer = "none"
      BY <1>1, <1>4 DEF ReqType
    <3>4. \A a : [req[r] EXCEPT !.pc = "answered", !.answer = a].pc = "answered"
      BY <1>1 DEF ReqType
    <3>5. \A a, v : [req[r] EXCEPT !.pc = "answered", !.answer = a, !.seen = v].pc
                      = "answered"
      BY <1>1 DEF ReqType
    <3>6. CASE FindRead(r) \/ BlockRead(r)
      BY <3>2, <3>6 DEF FindRead, BlockRead
    <3>7. CASE Miss(r) \/ Lapse(r) \/ MarkExpired(r)
      BY <3>1, <3>7 DEF Miss, Lapse, MarkExpired, Goto
    <3>8. CASE Ask(r)
      BY <3>3, <3>8 DEF Ask
    <3>9. CASE Reuse(r) \/ Refuse(r) \/ Issue(r) \/ Reject(r)
      BY <3>4, <3>5, <3>9 DEF Reuse, Refuse, Issue, Reject, Answer
    <3> QED
      BY <1>1, <3>6, <3>7, <3>8, <3>9 DEF Run
  <2> QED
    BY <1>1, <2>1 DEF Becomes
<1> QED
  BY <1>1, <1>2, <1>3, <1>5 DEF LinkInv, Busy, At

\* A call that arrives asks for a lease in the server's context, or for none.
LEMMA LinkReceives ==
    ASSUME IInv, BTypes, NEW r \in Requests, LinkInv(r),
           NEW i \in Servers, NEW p \in Params, Receive(r, i, p)
    PROVE  LinkInv(r)'
<1>1. /\ req \in [Requests -> ReqType] /\ call \in [Requests -> CallType]
      /\ call[r].pc = "idle" /\ At(r, "idle")
  BY DEF IInv, TypeInv, TypeOK, BTypes, Receive, LinkInv
<1>2. CASE Steps(r, [NoCall EXCEPT !.pc = "respond"]) /\ UNCHANGED vars
  <2>1. call'[r].pc = "respond" /\ req'[r] = req[r]
    BY <1>1, <1>2 DEF Steps, NoCall, vars
  <2> QED
    BY <1>1, <2>1 DEF LinkInv, Busy, At
<1>3. CASE /\ ~Refused(i, p)
           /\ Begin(r, Scope(i, ctx[i], p))
           /\ Steps(r, [pc |-> "lease", server |-> i, param |-> p])
  <2> DEFINE s == Scope(i, ctx[i], p)
  <2>1. p \notin BadParams /\ Permits(i, p) /\ ctx[i] \in Sessions
    BY <1>3, ReceiveBegins
  <2>2. call'[r] = [pc |-> "lease", server |-> i, param |-> p]
    BY <1>1, <1>3 DEF Steps
  <2>3. /\ req'[r].scope = s
        /\ req'[r].answer # "none" => req'[r].pc = "answered"
    BY <1>1, <1>3 DEF Begin, Becomes, Idle
  <2>4. s.session = ctx[i]
    BY DEF Scope
  <2> QED
    BY <2>1, <2>2, <2>3, <2>4 DEF LinkInv
<1> QED
  BY <1>2, <1>3 DEF Receive

\* The steps of handle_call behind the gateway's answer.
LEMMA LinkServes ==
    ASSUME IInv, BTypes, NEW r \in Requests, LinkInv(r),
           \/ Granted(r) \/ NotGranted(r) \/ CredentialArrives(r) \/ CredentialFails(r)
           \/ Executed(r) \/ Written(r)
    PROVE  LinkInv(r)'
<1>1. /\ req \in [Requests -> ReqType] /\ call \in [Requests -> CallType]
      /\ call[r] \in CallType /\ Refusals \subseteq Answers /\ "none" \notin Refusals
  BY DEF IInv, TypeInv, TypeOK, BTypes, Refusals, Answers
<1>2. ASSUME NEW pc \in {"credential", "execute", "respond"}, req' = req,
             Steps(r, [call[r] EXCEPT !.pc = pc]), req[r].answer # "none",
             pc # "respond" => req[r].answer = "GRANTED"
      PROVE  LinkInv(r)'
  <2>1. call'[r].pc = pc /\ call'[r].server = call[r].server
        /\ call'[r].param = call[r].param
    BY <1>1, <1>2 DEF Steps, CallType
  <2>2. req[r].pc = "answered"
    BY <1>2 DEF LinkInv
  <2> QED
    BY <1>2, <2>1, <2>2 DEF LinkInv, Busy, At
<1>3. CASE Granted(r)
  BY <1>2, <1>3 DEF Granted, Respond, vars
<1>4. CASE NotGranted(r)
  BY <1>1, <1>2, <1>4 DEF NotGranted, Respond, vars
<1>5. CASE CredentialArrives(r) \/ CredentialFails(r) \/ Executed(r)
  <2>1. req[r].answer = "GRANTED" /\ req' = req
    BY <1>5 DEF CredentialArrives, CredentialFails, Executed, LinkInv, vars
  <2>2. \E pc \in {"execute", "respond"} : Steps(r, [call[r] EXCEPT !.pc = pc])
    BY <1>5 DEF CredentialArrives, CredentialFails, Executed, Respond
  <2> QED
    BY <1>2, <2>1, <2>2
<1>6. CASE Written(r)
  <2>1. call'[r].pc = "idle" /\ req[r].pc \in {"idle", "answered"}
    BY <1>1, <1>6 DEF Written, Steps, NoCall, LinkInv
  <2>2. req'[r].pc = "idle" /\ (req'[r].answer = "none" \/ req'[r] = req[r])
    BY <1>1, <1>6, <2>1 DEF Written, Return, Becomes, Idle, vars, At
  <2> QED
    BY <2>1, <2>2 DEF LinkInv, Busy, At
<1> QED
  BY <1>3, <1>4, <1>5, <1>6

\* Every step keeps each connection and its slot together.
LEMMA LinkStep ==
    ASSUME IInv, BTypes, \A r \in Requests : LinkInv(r), BNext, NEW p \in Requests
    PROVE  LinkInv(p)'
<1>1. /\ req \in [Requests -> ReqType] /\ call \in [Requests -> CallType] /\ TypeInv
  BY DEF IInv, TypeInv, TypeOK, BTypes
<1>2. CASE req'[p] = req[p] /\ call'[p] = call[p]
  BY <1>2 DEF LinkInv, Busy, At
<1>3. ASSUME NEW r \in Requests, Serve(r) \/ CredentialArrives(r)
      PROVE  LinkInv(r)'
  BY <1>3, LinkRuns, LinkServes DEF Serve, Handle
<1>4. ASSUME NEW r \in Requests, Serve(r) \/ CredentialArrives(r), p # r
      PROVE  req'[p] = req[p] /\ call'[p] = call[p]
  <2>1. call'[p] = call[p]
    BY <1>1, <1>4
       DEF Serve, Handle, LeaseStep, Granted, NotGranted, CredentialFails, Executed, Written,
           CredentialArrives, Respond, Steps, bvars
  <2>2. req'[p] = req[p]
    <3>1. CASE LeaseStep(r)
      BY <1>1, <1>4, <3>1, TypeRun DEF LeaseStep
    <3>2. CASE Written(r)
      BY <1>1, <1>4, <3>2 DEF Written, Return, Becomes, vars
    <3>3. CASE Granted(r) \/ NotGranted(r) \/ CredentialFails(r) \/ Executed(r)
               \/ CredentialArrives(r)
      BY <3>3 DEF Granted, NotGranted, CredentialFails, Executed, CredentialArrives, vars
    <3> QED
      BY <1>4, <3>1, <3>2, <3>3 DEF Serve, Handle
  <2> QED
    BY <2>1, <2>2
<1>5. ASSUME NEW r \in Requests, NEW i \in Servers, NEW m \in Params, Receive(r, i, m)
      PROVE  LinkInv(p)'
  <2>1. CASE p = r
    BY <1>5, <2>1, LinkReceives
  <2>2. CASE p # r
    BY <1>1, <1>2, <1>5, <2>2 DEF Receive, Begin, Becomes, Steps, vars
  <2> QED
    BY <2>1, <2>2
<1>6. CASE \E i \in Servers : EndCall(i) \/ \E ses \in Sessions : BeginCall(i, ses)
  BY <1>2, <1>6 DEF EndCall, BeginCall, vars
<1>7. CASE Outside /\ UNCHANGED bvars
  BY <1>2, <1>7
     DEF Outside, Decide, Revoke, RevokeSession, RevokeCapsule, Tick, bvars
<1>8. CASE BRestart
  BY <1>1, <1>8 DEF BRestart, Restart, Idle, NoCall, LinkInv, Busy, At
<1> QED
  BY <1>2, <1>3, <1>4, <1>5, <1>6, <1>7, <1>8 DEF BNext

\* Every step keeps the invariant.
LEMMA BInvNext == BInv /\ [BNext]_allVars => BInv'
<1> SUFFICES ASSUME BInv, [BNext]_allVars PROVE BInv'
  OBVIOUS
<1>1. [Next]_vars
  BY GatewayStep DEF BInv, allVars
<1>2. IInv' /\ IInv
  BY <1>1, IInvNext DEF BInv
<1>3. \A r \in Requests : Busy(r) =>
         /\ req[r].scope.instance \in Servers
         /\ req[r].scope.capsule = Manifest[req[r].scope.instance].capsule
  <2> SUFFICES ASSUME NEW r \in Requests, Busy(r)
               PROVE  /\ req[r].scope.instance \in Servers
                      /\ req[r].scope.capsule = Manifest[req[r].scope.instance].capsule
    OBVIOUS
  <2>1. call[r].server \in Servers
    BY DEF BInv, BTypes, CallType
  <2>2. req[r].scope = Scope(call[r].server, req[r].scope.session, call[r].param)
    BY DEF BInv, LinkInv
  <2>3. /\ Scope(call[r].server, req[r].scope.session, call[r].param).instance
             = call[r].server
        /\ Scope(call[r].server, req[r].scope.session, call[r].param).capsule
             = Manifest[call[r].server].capsule
    BY DEF Scope
  <2> QED
    BY <2>1, <2>2, <2>3
<1>4. CASE BNext
  <2>1. BTypes' /\ \A r \in Requests : LinkInv(r)'
    BY <1>4, BTypesStep, LinkStep DEF BInv
  <2>2. CASE Next
    BY <1>2, <1>3, <2>1, <2>2, HeldStep, CapsuleStep DEF BInv
  <2>3. CASE UNCHANGED vars
    <3>1. CapsuleInv'
      BY <2>3 DEF BInv, CapsuleInv, Ids, vars
    <3>2. \A r \in Requests : HeldInv(r)'
      BY <2>3 DEF BInv, HeldInv, KeyRows, Ids, vars
    <3> QED
      BY <1>2, <2>1, <3>1, <3>2 DEF BInv
  <2> QED
    BY <1>1, <2>2, <2>3
<1>5. CASE UNCHANGED allVars
  <2>1. UNCHANGED vars /\ ctx' = ctx /\ call' = call
    BY <1>5 DEF allVars
  <2> QED
    BY <1>2, <2>1
       DEF BInv, BTypes, CapsuleInv, Ids, LinkInv, HeldInv, KeyRows, Busy, At, vars
<1> QED
  BY <1>4, <1>5

\* The invariant always holds.
THEOREM BrokerInvariance == BSpec => []BInv
<1>1. BInit => BInv
  <2> SUFFICES ASSUME BInit PROVE BInv
    OBVIOUS
  <2>1. IInv /\ BTypes
    BY IInvInit, BTypesInit DEF BInit
  <2>2. CapsuleInv
    BY DEF BInit, Init, Ids, CapsuleInv
  <2>3. \A r \in Requests : LinkInv(r) /\ HeldInv(r)
    BY DEF BInit, Init, Idle, NoCall, LinkInv, HeldInv, Busy, At
  <2> QED
    BY <2>1, <2>2, <2>3 DEF BInv
<1> QED
  BY <1>1, BInvNext, PTL DEF BSpec

\* The types of the broker and the gateway under it (BTypeOK).
THEOREM BrokerTypeCorrect == BSpec => []BTypeOK
<1>1. BInv => BTypeOK
  <2> SUFFICES ASSUME BInv PROVE BTypeOK
    OBVIOUS
  <2>1. ASSUME NEW r \in Requests, Busy(r) PROVE req[r].scope.instance = call[r].server
    <3>1. req[r].scope = Scope(call[r].server, req[r].scope.session, call[r].param)
      BY <2>1 DEF BInv, LinkInv
    <3>2. Scope(call[r].server, req[r].scope.session, call[r].param).instance
            = call[r].server
      BY DEF Scope
    <3> QED
      BY <3>1, <3>2
  <2> QED
    BY <2>1 DEF BInv, IInv, TypeInv, BTypes, LinkInv, BTypeOK, Busy
<1> QED
  BY BrokerInvariance, <1>1, PTL

\* No operation reaches the credential or the provider without a lease of the
\* calling instance, its capsule and its session, covering target and action,
\* issued on an approval given for them, and without the manifest's declaring
\* them, however many connections and servers interleave (Warranted).
THEOREM WarrantedHolds == BSpec => []Warranted
<1>1. BInv => Warranted
  <2> SUFFICES ASSUME BInv, NEW r \in Requests, call[r].pc \in {"credential", "execute"}
               PROVE  LET i == call[r].server  p == call[r].param
                          row == db[req[r].seen.id]
                      IN  /\ row.instance = i /\ row.capsule = Manifest[i].capsule
                          /\ row.session = req[r].scope.session
                          /\ row.target = p.target /\ p.action \in row.actions
                          /\ asks[row.ask].decision = "allowed"
                          /\ asks[row.ask].target = p.target
                          /\ asks[row.ask].action = p.action
                          /\ \E k \in Entries(i, p) :
                                p.action \in Manifest[i].creds[k].actions
    BY DEF Warranted
  <2> DEFINE i == call[r].server  p == call[r].param  n == req[r].seen.id
  <2>1. /\ req[r].answer = "GRANTED" /\ Busy(r) /\ i \in Servers
    BY DEF BInv, LinkInv, Busy, At, IInv, SeenInv, BTypes, CallType
  <2>2. /\ n \in Ids /\ db[n].instance = req[r].scope.instance
        /\ db[n].session = req[r].scope.session /\ db[n].target = req[r].scope.target
        /\ req[r].scope.action \in db[n].actions
    BY <2>1 DEF BInv, HeldInv, KeyRows
  <2>3. /\ req[r].scope.instance = i /\ req[r].scope.target = p.target
        /\ req[r].scope.action = p.action
    <3>1. req[r].scope = Scope(i, req[r].scope.session, p)
      BY <2>1 DEF BInv, LinkInv
    <3>2. /\ Scope(i, req[r].scope.session, p).instance = i
          /\ Scope(i, req[r].scope.session, p).target = p.target
          /\ Scope(i, req[r].scope.session, p).action = p.action
      BY DEF Scope
    <3> QED
      BY <3>1, <3>2
  <2>4. db[n].capsule = Manifest[i].capsule
    BY <2>2, <2>3 DEF BInv, CapsuleInv
  <2>5. /\ asks[db[n].ask].decision = "allowed" /\ asks[db[n].ask].target = db[n].target
        /\ db[n].actions = {asks[db[n].ask].action}
    BY <2>2 DEF BInv, IInv, OneShotApproval
  <2>6. \E k \in Entries(i, p) : p.action \in Manifest[i].creds[k].actions
    <3>1. Entries(i, p) # {} /\ p.action \in First(i, p).actions
      BY <2>1 DEF BInv, LinkInv, Permits
    <3> QED
      BY <2>1, <3>1, FirstIsEntry
  <2> QED
    BY <2>2, <2>3, <2>4, <2>5, <2>6
<1> QED
  BY BrokerInvariance, <1>1, PTL

=============================================================================
