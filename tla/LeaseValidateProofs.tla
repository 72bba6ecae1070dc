-------------------------- MODULE LeaseValidateProofs --------------------------
(* Theorems about LeaseValidate, for every value of its constants: what a   *)
(* validation that passes rests on, and that it does the gateway no harm.   *)
EXTENDS LeaseValidate, LeaseGatewayProofs

-----------------------------------------------------------------------------
(* The inductive invariant of the gateway with a validation in progress *)

\* What a validation remembers of the row it read.
CheckInv ==
    /\ check.pc \in {"idle", "judge", "expire", "valid"}
    /\ check.pc = "judge" =>
          /\ check.about \in Questions
          /\ check.seen.id \in TargetRows(check.about.target)
          /\ check.seen.status \in {"ACTIVE", "EXPIRED"}
          /\ check.seen.status = "EXPIRED" => db[check.seen.id].expires <= now
    /\ check.pc = "expire" =>
          check.seen.id \in Ids /\ db[check.seen.id].expires <= now

VInv == IInv /\ CheckInv

-----------------------------------------------------------------------------
(* The validation does the gateway no harm *)

\* Marking a lease that is over as EXPIRED keeps the gateway's invariant,
\* whatever the requests were about to do.
LEMMA MarkKeeps ==
    ASSUME IInv, NEW i \in Ids, db[i].expires <= now,
           db' = SetStatus({i}, "EXPIRED"), UNCHANGED <<now, asks, req, hist>>
    PROVE  IInv' /\ Monotone /\ Ids' = Ids
<1>1. /\ TypeInv /\ db \in Seq(RowType) /\ now \in Nat /\ "EXPIRED" \in Status
      /\ \A j \in Ids : db[j] \in RowType
  BY DEF IInv, TypeInv, TypeOK, Status, Ids
<1>2. /\ db' \in Seq(RowType) /\ Ids' = Ids
      /\ db'[i] = [db[i] EXCEPT !.status = "EXPIRED"]
      /\ \A j \in Ids : j # i => db'[j] = db[j]
  <2>1. /\ SetStatus({i}, "EXPIRED") \in Seq(RowType)
        /\ DOMAIN SetStatus({i}, "EXPIRED") = Ids
        /\ \A j \in Ids :
              /\ j \in {i} => SetStatus({i}, "EXPIRED")[j] = [db[j] EXCEPT !.status = "EXPIRED"]
              /\ j \notin {i} => SetStatus({i}, "EXPIRED")[j] = db[j]
    BY <1>1, SetStatusRows
  <2> QED
    BY <2>1 DEF Ids
<1>3. \A j \in Ids : SameRow(j)
  <2>1. SameRow(i)
    BY <1>1, <1>2 DEF SameRow, RowType
  <2> QED
    BY <1>2, <2>1 DEF SameRow
<1>4. Monotone
  BY <1>1, <1>2, <1>3 DEF Monotone
<1>5. TypeInv'
  BY <1>1, <1>2 DEF TypeInv, TypeOK, ScopeInv, Busy, At
<1>6. ExpiredIsPast'
  <2>1. \A j \in Ids : db'[j].expires = db[j].expires
    BY <1>3 DEF SameRow
  <2> QED
    BY <1>2, <2>1 DEF IInv, ExpiredIsPast
<1>7. OneShotApproval' /\ AskInvs'
  BY <1>1, <1>2, <1>4, <1>5, AskQuiet DEF IInv, AskInvs
<1>8. \A r \in Requests : SeenInv(r)' /\ HistInv(r)'
  BY <1>1, <1>4, Untouched DEF IInv
<1> QED
  BY <1>2, <1>4, <1>5, <1>6, <1>7, <1>8 DEF IInv, AskInvs

\* What a validation remembers stays true while the rows grow.
LEMMA CheckKept ==
    ASSUME IInv, CheckInv, Monotone, now' \in Nat, check' = check
    PROVE  CheckInv'
<1>1. \A i \in Ids : db[i].expires \in Int
  <2>1. db \in Seq(RowType)
    BY DEF IInv, TypeInv, TypeOK
  <2>2. \A i \in Ids : db[i] \in RowType
    BY <2>1 DEF Ids
  <2> QED
    BY <2>2 DEF RowType
<1>2. now \in Nat
  BY DEF IInv, TypeInv, TypeOK
<1>3. \A i \in Ids : i \in Ids' /\ (db[i].expires <= now => db'[i].expires <= now')
  BY <1>1, <1>2 DEF Monotone, SameRow
<1>4. \A t : \A i \in TargetRows(t) : i \in Ids /\ i \in TargetRows(t)'
  BY DEF Monotone, SameRow, TargetRows
<1> QED
  BY <1>3, <1>4 DEF CheckInv

\* A validation goes on only with a row that was ACTIVE, or EXPIRED and over.
LEMMA CheckReads ==
    ASSUME IInv, CheckInv, NEW s \in Questions, ValidateRead(s)
    PROVE  CheckInv'
<1>1. PICK v \in Snapshots(TargetRows(s.target)) :
         check' = IF Withheld(v) THEN NoCheck ELSE [pc |-> "judge", about |-> s, seen |-> v]
  BY DEF ValidateRead
<1>2. db' = db /\ now' = now
  BY DEF ValidateRead, vars
<1>3. CASE Withheld(v)
  BY <1>1, <1>3 DEF NoCheck, CheckInv
<1>4. CASE ~Withheld(v)
  <2>1. db \in Seq(RowType) /\ TargetRows(s.target) \subseteq Ids
    BY DEF IInv, TypeInv, TypeOK, TargetRows
  <2>2. /\ v \in SeenType /\ v.id \in TargetRows(s.target)
        /\ v.status = db[v.id].status /\ v.status \in {"ACTIVE", "EXPIRED"}
    BY <1>1, <1>4, <2>1, SnapshotRow DEF Withheld, SeenType, Status
  <2>3. v.status = "EXPIRED" => db[v.id].expires <= now
    BY <2>1, <2>2 DEF IInv, ExpiredIsPast
  <2>4. check'.pc = "judge" /\ check'.about = s /\ check'.seen = v
    BY <1>1, <1>4
  <2>5. TargetRows(s.target)' = TargetRows(s.target)
    BY <1>2 DEF TargetRows, Ids
  <2> QED
    BY <1>2, <2>2, <2>3, <2>4, <2>5 DEF CheckInv, TargetRows, Ids
<1> QED
  BY <1>3, <1>4

\* It marks a row only when the row's time is over.
LEMMA CheckJudges ==
    ASSUME IInv, CheckInv, Judge
    PROVE  CheckInv'
<1>1. db' = db /\ now' = now /\ Ids' = Ids
  BY DEF Judge, vars, Ids
<1>2. check.seen.id \in Ids /\ db[check.seen.id].expires \in Int /\ now \in Nat
  <2>1. db \in Seq(RowType) /\ now \in Nat
    BY DEF IInv, TypeInv, TypeOK
  <2>2. check.seen.id \in Ids
    BY DEF CheckInv, Judge, TargetRows
  <2>3. db[check.seen.id] \in RowType
    BY <2>1, <2>2 DEF Ids
  <2> QED
    BY <2>1, <2>2, <2>3 DEF RowType
<1>3. CASE ~Unexpired(check.seen.id)
  <2>1. check' = [check EXCEPT !.pc = "expire"]
    BY <1>3 DEF Judge
  <2> QED
    BY <1>1, <1>2, <1>3, <2>1 DEF CheckInv, Unexpired
<1>4. CASE Unexpired(check.seen.id)
  <2>1. check'.pc \in {"idle", "valid"}
    BY <1>4 DEF Judge, NoCheck
  <2> QED
    BY <2>1 DEF CheckInv
<1> QED
  BY <1>3, <1>4

\* What a step does to the rows, with a validation in progress too.
LEMMA VGrows ==
    ASSUME VInv, VNext
    PROVE  Monotone /\ now' \in Nat /\ IInv'
<1>1. TypeInv /\ now \in Nat
  BY DEF VInv, IInv, TypeInv, TypeOK
<1>2. CASE Next
  BY <1>1, <1>2, Grows, IInvNext, TypeStep DEF VInv, TypeInv, TypeOK
<1>3. CASE UNCHANGED vars
  <2>1. Monotone
    BY <1>1, <1>3 DEF vars, Monotone, SameRow, Ids
  <2> QED
    BY <1>1, <1>3, <2>1, IInvNext DEF vars, VInv
<1>4. CASE ValidateExpires
  <2>1. check.seen.id \in Ids /\ db[check.seen.id].expires <= now
    BY <1>4 DEF VInv, CheckInv, ValidateExpires
  <2> QED
    BY <1>1, <1>4, <2>1, MarkKeeps DEF ValidateExpires, VInv
<1> QED
  BY <1>2, <1>3, <1>4 DEF VNext, ValidateRead, Judge

\* Every step keeps the invariant.
LEMMA VInvNext == VInv /\ [VNext]_vvars => VInv'
<1> SUFFICES ASSUME VInv, [VNext]_vvars PROVE VInv'
  OBVIOUS
<1>1. CASE VNext
  <2>1. Monotone /\ now' \in Nat /\ IInv'
    BY <1>1, VGrows
  <2>2. CASE check' = check
    BY <2>1, <2>2, CheckKept DEF VInv
  <2>3. CASE \E s \in Questions : ValidateRead(s)
    BY <2>1, <2>3, CheckReads DEF VInv
  <2>4. CASE Judge
    BY <2>1, <2>4, CheckJudges DEF VInv
  <2>5. CASE ValidateExpires
    BY <2>1, <2>5 DEF ValidateExpires, NoCheck, CheckInv, VInv
  <2> QED
    BY <1>1, <2>2, <2>3, <2>4, <2>5 DEF VNext
<1>2. CASE UNCHANGED vvars
  <2>1. UNCHANGED vars /\ check' = check
    BY <1>2 DEF vvars
  <2>2. IInv'
    BY <2>1, IInvNext DEF VInv
  <2> QED
    BY <2>1, <2>2 DEF VInv, CheckInv, TargetRows, Ids, vars
<1> QED
  BY <1>1, <1>2

\* The invariant always holds.
THEOREM ValidateInvariance == VSpec => []VInv
<1>1. VInit => VInv
  BY IInvInit DEF VInit, VInv, CheckInv, NoCheck
<1> QED
  BY <1>1, VInvNext, PTL DEF VSpec

\* A process that validates leases, and writes EXPIRED on what it read earlier,
\* takes none of the gateway's guarantees away.
THEOREM ValidateHarmless ==
    VSpec => [](OneShotApproval /\ ExpiredIsPast /\ NoGrantAfterRevoke)
<1>1. VInv => OneShotApproval /\ ExpiredIsPast /\ NoGrantAfterRevoke
  BY DEF VInv, IInv, HistInv, NoGrantAfterRevoke
<1> QED
  BY ValidateInvariance, <1>1, PTL

\* A lease passes only when it is bound to what was asked, has time left, and
\* was ACTIVE when it was read, although validate never looks for EXPIRED
\* (ValidIsActive).
THEOREM ValidIsActiveHolds == VSpec => ValidIsActive
<1>1. ASSUME VInv, [VNext]_vvars
      PROVE  [check.pc = "judge" /\ check'.pc = "valid" =>
                LET row == db[check.seen.id]
                IN  /\ check.seen.status = "ACTIVE" /\ now < row.expires
                    /\ row.instance = check.about.instance
                    /\ row.session = check.about.session
                    /\ row.target = check.about.target
                    /\ check.about.action \in row.actions]_vvars
  <2> SUFFICES ASSUME VNext, check.pc = "judge", check'.pc = "valid"
               PROVE  LET row == db[check.seen.id]
                      IN  /\ check.seen.status = "ACTIVE" /\ now < row.expires
                          /\ row.instance = check.about.instance
                          /\ row.session = check.about.session
                          /\ row.target = check.about.target
                          /\ check.about.action \in row.actions
    BY <1>1
  <2>1. Judge
    BY DEF VNext, ValidateRead, ValidateExpires
  <2>2. Unexpired(check.seen.id) /\ BoundTo(check)
    <3>1. [check EXCEPT !.pc = "expire"].pc = "valid" => FALSE
      BY DEF NoCheck
    <3> QED
      BY <2>1, <3>1 DEF Judge, NoCheck
  <2>3. /\ check.seen.id \in TargetRows(check.about.target)
        /\ check.seen.status \in {"ACTIVE", "EXPIRED"}
        /\ check.seen.status = "EXPIRED" => db[check.seen.id].expires <= now
    BY <1>1 DEF VInv, CheckInv
  <2>4. db[check.seen.id].expires \in Int /\ now \in Nat
    <3>1. db \in Seq(RowType) /\ now \in Nat
      BY <1>1 DEF VInv, IInv, TypeInv, TypeOK
    <3>2. db[check.seen.id] \in RowType
      BY <2>3, <3>1 DEF TargetRows, Ids
    <3> QED
      BY <3>1, <3>2 DEF RowType
  <2> QED
    BY <2>2, <2>3, <2>4 DEF Unexpired, BoundTo, TargetRows
<1> QED
  BY ValidateInvariance, <1>1, PTL DEF VSpec, ValidIsActive

=============================================================================
