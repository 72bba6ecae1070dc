----------------------------- MODULE LeaseValidate -----------------------------
(***************************************************************************)
(* LeaseService.validate (lease/service.py): the rules of a lease checked  *)
(* at the moment of use, against the table that LeaseGateway and           *)
(* capsulectl write.  Nothing in the runtime calls it yet.  It stands here *)
(* for a process of its own, as capsulectl does, one validation at a time. *)
(***************************************************************************)
EXTENDS LeaseGateway

VARIABLE check    \* the validation in progress, and what it read

vvars == <<vars, check>>

\* What validate is asked about: neither capsule nor ttl.
Questions == {[instance |-> s.instance, session |-> s.session,
               target |-> s.target, action |-> s.action] : s \in Scopes}
NoQuestion == "none"

\* Only success is remembered, as nothing else is done about a refusal; so the
\* error codes are not told apart.
NoCheck   == [pc |-> "idle", about |-> NoQuestion, seen |-> NoRow]

VInit == Init /\ check = NoCheck

\* no row, or a revoked one; the status EXPIRED is not asked for
Withheld(row) == row.status \in {"NONE", "REVOKED"}

\* Nothing that happens meanwhile matters for a row that is withheld.
ValidateRead(s) ==
    /\ check.pc \in {"idle", "valid"}
    /\ \E row \in Snapshots(TargetRows(s.target)) :
          check' = IF Withheld(row) THEN NoCheck
                   ELSE [pc |-> "judge", about |-> s, seen |-> row]
    /\ UNCHANGED vars

BoundTo(c) == /\ db[c.seen.id].instance = c.about.instance
              /\ db[c.seen.id].session = c.about.session
              /\ c.about.action \in db[c.seen.id].actions

\* Time is looked at before the binding.
Judge ==
    /\ check.pc = "judge"
    /\ check' = IF ~Unexpired(check.seen.id) THEN [check EXCEPT !.pc = "expire"]
                ELSE IF BoundTo(check) THEN [NoCheck EXCEPT !.pc = "valid"]
                ELSE NoCheck
    /\ UNCHANGED vars

\* As in find_matching_lease, whatever the status has become meanwhile.
ValidateExpires ==
    /\ check.pc = "expire"
    /\ db' = SetStatus({check.seen.id}, "EXPIRED")
    /\ check' = NoCheck
    /\ UNCHANGED <<now, asks, req, hist>>

VNext ==
    \/ Next /\ UNCHANGED check
    \/ \E s \in Questions : ValidateRead(s)
    \/ Judge
    \/ ValidateExpires

VSpec == VInit /\ [][VNext]_vvars

\* A lease passes only when it is bound to what was asked, has time left, and
\* was ACTIVE when it was read.  validate never looks for EXPIRED
\* (service.py:35-39): that no such lease passes rests on everybody who writes
\* that status writing it to leases whose time is over.
ValidIsActive ==
    [][check.pc = "judge" /\ check'.pc = "valid" =>
          LET row == db[check.seen.id]
          IN  /\ check.seen.status = "ACTIVE" /\ now < row.expires
              /\ row.instance = check.about.instance
              /\ row.session = check.about.session
              /\ row.target = check.about.target
              /\ check.about.action \in row.actions]_vvars
=============================================================================
