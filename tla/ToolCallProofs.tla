---------------------------- MODULE ToolCallProofs ----------------------------
(* Theorems about ToolCall for any time limits, any number of connections   *)
(* and of containers: what the limits promise to the client, how long an    *)
(* operation may outlive its container, and how long a lease locks out.     *)
EXTENDS ToolCall, TLAPS

-----------------------------------------------------------------------------
(* The inductive invariant *)

\* How long a broker call may have lasted by the end of a wait.
Spent(stage) ==
    CASE stage = "approval"   -> ApprovalLimit
      [] stage = "credential" -> ApprovalLimit + CredentialLimit
      [] stage = "provider"   -> ApprovalLimit + CredentialLimit + ProviderLimit
      [] OTHER                -> 0

OpType == [stage : Waits \cup {"idle", "answered"}, left : Nat,
           box : Nat, client : BOOLEAN, patience : 0..ClientLimit]

\* A broker call and its container: what the call has left to wait, and how
\* long its container has been gone, are within what it may last.
OpInv(o) ==
    /\ o \in OpType
    /\ o.left <= Limit(o.stage)
    /\ o.client => o.box = box
    /\ o.stage # "idle" => o.box \in Containers /\ o.box <= box
    /\ o.stage \in Waits /\ o.box < box => gone[o.box] + o.left <= Spent(o.stage)

\* A container that is there is not gone; a lease of one that is gone was given
\* by an approval that began before.
BoxInv(b) ==
    /\ gone[b] \in 0..Counted /\ lease[b] \in 0..TTL
    /\ b >= box => gone[b] = 0
    /\ b < box /\ lease[b] > 0 => gone[b] + lease[b] <= LongestLockout

TInv ==
    /\ box \in 1..(MaxContainers + 1)
    /\ newest \in Containers \cup {0} /\ newest <= box
    /\ inv \in [on : BOOLEAN, left : Nat] /\ (inv.on => box \in Containers)
    /\ gone = [b \in Containers |-> gone[b]] /\ lease = [b \in Containers |-> lease[b]]
    /\ op = [c \in Conns |-> op[c]]
    /\ \A b \in Containers : BoxInv(b)
    /\ \A c \in Conns : OpInv(op[c])

\* The client has more left to wait than the broker may still take.
PatienceInv ==
    \A c \in Conns : op[c].client /\ op[c].stage \in Waits =>
        op[c].patience >= op[c].left + (ClientLimit - Spent(op[c].stage))

\* As the SDK says of its own limit (sdk broker.py:10).
ClientCovers == ApprovalLimit + CredentialLimit + ProviderLimit < ClientLimit

\* The limits are times, so sums and comparisons of them are.
LEMMA LimitsAreTimes ==
    /\ ClientLimit \in Nat /\ ApprovalLimit \in Nat /\ CredentialLimit \in Nat
    /\ ProviderLimit \in Nat /\ TTL \in Nat /\ MaxContainers \in Nat
    /\ LongestLockout \in Nat /\ LongestOrphan \in Nat /\ Counted \in Nat
    /\ \A limit \in InvokeLimits : limit \in Nat
    /\ Counted = LongestOrphan + LongestLockout + 1
    /\ \A b \in Containers : b \in Nat /\ b # 0 /\ b <= MaxContainers
<1>1. /\ ClientLimit \in Nat /\ ApprovalLimit \in Nat /\ CredentialLimit \in Nat
      /\ ProviderLimit \in Nat /\ TTL \in Nat /\ MaxContainers \in Nat
  BY LimitsAssumption DEF Limits
<1>2. LongestLockout \in Nat /\ LongestOrphan \in Nat
  BY <1>1 DEF LongestLockout, LongestOrphan
<1> QED
  BY <1>1, <1>2, LimitsAssumption DEF Counted, Containers

\* What a wait may last, and the call up to its end.
LEMMA WaitLimits ==
    /\ \A stage : Limit(stage) \in Nat /\ Spent(stage) \in Nat
    /\ Limit("idle") = 0 /\ Limit("answered") = 0
    /\ Limit("approval") = ApprovalLimit /\ Spent("approval") = ApprovalLimit
    /\ Spent("approval") + Limit("credential") = Spent("credential")
    /\ Spent("credential") + Limit("provider") = Spent("provider")
    /\ Spent("provider") = LongestOrphan
    /\ \A stage \in Waits : Limit(stage) <= Spent(stage) /\ Spent(stage) <= LongestOrphan
BY LimitsAreTimes DEF Limit, Spent, Waits, LongestOrphan

\* What TypeOK asks of all broker calls and containers, TInv asks of each.
LEMMA TInvHoldsTypes == TInv => TypeOK
<1> SUFFICES ASSUME TInv  PROVE TypeOK
  OBVIOUS
<1>1. gone \in [Containers -> 0..Counted] /\ lease \in [Containers -> 0..TTL]
  BY DEF TInv, BoxInv
<1>2. op \in [Conns -> OpType]
  BY DEF TInv, OpInv
<1>3. \A c \in Conns : /\ op[c].client => op[c].box = box
                       /\ op[c].left <= Limit(op[c].stage)
  BY DEF TInv, OpInv
<1> QED
  BY <1>1, <1>2, <1>3 DEF TInv, TypeOK, OpType

LEMMA TInvInit == Init => TInv
<1> SUFFICES ASSUME Init  PROVE TInv
  OBVIOUS
<1>1. \A b \in Containers : BoxInv(b)
  BY LimitsAreTimes DEF Init, BoxInv
<1>2. OpInv(NoOp)
  BY LimitsAreTimes, WaitLimits DEF OpInv, OpType, NoOp, Waits
<1> QED
  BY <1>1, <1>2, LimitsAreTimes DEF Init, TInv, NoInvoke

\* A broker call as its client makes it.
LEMMA FreshOp ==
    ASSUME NEW n, n = [NoOp EXCEPT !.box = box, !.client = TRUE, !.patience = ClientLimit],
           box \in Nat
    PROVE  /\ n \in OpType /\ n.stage = "idle" /\ n.left = 0 /\ n.box = box
           /\ n.client = TRUE /\ n.patience = ClientLimit
<1>1. n = [stage |-> "idle", left |-> 0, box |-> box, client |-> TRUE,
           patience |-> ClientLimit]
  BY DEF NoOp
<1>2. /\ "idle" \in Waits \cup {"idle", "answered"} /\ 0 \in Nat /\ TRUE \in BOOLEAN
      /\ ClientLimit \in 0..ClientLimit
  BY LimitsAreTimes
<1>3. ASSUME NEW m, m = [stage |-> "idle", left |-> 0, box |-> box, client |-> TRUE,
                         patience |-> ClientLimit]
      PROVE  /\ m \in OpType /\ m.stage = "idle" /\ m.left = 0 /\ m.box = box
             /\ m.client = TRUE /\ m.patience = ClientLimit
  BY <1>2, <1>3 DEF OpType
<1> QED
  BY <1>1, <1>3

\* A broker call moves on; the containers and the leases stay as they are.
LEMMA OpMoves ==
    ASSUME TInv, NEW c \in Conns, NEW o, OpInv(o), Becomes(c, o),
           UNCHANGED <<box, gone, inv, lease, newest>>
    PROVE  TInv'
<1>1. op' = [d \in Conns |-> op'[d]] /\ \A d \in Conns : op'[d] = IF d = c THEN o ELSE op[d]
  BY DEF Becomes, TInv
<1>2. \A d \in Conns : OpInv(op[d])'
  BY <1>1 DEF TInv, OpInv
<1>3. \A b \in Containers : BoxInv(b)'
  BY DEF TInv, BoxInv
<1> QED
  BY <1>1, <1>2, <1>3 DEF TInv

\* A wait that begins, or ends in an answer.
LEMMA EnterOp ==
    ASSUME TInv, NEW o, OpInv(o), NEW stage \in Waits \cup {"answered"},
           o.stage # "idle" \/ (o.box = box /\ box \in Containers),
           o.box < box /\ stage \in Waits => gone[o.box] + Limit(stage) <= Spent(stage)
    PROVE  OpInv(Enter(o, stage))
<1>1. Enter(o, stage) = [o EXCEPT !.stage = stage, !.left = Limit(stage)]
  BY DEF Enter
<1>2. /\ Enter(o, stage).stage = stage /\ Enter(o, stage).left = Limit(stage)
      /\ Enter(o, stage).box = o.box /\ Enter(o, stage).client = o.client
      /\ Enter(o, stage) \in OpType
  <2> DEFINE lim == Limit(stage)
  <2>1. lim \in Nat
    BY WaitLimits
  <2>2. Enter(o, stage) = [o EXCEPT !.stage = stage, !.left = lim]
    BY <1>1
  <2> HIDE DEF lim
  <2>3. /\ Enter(o, stage).stage = stage /\ Enter(o, stage).left = lim
        /\ Enter(o, stage).box = o.box /\ Enter(o, stage).client = o.client
        /\ Enter(o, stage) \in OpType
    BY <2>1, <2>2 DEF OpInv, OpType
  <2> QED
    BY <2>3 DEF lim
<1>3. o.box \in Containers /\ o.box <= box
  BY LimitsAreTimes DEF OpInv, Containers
<1> QED
  BY <1>2, <1>3, WaitLimits DEF OpInv, Waits

\* The client of a broker call is gone.
LEMMA Orphaned ==
    ASSUME NEW o \in OpType, NEW new, new = [o EXCEPT !.client = FALSE, !.patience = 0]
    PROVE  /\ new \in OpType /\ new.stage = o.stage /\ new.left = o.left
           /\ new.box = o.box /\ new.client = FALSE /\ new.patience = 0
<1>1. 0 \in 0..ClientLimit /\ FALSE \in BOOLEAN
  BY LimitsAreTimes
<1> QED
  BY <1>1 DEF OpType

\* The container goes: its calls and its lease are from now on those of one
\* that is gone, for no time yet.
LEMMA GoesStep == TInv /\ ContainerGoes => TInv'
<1> SUFFICES ASSUME TInv, ContainerGoes  PROVE TInv'
  OBVIOUS
<1>1. /\ box \in Containers /\ box' = box + 1 /\ UNCHANGED <<gone, lease, newest>>
      /\ inv' = NoInvoke /\ box \in Nat /\ box' \in 1..(MaxContainers + 1)
  <2>1. /\ box \in Containers /\ box' = box + 1 /\ UNCHANGED <<gone, lease, newest>>
        /\ inv' = NoInvoke
    BY DEF ContainerGoes
  <2>2. box \in Nat /\ box # 0 /\ box <= MaxContainers /\ MaxContainers \in Nat
    BY <2>1, LimitsAreTimes
  <2> QED
    BY <2>1, <2>2
<1>2. ASSUME NEW b \in Containers  PROVE BoxInv(b)'
  <2>1. /\ BoxInv(b) /\ b \in Nat
        /\ b >= box + 1 => b >= box
        /\ b < box + 1 => b < box \/ b = box
    BY <1>1, LimitsAreTimes DEF TInv
  <2>2. TTL <= LongestLockout /\ lease[b] \in Nat /\ gone[b] \in Nat /\ lease[b] <= TTL
    BY <2>1, LimitsAreTimes DEF LongestLockout, BoxInv
  <2>3. b = box => gone[b] = 0
    BY <1>1, <2>1 DEF BoxInv
  <2> QED
    BY <1>1, <2>1, <2>2, <2>3, LimitsAreTimes DEF BoxInv
<1>3. OpInv(NoOp)'
  BY LimitsAreTimes, WaitLimits DEF OpInv, OpType, NoOp, Waits
<1>4. ASSUME NEW o, OpInv(o), NEW new, new = [o EXCEPT !.client = FALSE, !.patience = 0]
      PROVE  OpInv(new)'
  <2>1. o \in OpType /\ o.box \in Nat /\ o.left \in Nat /\ o.left <= Limit(o.stage)
    BY <1>4 DEF OpInv, OpType
  <2>2. /\ new \in OpType /\ new.stage = o.stage /\ new.left = o.left
        /\ new.box = o.box /\ new.client = FALSE
    BY <1>4, <2>1, Orphaned
  <2>3. o.stage # "idle" => o.box \in Containers /\ o.box <= box + 1
    BY <1>1, <1>4, <2>1 DEF OpInv
  <2>4. o.stage \in Waits /\ o.box < box + 1 => gone[o.box] + o.left <= Spent(o.stage)
    <3>1. CASE o.stage \in Waits /\ o.box < box
      BY <1>4, <3>1 DEF OpInv
    <3>2. CASE o.stage \in Waits /\ o.box = box
      <4>1. gone[o.box] = 0
        BY <1>1, <3>2 DEF TInv, BoxInv
      <4> QED
        BY <2>1, <3>2, <4>1, WaitLimits
    <3> QED
      BY <1>1, <2>1, <3>1, <3>2
  <2> QED
    BY <1>1, <2>1, <2>2, <2>3, <2>4 DEF OpInv
<1>5. \A c \in Conns : OpInv(op[c])'
  <2> SUFFICES ASSUME NEW c \in Conns  PROVE OpInv(op[c])'
    OBVIOUS
  <2>1. op'[c] = IF op[c].stage = "answered" THEN NoOp
                 ELSE [op[c] EXCEPT !.client = FALSE, !.patience = 0]
    BY DEF ContainerGoes
  <2>2. OpInv(op[c])
    BY DEF TInv
  <2> QED
    BY <1>3, <1>4, <2>1, <2>2 DEF OpInv
<1>6. op' = [c \in Conns |-> op'[c]]
  BY DEF ContainerGoes
<1>7. newest' <= box'
  BY SMTT(30), <1>1, LimitsAreTimes DEF TInv, Containers
<1> QED
  BY <1>1, <1>2, <1>5, <1>6, <1>7 DEF TInv, NoInvoke

\* The lease of a call that was approved: its container, if it is gone, has not
\* been gone for longer than the approval took.
LEMMA ApprovedStep ==
    ASSUME TInv, NEW c \in Conns, Approved(c)
    PROVE  TInv'
<1> PICK o : o = op[c]
  OBVIOUS
<1> DEFINE b == o.box
<1>1. /\ OpInv(o) /\ o \in OpType /\ o.stage = "approval" /\ b \in Containers /\ b <= box
      /\ o.left \in Nat /\ b \in Nat /\ box \in Nat
  BY LimitsAreTimes DEF TInv, OpInv, OpType, Approved
<1>2. /\ gone[b] \in Nat
      /\ b < box => gone[b] + o.left <= ApprovalLimit
      /\ b < box => gone[b] <= ApprovalLimit
  <2>1. gone[b] \in Nat
    BY <1>1, LimitsAreTimes DEF TInv, BoxInv
  <2>2. b < box => gone[b] + o.left <= ApprovalLimit
    BY <1>1, WaitLimits DEF OpInv, Waits
  <2> QED
    BY <1>1, <2>1, <2>2, LimitsAreTimes
<1>3. OpInv(Enter(o, "credential"))
  <2>1. b < box => gone[b] + Limit("credential") <= Spent("credential")
    BY <1>1, <1>2, WaitLimits, LimitsAreTimes
  <2>2. "credential" \in Waits
    BY DEF Waits
  <2> QED
    BY <1>1, <2>1, <2>2, EnterOp
<1>4. /\ lease' = [lease EXCEPT ![b] = TTL] /\ newest' = b
      /\ UNCHANGED <<box, gone, inv>> /\ op' = [op EXCEPT ![c] = Enter(o, "credential")]
  BY DEF Approved, Becomes
<1>5. \A d \in Containers : BoxInv(d)'
  <2> SUFFICES ASSUME NEW d \in Containers  PROVE BoxInv(d)'
    OBVIOUS
  <2>1. BoxInv(d) /\ lease'[d] = IF d = b THEN TTL ELSE lease[d]
    BY <1>4 DEF TInv
  <2>2. CASE d = b
    <3>1. d < box => gone[d] + TTL <= LongestLockout
      BY <1>1, <1>2, <2>2, LimitsAreTimes DEF LongestLockout
    <3> QED
      BY <1>4, <2>1, <2>2, <3>1, LimitsAreTimes DEF BoxInv
  <2>3. CASE d # b
    BY <1>4, <2>1, <2>3 DEF BoxInv
  <2> QED
    BY <2>2, <2>3
<1>6. \A d \in Conns : OpInv(op[d])'
  <2>1. \A d \in Conns : op'[d] = IF d = c THEN Enter(o, "credential") ELSE op[d]
    BY <1>4 DEF TInv
  <2> QED
    BY <1>3, <1>4, <2>1 DEF TInv, OpInv
<1> QED
  BY <1>1, <1>4, <1>5, <1>6 DEF TInv

\* A unit of time: what a broker call may still wait for shrinks by as much as
\* its container has been gone for longer.
LEMMA ElapseStep == TInv /\ Elapse => TInv'
<1> SUFFICES ASSUME TInv, Elapse  PROVE TInv'
  OBVIOUS
<1>1. /\ UNCHANGED <<box, newest>> /\ inv \in [on : BOOLEAN, left : Nat]
      /\ inv' = [inv EXCEPT !.left = IF inv.on THEN @ - 1 ELSE @]
      /\ inv.on => inv.left > 0
  BY DEF Elapse, TInv
<1>2. inv' \in [on : BOOLEAN, left : Nat] /\ (inv'.on => box \in Containers)
  <2>1. PICK left \in Nat : inv' = [inv EXCEPT !.left = left]
    <3>1. inv.on => inv.left - 1 \in Nat
      BY <1>1
    <3> QED
      BY <1>1, <3>1
  <2> QED
    BY <1>1, <2>1 DEF TInv
<1>3. ASSUME NEW b \in Containers
      PROVE  /\ BoxInv(b)'
             /\ Traces(b) => gone'[b] <= gone[b] + 1
             /\ b < box => b \in Nat
  <2>1. BoxInv(b) /\ b \in Nat /\ gone[b] \in Nat /\ lease[b] \in Nat /\ lease[b] <= TTL
        /\ gone[b] <= Counted /\ box \in Nat
    BY LimitsAreTimes DEF TInv, BoxInv
  <2>2. /\ gone'[b] = IF b >= box \/ ~Traces(b) THEN 0
                      ELSE IF gone[b] < Counted THEN gone[b] + 1 ELSE Counted
        /\ lease'[b] = IF lease[b] > 0 THEN lease[b] - 1 ELSE 0
    BY DEF Elapse
  <2>3. gone'[b] \in 0..Counted /\ gone'[b] <= gone[b] + 1
    BY <2>1, <2>2, LimitsAreTimes
  <2>4. lease'[b] \in 0..TTL /\ (lease'[b] > 0 => lease'[b] = lease[b] - 1 /\ lease[b] > 0)
    BY <2>1, <2>2, LimitsAreTimes
  <2>5. b < box /\ lease'[b] > 0 => gone'[b] + lease'[b] <= LongestLockout
    BY <2>1, <2>3, <2>4, LimitsAreTimes DEF BoxInv
  <2> QED
    BY <1>1, <2>1, <2>2, <2>3, <2>4, <2>5 DEF BoxInv
<1>4. ASSUME NEW c \in Conns
      PROVE  OpInv(op[c])'
  <2> PICK o : o = op[c]
    OBVIOUS
  <2> PICK new : new = Aged(o)
    OBVIOUS
  <2>1. /\ OpInv(o) /\ o \in OpType /\ op'[c] = new /\ ~Due(o)
        /\ o.box \in Nat /\ o.left \in Nat /\ o.patience \in 0..ClientLimit
    BY DEF Elapse, TInv, OpInv, OpType
  <2>2. /\ o.stage \in Waits => o.left - 1 \in Nat
        /\ o.client => o.patience - 1 \in 0..ClientLimit
    BY <2>1, LimitsAreTimes DEF Due
  <2>3. PICK left \in Nat, patience \in 0..ClientLimit :
           /\ new = [o EXCEPT !.left = left, !.patience = patience]
           /\ left = IF o.stage \in Waits THEN o.left - 1 ELSE o.left
    BY <2>1, <2>2 DEF Aged
  <2>4. /\ new \in OpType /\ new.stage = o.stage /\ new.box = o.box
        /\ new.client = o.client /\ new.left = left
    BY <2>1, <2>3 DEF OpType
  <2>5. new.left <= Limit(new.stage)
    <3>1. left <= o.left /\ o.left <= Limit(o.stage) /\ Limit(o.stage) \in Nat
      BY <2>1, <2>3, WaitLimits DEF OpInv
    <3> QED
      BY <2>1, <2>3, <2>4, <3>1
  <2>6. o.stage \in Waits /\ o.box < box => gone'[o.box] + left <= Spent(o.stage)
    <3> SUFFICES ASSUME o.stage \in Waits, o.box < box
                 PROVE  gone'[o.box] + left <= Spent(o.stage)
      OBVIOUS
    <3>1. o.box \in Containers /\ gone[o.box] + o.left <= Spent(o.stage)
      BY <2>1 DEF OpInv, Waits
    <3>2. Traces(o.box)
      BY <2>1, <3>1 DEF Traces
    <3>3. gone'[o.box] <= gone[o.box] + 1 /\ gone'[o.box] \in Nat /\ gone[o.box] \in Nat
      BY <1>3, <3>1, <3>2, LimitsAreTimes DEF BoxInv, TInv
    <3>4. left = o.left - 1 /\ Spent(o.stage) \in Nat
      BY <2>3, WaitLimits
    <3> QED
      BY <2>1, <3>1, <3>3, <3>4
  <2> QED
    BY <1>1, <2>1, <2>4, <2>5, <2>6 DEF OpInv
<1>5. /\ op' = [c \in Conns |-> op'[c]] /\ gone' = [b \in Containers |-> gone'[b]]
      /\ lease' = [b \in Containers |-> lease'[b]]
  BY DEF Elapse
<1> QED
  BY <1>1, <1>2, <1>3, <1>4, <1>5 DEF TInv

\* Every step keeps TInv.
LEMMA TInvNext == TInv /\ [Next]_vars => TInv'
<1> SUFFICES ASSUME TInv, [Next]_vars  PROVE TInv'
  OBVIOUS
<1>1. ASSUME NEW limit \in InvokeLimits, Invoke(limit)  PROVE TInv'
  <2>1. inv' \in [on : BOOLEAN, left : Nat] /\ box \in Containers
    BY <1>1, LimitsAreTimes DEF Invoke
  <2> QED
    BY <1>1, <2>1 DEF Invoke, TInv, OpInv, BoxInv
<1>2. CASE ToolReturns
  <2>1. inv' \in [on : BOOLEAN, left : Nat] /\ inv'.on = FALSE
    BY <1>2 DEF ToolReturns, NoInvoke
  <2> QED
    BY <1>2, <2>1 DEF ToolReturns, TInv, OpInv, BoxInv
<1>3. CASE ContainerGoes
  BY <1>3, GoesStep
<1>4. CASE Elapse
  BY <1>4, ElapseStep
<1>5. ASSUME NEW c \in Conns, CallBroker(c)  PROVE TInv'
  <2> PICK o : o = [NoOp EXCEPT !.box = box, !.client = TRUE, !.patience = ClientLimit]
    OBVIOUS
  <2>1. box \in Containers /\ box \in Nat /\ ~(box < box)
    BY <1>5, LimitsAreTimes DEF CallBroker, TInv
  <2>2. o.box = box /\ o.stage = "idle" /\ OpInv(o)
    <3>1. /\ o \in OpType /\ o.stage = "idle" /\ o.left = 0 /\ o.box = box
          /\ "idle" \notin Waits
      BY <2>1, FreshOp DEF Waits
    <3> QED
      BY <3>1, WaitLimits DEF OpInv
  <2>3. \A stage \in Waits \cup {"answered"} : OpInv(Enter(o, stage))
    BY <2>1, <2>2, EnterOp
  <2>4. PICK stage \in Waits \cup {"answered"} : Becomes(c, Enter(o, stage))
    BY <1>5 DEF CallBroker, Waits
  <2> QED
    BY <1>5, <2>3, <2>4, OpMoves DEF CallBroker
<1>6. ASSUME NEW c \in Conns, Approved(c)  PROVE TInv'
  BY <1>6, ApprovedStep
<1>7. ASSUME NEW c \in Conns, Resolved(c)  PROVE TInv'
  <2> PICK o : o = op[c]
    OBVIOUS
  <2>1. OpInv(o) /\ o.stage = "credential" /\ "provider" \in Waits /\ "credential" \in Waits
        /\ o.box \in Containers /\ o.left \in Nat
    BY <1>7 DEF Resolved, TInv, OpInv, OpType, Waits
  <2>2. o.box < box => gone[o.box] + Limit("provider") <= Spent("provider")
    <3>1. gone[o.box] \in Nat
      BY <2>1, LimitsAreTimes DEF TInv, BoxInv
    <3>2. o.box < box => gone[o.box] + o.left <= Spent("credential")
      BY <2>1 DEF OpInv
    <3> QED
      BY <2>1, <3>1, <3>2, WaitLimits
  <2>3. OpInv(Enter(o, "provider"))
    BY <2>1, <2>2, EnterOp
  <2> QED
    BY <1>7, <2>3, OpMoves DEF Resolved
<1>8. ASSUME NEW c \in Conns, Ends(c)  PROVE TInv'
  <2> PICK o : o = op[c]
    OBVIOUS
  <2>1. OpInv(o) /\ o.stage # "idle" /\ "answered" \notin Waits
    BY <1>8 DEF Ends, TInv, Waits
  <2>2. OpInv(Enter(o, "answered")) /\ OpInv(NoOp)
    <3>1. OpInv(NoOp)
      BY LimitsAreTimes, WaitLimits DEF OpInv, OpType, NoOp, Waits
    <3> QED
      BY <2>1, <3>1, EnterOp
  <2> QED
    BY <1>8, <2>2, OpMoves DEF Ends, Answer
<1>9. ASSUME NEW c \in Conns, ClientReads(c)  PROVE TInv'
  <2>1. OpInv(NoOp)
    BY LimitsAreTimes, WaitLimits DEF OpInv, OpType, NoOp, Waits
  <2> QED
    BY <1>9, <2>1, OpMoves DEF ClientReads
<1>10. CASE UNCHANGED vars
  BY <1>10 DEF vars, TInv, OpInv, BoxInv
<1> QED
  BY <1>1, <1>2, <1>3, <1>4, <1>5, <1>6, <1>7, <1>8, <1>9, <1>10 DEF Next

\* The tool call, its container, its broker calls and the leases stay within
\* the times that the limits add up to.
THEOREM TimesInvariance == Spec => []TInv
<1> QED
  BY TInvInit, TInvNext, PTL DEF Spec

\* Types; a client is in the current container, and a wait within its limit.
THEOREM TimesTypeCorrect == Spec => []TypeOK
BY TimesInvariance, TInvHoldsTypes, PTL

\* An operation is carried out for a container that is removed for no longer
\* than the broker's three limits allow (server.py:89-99).
THEOREM OrphanBoundedHolds == Spec => []OrphanBounded
<1>1. TInv => OrphanBounded
  <2> SUFFICES ASSUME TInv, NEW c \in Conns, op[c].stage = "provider", op[c].box < box
               PROVE  gone[op[c].box] <= LongestOrphan
    BY DEF OrphanBounded
  <2>1. /\ gone[op[c].box] + op[c].left <= LongestOrphan /\ op[c].left \in Nat
        /\ op[c].box \in Containers
    BY WaitLimits DEF TInv, OpInv, OpType, Waits
  <2>2. gone[op[c].box] \in Nat
    BY <2>1, LimitsAreTimes DEF TInv, BoxInv
  <2> QED
    BY <2>1, <2>2, LimitsAreTimes
<1> QED
  BY TimesInvariance, <1>1, PTL

\* A removed container's lease keeps the next one out for less than an approval
\* and a ttl (gateway.py:29).
THEOREM LockoutBoundedHolds == Spec => []LockoutBounded
<1>1. TInv => LockoutBounded
  <2> SUFFICES ASSUME TInv, LockedOut  PROVE gone[newest] < LongestLockout
    BY DEF LockoutBounded
  <2>1. /\ newest \in Containers /\ newest < box /\ lease[newest] > 0
        /\ gone[newest] \in Nat /\ lease[newest] \in Nat
    BY LimitsAreTimes DEF LockedOut, TInv, BoxInv
  <2>2. gone[newest] + lease[newest] <= LongestLockout
    BY <2>1 DEF TInv, BoxInv
  <2> QED
    BY <2>1, <2>2, LimitsAreTimes
<1> QED
  BY TimesInvariance, <1>1, PTL
-----------------------------------------------------------------------------
(* The client outwaits the broker *)

\* PatienceInv of one broker call.
Patient(o) == o.client /\ o.stage \in Waits =>
                  o.patience >= o.left + (ClientLimit - Spent(o.stage))

\* A wait that begins when the waits before it have had their time.
LEMMA PatientEnters ==
    ASSUME NEW o \in OpType, NEW stage \in Waits \cup {"answered"},
           o.patience + Spent(stage) >= Limit(stage) + ClientLimit
    PROVE  Patient(Enter(o, stage))
<1> DEFINE lim == Limit(stage)  new == Enter(o, stage)
<1>1. lim \in Nat /\ Spent(stage) \in Nat /\ o.patience \in Nat /\ ClientLimit \in Nat
  BY WaitLimits, LimitsAreTimes DEF OpType
<1>2. new = [o EXCEPT !.stage = stage, !.left = lim]
  BY DEF Enter
<1> HIDE DEF new, lim
<1>3. new.stage = stage /\ new.left = lim /\ new.patience = o.patience
  BY <1>2 DEF OpType
<1>4. o.patience >= lim + (ClientLimit - Spent(stage))
  BY <1>1 DEF lim
<1>5. Patient(new)
  BY <1>3, <1>4 DEF Patient
<1> QED
  BY <1>5 DEF new

LEMMA PatienceNext ==
    TInv /\ PatienceInv /\ [Next]_vars => PatienceInv'
<1> SUFFICES ASSUME TInv, PatienceInv, [Next]_vars, NEW c \in Conns
             PROVE  Patient(op'[c])
  BY DEF PatienceInv, Patient
<1> PICK o : o = op[c]
  OBVIOUS
<1>1. /\ OpInv(o) /\ o \in OpType /\ Patient(o) /\ o.left \in Nat /\ o.patience \in Nat
      /\ Spent(o.stage) \in Nat /\ ClientLimit \in Nat
  <2>1. OpInv(o) /\ o \in OpType /\ Patient(o)
    BY DEF TInv, OpInv, PatienceInv, Patient
  <2> QED
    BY <2>1, WaitLimits, LimitsAreTimes DEF OpType
<1>2. Patient(NoOp)
  BY DEF Patient, NoOp
<1>3. op'[c] = o => Patient(op'[c])
  BY <1>1
<1>4. \A o2 \in OpType : Patient(Enter(o2, "answered"))
  <2> SUFFICES ASSUME NEW o2 \in OpType  PROVE Patient(Enter(o2, "answered"))
    OBVIOUS
  <2> DEFINE lim == Limit("answered")
  <2>1. Enter(o2, "answered") = [o2 EXCEPT !.stage = "answered", !.left = lim]
    BY DEF Enter
  <2>2. Enter(o2, "answered").stage = "answered"
    BY <2>1 DEF OpType
  <2> QED
    BY <2>2 DEF Patient, Waits
<1>5. CASE ContainerGoes
  <2>1. op'[c] = NoOp \/ op'[c] = [o EXCEPT !.client = FALSE, !.patience = 0]
    BY <1>5 DEF ContainerGoes
  <2> QED
    BY <1>1, <1>2, <2>1, Orphaned DEF Patient
<1>6. CASE Elapse
  <2> PICK new : new = Aged(o)
    OBVIOUS
  <2>1. op'[c] = new
    BY <1>6 DEF Elapse
  <2>2. CASE o.client /\ o.stage \in Waits
    <3>1. new = [o EXCEPT !.left = o.left - 1, !.patience = o.patience - 1]
      BY <2>2 DEF Aged
    <3>2. /\ new.left = o.left - 1 /\ new.patience = o.patience - 1
          /\ new.stage = o.stage
      BY <1>1, <3>1 DEF OpType
    <3> QED
      BY <1>1, <2>1, <2>2, <3>2 DEF Patient
  <2>3. CASE ~(o.client /\ o.stage \in Waits)
    <3>1. new.client = o.client /\ new.stage = o.stage
      BY <1>1 DEF Aged, OpType
    <3> QED
      BY <2>1, <2>3, <3>1 DEF Patient
  <2> QED
    BY <2>2, <2>3
<1>7. ASSUME NEW d \in Conns, CallBroker(d)  PROVE Patient(op'[c])
  <2> PICK n : n = [NoOp EXCEPT !.box = box, !.client = TRUE, !.patience = ClientLimit]
    OBVIOUS
  <2>2. n \in OpType /\ n.patience = ClientLimit
    <3>1. box \in Nat
      BY <1>7, LimitsAreTimes DEF CallBroker, TInv
    <3> QED
      BY <3>1, FreshOp
  <2>3. Patient(Enter(n, "approval")) /\ Patient(Enter(n, "credential"))
    <3>1. /\ Limit("approval") = Spent("approval")
          /\ Limit("credential") <= Spent("credential")
          /\ Limit("approval") \in Nat /\ Limit("credential") \in Nat
          /\ Spent("credential") \in Nat
          /\ "approval" \in Waits /\ "credential" \in Waits
      BY WaitLimits DEF Waits
    <3>2. /\ n.patience + Spent("approval") >= Limit("approval") + ClientLimit
          /\ n.patience + Spent("credential") >= Limit("credential") + ClientLimit
      BY <1>1, <2>2, <3>1
    <3> QED
      BY <2>2, <3>1, <3>2, PatientEnters
  <2>4. op'[c] = o \/ \E stage \in Waits \cup {"answered"} :
                         /\ op'[c] = Enter(n, stage)
                         /\ stage \in {"answered", "credential", "approval"}
    BY <1>7 DEF CallBroker, Becomes, Waits, TInv
  <2> QED
    BY <1>3, <1>4, <2>2, <2>3, <2>4
<1>8. ASSUME NEW d \in Conns, Approved(d) \/ Resolved(d)  PROVE Patient(op'[c])
  <2>1. /\ c # d => op'[c] = o
        /\ c = d => \/ o.stage = "approval" /\ op'[c] = Enter(o, "credential")
                    \/ o.stage = "credential" /\ op'[c] = Enter(o, "provider")
    BY <1>8 DEF Approved, Resolved, Becomes, TInv
  <2>2. CASE o.client
    <3>1. ASSUME o.stage = "approval"  PROVE Patient(Enter(o, "credential"))
      <4>1. /\ "approval" \in Waits /\ "credential" \in Waits
            /\ Spent("approval") + Limit("credential") = Spent("credential")
            /\ Spent("approval") \in Nat /\ Limit("credential") \in Nat
            /\ Spent("credential") \in Nat
        BY WaitLimits DEF Waits
      <4>2. o.patience >= o.left + (ClientLimit - Spent("approval"))
        BY <1>1, <2>2, <3>1, <4>1 DEF Patient
      <4>3. o.patience + Spent("credential") >= Limit("credential") + ClientLimit
        BY <1>1, <4>1, <4>2
      <4> QED
        BY <1>1, <4>1, <4>3, PatientEnters
    <3>2. ASSUME o.stage = "credential"  PROVE Patient(Enter(o, "provider"))
      <4>1. /\ "credential" \in Waits /\ "provider" \in Waits
            /\ Spent("credential") + Limit("provider") = Spent("provider")
            /\ Spent("credential") \in Nat /\ Limit("provider") \in Nat
            /\ Spent("provider") \in Nat
        BY WaitLimits DEF Waits
      <4>2. o.patience >= o.left + (ClientLimit - Spent("credential"))
        BY <1>1, <2>2, <3>2, <4>1 DEF Patient
      <4>3. o.patience + Spent("provider") >= Limit("provider") + ClientLimit
        BY <1>1, <4>1, <4>2
      <4> QED
        BY <1>1, <4>1, <4>3, PatientEnters
    <3> QED
      BY <1>3, <2>1, <3>1, <3>2
  <2>3. CASE ~o.client
    <3>1. ASSUME NEW stage  PROVE Patient(Enter(o, stage))
      <4>1. Enter(o, stage).client = o.client
        <5> DEFINE lim == Limit(stage)
        <5>1. Enter(o, stage) = [o EXCEPT !.stage = stage, !.left = lim]
          BY DEF Enter
        <5> HIDE DEF lim
        <5> QED
          BY <1>1, <5>1 DEF OpType
      <4> QED
        BY <2>3, <4>1 DEF Patient
    <3> QED
      BY <1>3, <2>1, <3>1
  <2> QED
    BY <2>2, <2>3
<1>9. ASSUME NEW d \in Conns, Ends(d) \/ ClientReads(d)  PROVE Patient(op'[c])
  <2>1. op'[c] = o \/ op'[c] = NoOp \/ op'[c] = Enter(o, "answered")
    BY <1>9 DEF Ends, ClientReads, Answer, Becomes, TInv
  <2> QED
    BY <1>1, <1>2, <1>3, <1>4, <2>1
<1>10. CASE UNCHANGED op
  BY <1>3, <1>10
<1> QED
  BY <1>5, <1>6, <1>7, <1>8, <1>9, <1>10 DEF Next, Invoke, ToolReturns, vars

\* While the SDK's limit is longer than the broker's three together, no client
\* gives up on a call that the broker still works on (sdk broker.py:10).
THEOREM ClientOutwaitsWhenCovered ==
    ASSUME ClientCovers
    PROVE  Spec => []ClientOutwaitsBroker
<1>1. Init => TInv /\ PatienceInv
  <2>1. Init => PatienceInv
    BY DEF Init, PatienceInv, NoOp
  <2> QED
    BY <2>1, TInvInit
<1>2. TInv /\ PatienceInv /\ [Next]_vars => (TInv /\ PatienceInv)'
  BY TInvNext, PatienceNext
<1>3. TInv /\ PatienceInv => ClientOutwaitsBroker
  <2> SUFFICES ASSUME TInv, PatienceInv, NEW c \in Conns, op[c].client,
                      op[c].patience = 0, op[c].stage \in Waits
               PROVE  FALSE
    BY DEF ClientOutwaitsBroker
  <2>1. 0 >= op[c].left + (ClientLimit - Spent(op[c].stage))
    BY DEF PatienceInv
  <2>2. /\ op[c].left \in Nat /\ Spent(op[c].stage) \in Nat
        /\ Spent(op[c].stage) <= LongestOrphan
    BY WaitLimits DEF TInv, OpInv, OpType
  <2>3. LongestOrphan < ClientLimit /\ LongestOrphan \in Nat /\ ClientLimit \in Nat
    BY LimitsAreTimes DEF ClientCovers, LongestOrphan
  <2> QED
    BY <2>1, <2>2, <2>3
<1> QED
  BY <1>1, <1>2, <1>3, PTL DEF Spec

=============================================================================
