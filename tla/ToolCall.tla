-------------------------------- MODULE ToolCall --------------------------------
(***************************************************************************)
(* The time limits of a tool call, which lie in five places: the runtime's *)
(* wait for the tool (DockerBackend.invoke), the SDK's wait for its broker *)
(* (BrokerClient.call in the container), and the broker's waits for the    *)
(* approval, the credential and the provider.                              *)
(*                                                                         *)
(* One capsule and one session that uses one target; containers are        *)
(* numbered and follow each other.  Events take no time, waits do; limits  *)
(* are in units of 15 s, the smallest of them.  BrokerServer has the steps *)
(* of a broker call without time, CapsuleManager those of a tool call.     *)
(***************************************************************************)
EXTENDS Integers

CONSTANTS
    Conns,            \* connections to broker.sock, of all containers
    InvokeLimits,     \* the "timeout" of capsule.invoke, or its default
    ClientLimit,      \* BROKER_CALL_TIMEOUT_SECONDS of the SDK
    ApprovalLimit,    \* APPROVAL_TIMEOUT_SECONDS
    CredentialLimit,  \* the default timeout of RpcConnection.call
    ProviderLimit,    \* PROVIDER_TIMEOUT_SECONDS
    TTL,              \* the ttl the manifest declares
    MaxContainers     \* bound on the containers

Limits == {ClientLimit, ApprovalLimit, CredentialLimit, ProviderLimit, TTL}

ASSUME LimitsAssumption ==
    /\ Limits \subseteq Nat /\ InvokeLimits \subseteq Nat
    /\ MaxContainers \in Nat

VARIABLES
    box,       \* the current container; those before it are removed
    gone,      \* how long each removed container has been gone, while it matters
    inv,       \* the tool call in progress
    op,        \* the broker call on each connection
    lease,     \* the time left of the newest lease of each container
    newest     \* the container of the newest lease, 0 for none

vars == <<box, gone, inv, op, lease, newest>>

Containers == 1..MaxContainers
Waits      == {"approval", "credential", "provider"}

\* The longest anything below is claimed to last, and where counting stops.
LongestOrphan  == ApprovalLimit + CredentialLimit + ProviderLimit
LongestLockout == ApprovalLimit + TTL
Counted == LongestOrphan + LongestLockout + 1

NoInvoke == [on |-> FALSE, left |-> 0]
NoOp == [stage |-> "idle", left |-> 0, box |-> 0, client |-> FALSE, patience |-> 0]

Init ==
    /\ box = 1
    /\ gone = [b \in Containers |-> 0]
    /\ inv = NoInvoke
    /\ op = [c \in Conns |-> NoOp]
    /\ lease = [b \in Containers |-> 0]
    /\ newest = 0

Becomes(c, o) == op' = [op EXCEPT ![c] = o]

-----------------------------------------------------------------------------
(* The tool call *)

\* The container takes the request at once.  While one does not, no limit runs
\* (docker_backend.py:90, see CallHangs); nothing below depends on the limit.
Invoke(limit) ==
    /\ ~inv.on /\ box \in Containers
    /\ inv' = [on |-> TRUE, left |-> limit]
    /\ UNCHANGED <<box, gone, op, lease, newest>>

\* The tool's result is written by the SDK and read by the runtime.  The tool
\* may leave tasks behind that still wait for the broker.
ToolReturns ==
    /\ inv.on
    /\ inv' = NoInvoke
    /\ UNCHANGED <<box, gone, op, lease, newest>>

\* The tool raises, also because the broker refused it something; or it has no
\* answer that can be written, or no time left; or the container crashes, in a
\* call or before the next.  The container goes, and the clients in it; the
\* broker does not notice.
ContainerGoes ==
    /\ box \in Containers
    /\ inv' = NoInvoke
    /\ box' = box + 1
    /\ op' = [c \in Conns |-> IF op[c].stage = "answered" THEN NoOp
                              ELSE [op[c] EXCEPT !.client = FALSE, !.patience = 0]]
    /\ UNCHANGED <<gone, lease, newest>>

-----------------------------------------------------------------------------
(* The broker call *)

\* Slip: the SDK's limit is used for the approval, too.
LimitOfClient(stage) ==
    CASE stage = "approval"   -> ClientLimit
      [] stage = "credential" -> CredentialLimit
      [] stage = "provider"   -> ProviderLimit
      [] OTHER                -> 0

\* Slip: a credential that does not come is asked for once more.
LimitRetried(stage) ==
    CASE stage = "approval"   -> ApprovalLimit
      [] stage = "credential" -> 2 * CredentialLimit
      [] stage = "provider"   -> ProviderLimit
      [] OTHER                -> 0

Limit(stage) ==
    CASE stage = "approval"   -> ApprovalLimit
      [] stage = "credential" -> CredentialLimit
      [] stage = "provider"   -> ProviderLimit
      [] OTHER                -> 0

Enter(o, stage) == [o EXCEPT !.stage = stage, !.left = Limit(stage)]
\* The answer is written; without a client the connection just ends.
Answer(c) == Becomes(c, IF op[c].client THEN Enter(op[c], "answered") ELSE NoOp)

HasLease == lease[box] > 0
\* LEASE_CAPSULE_MISMATCH: the newest lease is another container's, and live.
LockedOut == newest # 0 /\ newest # box /\ lease[newest] > 0

\* A tool, or a task that an earlier one left, calls the broker; it may be
\* refused by the manifest, or for its lease having been revoked.
CallBroker(c) ==
    /\ inv.on /\ op[c] = NoOp
    /\ LET o == [NoOp EXCEPT !.box = box, !.client = TRUE, !.patience = ClientLimit]
       IN  \/ Becomes(c, Enter(o, "answered"))
           \/ HasLease /\ Becomes(c, Enter(o, "credential"))
           \/ ~HasLease /\ ~LockedOut /\ Becomes(c, Enter(o, "approval"))
    /\ UNCHANGED <<box, gone, inv, lease, newest>>

\* The lease is bound to the container that asked, whether it is still there.
Approved(c) ==
    /\ op[c].stage = "approval"
    /\ Becomes(c, Enter(op[c], "credential"))
    /\ lease' = [lease EXCEPT ![op[c].box] = TTL]
    /\ newest' = op[c].box
    /\ UNCHANGED <<box, gone, inv>>

Resolved(c) ==
    /\ op[c].stage = "credential"
    /\ Becomes(c, Enter(op[c], "provider"))
    /\ UNCHANGED <<box, gone, inv, lease, newest>>

\* The provider has answered; or any of the waits failed or reached its limit.
Ends(c) ==
    /\ op[c].stage \in Waits
    /\ Answer(c)
    /\ UNCHANGED <<box, gone, inv, lease, newest>>

ClientReads(c) ==
    /\ op[c].stage = "answered"
    /\ Becomes(c, NoOp)
    /\ UNCHANGED <<box, gone, inv, lease, newest>>

-----------------------------------------------------------------------------
(* Time *)

\* Slip: the credential is waited for without a limit.
DueButCredential(o) ==
    \/ o.stage = "answered"
    \/ o.stage \in Waits \ {"credential"} /\ o.left = 0
    \/ o.client /\ o.patience = 0
\* An answer is read, and a limit kept, before time goes on.
Due(o) == \/ o.stage = "answered"
          \/ o.stage \in Waits /\ o.left = 0
          \/ o.client /\ o.patience = 0

Aged(o) == [o EXCEPT !.left = IF o.stage \in Waits THEN @ - 1 ELSE @,
                     !.patience = IF o.client THEN @ - 1 ELSE @]

\* What outlives a container: its broker calls and its lease.
Traces(b) == lease[b] > 0 \/ \E c \in Conns : op[c].box = b

Elapse ==
    /\ inv.on => inv.left > 0
    /\ \A c \in Conns : ~Due(op[c])
    /\ inv' = [inv EXCEPT !.left = IF inv.on THEN @ - 1 ELSE @]
    /\ op' = [c \in Conns |-> Aged(op[c])]
    /\ gone' = [b \in Containers |->
                   IF b >= box \/ ~Traces(b) THEN 0
                   ELSE IF gone[b] < Counted THEN gone[b] + 1 ELSE Counted]
    /\ lease' = [b \in Containers |-> IF lease[b] > 0 THEN lease[b] - 1 ELSE 0]
    /\ UNCHANGED <<box, newest>>

Next ==
    \/ \E limit \in InvokeLimits : Invoke(limit)
    \/ ToolReturns \/ ContainerGoes \/ Elapse
    \/ \E c \in Conns : \/ CallBroker(c) \/ Approved(c) \/ Resolved(c) \/ Ends(c)
                        \/ ClientReads(c)

Spec == Init /\ [][Next]_vars

-----------------------------------------------------------------------------
(* Properties *)

\* Types; a client is in the current container, and a wait within its limit.
TypeOK ==
    /\ box \in 1..(MaxContainers + 1) /\ newest \in Containers \cup {0}
    /\ gone \in [Containers -> 0..Counted] /\ lease \in [Containers -> 0..TTL]
    /\ inv \in [on : BOOLEAN, left : Nat]
    /\ op \in [Conns -> [stage : Waits \cup {"idle", "answered"}, left : Nat,
                         box : Nat, client : BOOLEAN, patience : 0..ClientLimit]]
    /\ \A c \in Conns : /\ op[c].client => op[c].box = box
                        /\ op[c].left <= Limit(op[c].stage)

\* The SDK's limit covers the user's approval and what comes after it
\* (sdk broker.py:10): no client gives up on a call the broker still works on.
ClientOutwaitsBroker ==
    \A c \in Conns : op[c].client /\ op[c].patience = 0 => op[c].stage \notin Waits

\* An operation may be carried out although its tool call failed and its
\* container is removed (server.py:89-99), but not later than the broker's
\* three limits allow.
OrphanBounded ==
    \A c \in Conns : op[c].stage = "provider" /\ op[c].box < box =>
        gone[op[c].box] <= LongestOrphan

\* A removed container's lease keeps the session's next container out
\* (gateway.py:29); an approval may come after the removal, so this lasts
\* longer than a ttl, but less than an approval and a ttl together.
LockoutBounded == LockedOut => gone[newest] < LongestLockout
=============================================================================
