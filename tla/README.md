# Verification of dsh-capsule

TLA+ modules for the trusted side of dsh-capsule: the Python runtime that starts tool containers
("capsules"), mediates what they ask of the outside world, and grants them leases for it. TLC checks
the modules on small instances; TLAPS proves the safety properties of every component, and both refinements, for
every value of the constants; two properties of the lease runs (section 4) and liveness stay with TLC. Paths below are relative to the repository; `R` stands for `src/runtime/dsh_capsule`.

## 1. The system

| Component | State it keeps | Operations | Model |
|---|---|---|---|
| Lease gateway, `R/lease/gateway.py` | none of its own | `request`: reuse, block checks, approval, issue | `LeaseGateway` |
| Lease service and model, `R/lease/service.py`, `models.py` | none | `issue`, the two lookups, `revoke*`; `validate` (no caller in the runtime) | `LeaseGateway`; `validate` in `LeaseValidate` |
| Lease store, `R/storage/db.py` | table `leases` in SQLite, shared with capsulectl | insert, two queries, three updates | `LeaseGateway` (`db`) |
| Approval channel, `R/lease/approval.py`, `adapter/src/approval.ts` | pending calls to the host | `host.approval.request_lease`, 300 s | `LeaseGateway` (`asks`) |
| capsulectl, `src/cli/capsulectl.py` | none; another process on the same table | `revoke`, `revoke-session`, `revoke-capsule` | `LeaseGateway` |
| Broker server and policy, `R/broker/server.py`, `policy.py` | listener, connections, call context (session, tool) per instance | `broker.call`; `begin_call`, `end_call`, `start`, `stop` | `BrokerServer`, and `CapsuleManager` for the life of the listener |
| Providers, credentials, `R/broker/providers.py`, `github.py`, `credentials.py` | registry | lookup, `resolve`, `execute` | `BrokerServer`, by their outcomes; `ToolCall`, by their limits |
| Capsule manager, `R/capsule/manager.py` | per capsule: instance, server, lock | `invoke`, `_ensure_instance`, `_teardown_instance`, `shutdown` | `CapsuleManager` |
| Docker backend, `R/capsule/docker_backend.py` | containers, IPC directories | `start`, `invoke`, `health`, `stop` | `CapsuleManager` |
| Runtime entry, `R/main.py` | the process | registered methods, end of input | `LeaseGateway`, `CapsuleManager`, `RpcChannel` |
| RPC, `R/rpc.py`, `adapter/src/rpc-client.ts` | pending calls by id on both sides | `start`, `call`, `run`, handlers, `dispose` | `RpcChannel` |
| SDK in the container, `src/sdk` | – | serves `tool.invoke`, opens a connection per `broker.call`, waits 360 s for it | its waits in `ToolCall`; else an environment that may do anything |
| Manifest loader, tool schemas, example capsules | – | parsing, mapping, demo tools | not modelled: no state |

How they meet. The host calls `capsule.invoke` over stdin/stdout. The manager makes sure of a
container and of its broker, takes the capsule's lock, sets the call context, sends `tool.invoke`
over `plugin.sock` and waits for the answer. The tool may open connections to `broker.sock`; each line is a `broker.call`. The
broker checks the manifest, takes the session from the context, asks the gateway for a lease, resolves
the credential through the host and calls the provider. The gateway reads and writes the table, in
which capsulectl revokes leases at any time, and asks the host for approval when it has no lease.

What is hard in it: everything is a coroutine of one event loop, so state is stable between two awaits
and stale after each; approvals last up to 300 s while a tool call has 30 s; host and runtime call each other over one pipe, and each call may need one back; capsulectl is another
process; leases outlive the process, containers outlive it too if nobody removes them; containers
crash, hang and keep connections; the lock covers `tool.invoke` but not the start of the container.
`PROJECT.json` lists these hazards at their lines, with the properties that would notice.

Per component, what makes it correct: no lease without an approval of its own, no grant of a revoked
or expired lease, one holder per target (gateway); no operation without lease, approval and
declaration, and none with a lease that was taken back (broker); contexts that never outlive their
call, no container lost on the way, nothing left behind (manager);
every request, broker call and tool call is answered (all three); a call over the pipe is carried out at most once
and answered by its own completion only (RPC); limits that fit each other (SDK, broker and host together).

## 2. The modules

### LeaseGateway

Variables: `now` (clock), `db` (rows in the order of `issued_at`), `asks` (every approval asked, with
its decision), `req` (per slot: where a request is, its scope, what it read), and `hist`, a history of
what was revoked when the request began. A lease row and an ask carry no ids: they are positions, and
a row remembers the ask it was issued on. Provider and resource are one "target", since no query
separates them.

One action is what the loop runs between two awaits. `FindRead` and `BlockRead` are the two queries;
the judgement on what they returned is a later step (`Reuse`, `Miss`, `Lapse`, `Refuse`, `Ask`) with
the status of the read and the clock of the judgement, which is exactly what the code has in hand.
`MarkExpired` is `update_status(..., "EXPIRED")`, which overwrites any status. `Issue` takes the
answer and writes the row, with no await in between that another request could use; a resource without
":" is only rejected there, when the model object is built. Requests whose parameters have the wrong types are answered
-32602 before the gateway is entered (main.py:27-35) and are left out. `Reject` covers the refusal, a channel error
and the time limit. `Decide`, `Revoke*`, `Tick` and `Restart` are the host, capsulectl, time and
the process: rows stay, requests are gone.

### LeaseSpec, LeaseRefinement

`LeaseSpec` says what a caller, and the user who approves, may rely on, without tables and checks: leases are
issued on consents, taken back and ended in one step each; a request that is granted is given one of them that is its
own, covers the action, has time left and was not taken back before the request began. `LeaseRefinement` maps the
gateway to it: table, approvals and clock are themselves, a request is open from `Begin` to `Return`, given the row
it was answered with, and barred from what `hist` says. The stale `EXPIRED` is `End`, which is why ending a lease
may overwrite that it was taken back; the lookups, checks and late answers are stuttering steps. `LeaseSpec` promises
nothing about holders, since the code does not keep it (`OverlapByRace`).

### LeaseValidate

`LeaseService.validate` beside the gateway, with `check` for its read and its judgement, which are an await apart. No
code calls it yet; it is modelled as a process of its own, like capsulectl.

### CapsuleManager

One capsule (the manager's dictionaries are keyed by capsule). Variables follow the attributes:
`inst` and `srv` for the two dictionaries, `queue` for the `asyncio.Lock` (holder first, then FIFO),
`cont`, `listen`, `conns`, `ctx` per instance, and `task` with the local variables of each coroutine,
of the calls and of the main task. `Teardown` is the synchronous head of `_teardown_instance`, run by
whoever calls it (`Rebuild`, `InvokeFails`, `Eof`); `TearStop` is the removal in its thread. A free
lock is taken without an await, so `Healthy` and `Mount` go straight into the call (`EnterNow`) and
only a waiter has a step of its own (`Enter`). The two passes that `start_unix_server` takes are
`Boot` and `Mount`. `backend.invoke` has three waits: for the connection ("open", at most 5 s), for the container to
have read the request ("drain", no limit; a request that fits into the buffers does not wait there) and for the answer
("answer", the invocation timeout). `Send`, `Drained` and `InvokeReturns` lead through them; `InvokeFails` is the failure
of any of them, by a time limit where there is one, and not while a running container holds the drain (`Stuck`), from where only
the end of the connection leads out (`Reset`). An answer may be read after its container is gone. A call that waits for
the lock keeps the instance it came with, also when the failing holder has it removed meanwhile; it then executes on a removed
container and fails. When `start_unix_server` cannot bind the socket, the instance is registered without a broker (`BootUnmounted`).
Constants switch on what a deployment may or may not have: `WaitsForConns` (Python
3.12.1 and later), `DockerFails`, `HostKills`, `QuietExit`.

### BrokerServer

EXTENDS LeaseGateway and composes with it: a slot is a connection, `call[r]` is the `broker.call` on it,
and the gateway request of the call is `req[r]`. `Receive` is policy and context check together with
`Begin`; `LeaseStep` is any step of the gateway; then `Granted` or `NotGranted`, the credential, the
provider, the answer, whose error codes are not told apart. `Written` is the write of the answer, which a container that
does not read may hold. The manager appears as `BeginCall` and `EndCall`, in any order the lock allows. The runtime's own
`lease.request` method (main.py:23-41) works on the same gateway; the plugin never calls it and it is no step here,
since its caller names capsule, instance and session at will. `LeaseGateway` is about arbitrary scopes and covers it.

### CallSpec, RpcChannel

Both ends of stdin and stdout. `call` has each call of either side as its caller sees it (an entry of `pending`, or of
`_pending`, is a call that is "open"), `fut` the future behind an open call of the runtime, `work` the handler at the
other end, `parent` the handler a call back was made from, which waits for it. `toRt` and `toHost` are the pipes. The
runtime's coroutine wakes up some time after its future is set (`RtResumes`); the host's promise settles at once. `Eof` is the
end of input, `ExitEvent` the event that `start` and `dispose` listen to, `HostTimeout` and `RtTimeout` the timers.
`CallSpec` is the promise to any caller: a call is carried out at most once, ends once, and is answered only by its
own completion; it may fail at any time, whether or not it is carried out.

### ToolCall

The time limits that five files set independently, counted in units of 15 s, the smallest of them. `inv` is the tool
call with the time it has left, `op` the broker call on each connection with its stage, its time left and the
patience of the SDK's client, `lease` the time left of each container's newest lease, `newest` whose lease the block
checks see. `Elapse` is one unit of time and is held up by whatever is due. The broker keeps working for a
container that is gone (`ContainerGoes` takes the clients, not the stages). The SDK's own time limit has no
action, because `ClientOutwaitsBroker` says that it is never reached.

The modules `MC...` give the constants; the `.cfg` files choose bounds and properties. Definitions whose
comment starts with "Slip" are faulty variants of the definition after them; they are used by nothing,
and serve to confirm that each property notices such a fault.

## 3. The runs

Passing runs.

| Run | Instance | Shows |
|---|---|---|
| LeaseRace | 2 requests, 3 holders of one target (two sessions on one instance, a second instance of one session) and a second action, 3 approvals, clock 0..2, slots symmetric | `OneShotApproval`, `NoGrantAfterRevoke`, `ExpiredIsPast`, `GrantIsLive`, `CheckedRowNotOverlapped`, `ExclusiveUnlessUnseen`, `RevokedBlocksIssue` under all interleavings, and `Implements`: all of it is a behaviour of `LeaseSpec` |
| LeaseSerial | 1 request, 4 holders, a malformed target, ttls out of range, one action per target, one validation at a time, clock 0..2 | `ExclusiveHolder`, `NoNeedlessPrompt`: the block checks work when nothing races and all leases of a target are for one action; `ValidIsActive`: `validate`, which never asks for EXPIRED, passes no such lease |
| CapsuleCalls | 2 calls, 2 containers, every failure of Docker, kill, end of input at any time, containers that do not read, answer or let go of a connection, fair loop | `ContextOwned`, `TrackedNotRemoved`; `StraysExplained`: a container is lost in three ways only; `EveryCallEnds`: every call ends unless a container holds the drain or a connection to a closing broker for ever |
| BrokerCalls | 2 connections of one container, 2 sessions, fair loop | `Warranted`; `EveryCallAnswered`: every call comes to its answer. The run has one instance; that leases of different instances and capsules do not mix rests on the theorem `WarrantedHolds` |
| RpcCalls | 2 calls each way, crash, dispose, end of the host, fair loops | `ImplementsCalls`: `RpcChannel` implements `CallSpec`; `DisposedIsQuiet`; `CallsServed`: calls and calls back never wait for each other |
| ToolTimes | the code's limits in units of 15 s: SDK 24, approval 20, credential 2, provider 1; tool calls of 2 and 25; ttl 4; 2 connections (symmetric), 2 containers | `ClientOutwaitsBroker`; `OrphanBounded` and `LockoutBounded`, for how long an operation outlives its call and a lease its container |

Runs that end in a violation. Each checks one statement of the repository and finds a behaviour of the
code against it; `PROJECT.json` quotes the statement.

| Run | What happens |
|---|---|
| OverlapByRace | two sessions pass the block checks before either is approved, and both get a lease |
| UseAfterRevoke | the lease is revoked while the credential is fetched, and used |
| LeakByDoubleStart | two first calls start a container each; one is overwritten in the dictionary and never removed |
| ForeignContext | instance and server are read at two moments; a call's context ends up at another container's broker |
| CallHangs | a container connects and does not read: the call stays in `writer.drain()` and the next one behind the lock, against the invocation timeout |
| DisposeHangs | the runtime exits by itself; a later `dispose` waits for an exit event that has been, and never returns |

Further behaviours of the code that the models contain and no run singles out:

- a revoked lease that is not the newest of its target does not block: the session is issued a new one
  (gateway.py:24; test_lease_gateway.py:77 tells only of the newest);
- a call that waited for the lock is sent to the instance it came with, also when that was removed meanwhile;
- a failed call tears down whatever instance is current, which may be the healthy successor of its own (manager.py:58,
  against README.md:336);
- `validate` writes EXPIRED over a revocation made since its read, as the lookup does (service.py:38);
- a tool that raises, also because the broker refused it something, costs its container (docker_backend.py:107), and
  the lease stays with the dead instance: the session's next instance is refused until the lease is over, after an approval that
  came late up to an approval and a ttl after the removal (`LockoutBounded`);
- an approved operation may be executed up to 345 s after its container was removed (`OrphanBounded`; no smaller
  multiple of 15 s holds);
- an answer that cannot be encoded leaves the host waiting for its timer, and so does a call made after the runtime
  has exited (rpc.py:85, rpc-client.ts:99); `CallsServed` excepts these two;
- when broker.sock cannot be bound, the call fails but the instance stays registered and serves later calls with no
  broker, or with that of an instance before (manager.py:72-75);
- the newest row of a target may be revoked and hide an older live lease of another session, so two sessions
  overlap without any race (gateway.py:24-30; with `OverlapByRace`, the only two ways by `ExclusiveUnlessUnseen`); and a newer lease for another action hides a live one for the
  action asked, so the host is asked again (db.py:70), which is why `LeaseSerial` has one action per target;
- a late `update_status(..., "EXPIRED")` overwrites a revocation made meanwhile (service.py:24); `ExpiredIsPast` and
  `RevokedBlocksIssue` bound the damage to leases whose time is over;
- containers also leak when the input ends while one starts (`QuietExit` FALSE), when `containers.run` or a removal
  fails halfway (`DockerFails`), and whenever the host disposes of the runtime, since SIGTERM ends Python
  without `shutdown` (`HostKills`): `StraysExplained` allows for these and for the second start, and for nothing else;
- an answer that is not UTF-8 or not an object escapes `except RuntimeError` in `invoke`, and the instance stays
  (`InvokeReturns` covers it); manager.py:42 says that protocol errors always destroy it;
- `BrokerServer.stop` closes the listener only (server.py:42 says that it disconnects); since Python 3.12.1
  its `wait_closed` waits for the container's connection (`TearWait`, `WaitsForConns`), so a container that hangs with one open
  keeps its call from ending. This and the drain of `CallHangs` are the two exceptions that `EveryCallEnds` makes (`Released`);
- the answer to a `broker.call` is drained without a limit, too (server.py:111), but only that connection waits for it;
- a second credentials entry for the same provider is never read (policy.py:12).

Bounds and why they suffice. `MaxAsks` bounds the rows: an overlap, a hidden row, a revocation and a
re-issue each need two or three. `Begin` keeps an approval in reserve for every request in progress, so a
request is never stuck at the bound. `MaxTime` lets a lease of ttl 1 lapse while one of ttl 2 lives on, before and
during a request; expiry plays no part in the broker's own steps, and the broker runs need little of it. Two slots are
enough for every race above, since each is between one request and one other actor; three holders allow both
mismatches. `MaxStarts` allows a container and its rebuilt successor; a call that
would create one more fails instead, as Docker may fail. Connections are followed only where `stop` waits for them.
In `LeaseSerial` a clock of 0..2 is enough for a lease of ttl 1 or 2 to end before a request, between its lookup and its judgement, and
between the two steps of a validation. Two calls each way in `RpcCalls` give a call back within a call, a second call
that could take the first one's answer, and a call during a dispose; ids are never reused, so more calls only repeat these. In
`ToolTimes` all limits but the ttl are the code's (a manifest's ttl is 600 s by default, 4 units stand for any: a longer
one only shifts `LockoutBounded` with it); all are multiples of 15 s, and events happen at whole units, so no order of
expiries is lost that a bound in whole units could tell. The bounds of `OrphanBounded` and `LockoutBounded` concern one
removed container at a time; a second connection and a second container are there so that one approval can answer for another.

Fairness. `FairSpec` and `BFairSpec` oblige the event loop only: each coroutine that can run does. Time limits
(`wait_for` around the approval, the credential, the provider, the connection to `plugin.sock` and the answer read from it;
the deadline of `start`) are part of it, since their failure step is enabled where the code has a limit. Where it has none,
nothing is fair: not the drain of a request (docker_backend.py:90), the drain of a broker's answer (server.py:111), or the wait
for a connection to a closing broker. Nothing obliges the
host to decide or to send a credential, the clock to advance in the model, capsulectl to act, or a
container to get ready, read, answer, crash or close a connection: `CapsuleManager` keeps those steps apart as
`Respond`, and only `Serve` is fair; of the broker only `Handle` is. The host is trusted to read its pipe, to which requests
are flushed without a limit (rpc.py:88). In `RpcChannel`, `FairSpec` obliges the two read loops, the wake-up of a coroutine
whose future is set, the exit event, and a process that was sent SIGTERM and then SIGKILL, or has read the end of its
input, to end. Timers are not fair, because the claim is that calls end before any fires; that handlers end is a
premise of `CallsServed` (`HandlersEnd`), since users and containers take the time they take.

No run switches deadlock checking off: an idle runtime can always restart (leases), pass time (`ToolCall`) or has ended (`Ended`).

## 4. The proofs

Each component has a module of theorems beside it. Every invariant, action property and refinement that a passing run
checks is proved, but for the two of `LeaseSerial` that hold only of serial requests; what a theorem assumes beyond the
assumptions of the modules is said below. TLC checked every inductive
invariant on the instance of a run before it was proved.

| Module | Invariant | Theorems on properties of the runs |
|---|---|---|
| LeaseGatewayProofs | `IInv` | `TypeCorrect`, `OneShotApprovalHolds`, `ExpiredIsPastHolds`, `NoGrantAfterRevokeHolds` |
| LeaseGrantProofs | `GInv` | `GrantIsLiveHolds`, `CheckedRowHolds`, `ExclusiveUnlessUnseenHolds`, `RevokedBlocksIssueHolds` |
| LeaseRefinementProofs | `RInv` | `Implementation`: `Spec => Implements` |
| LeaseValidateProofs | `VInv` | `ValidIsActiveHolds` |
| BrokerServerProofs | `BInv` | `BrokerTypeCorrect`, `WarrantedHolds` |
| CapsuleManagerProofs | `MInv` | `TypesHold`, `ContextOwnedHolds`, `TrackedNotRemovedHolds`, `StraysExplainedHolds` |
| ToolCallProofs | `TInv`, `PatienceInv` | `TimesTypeCorrect`, `OrphanBoundedHolds`, `LockoutBoundedHolds`; `ClientOutwaitsWhenCovered` |
| RpcChannelProofs | `RpcInv` | `RpcTypeCorrect`, `DisposedIsQuietHolds`, `ChannelKeepsPromise`: `Spec => ImplementsCalls` |

### The gateway

The theorems hold for any set of slots and scopes, any ttl, and any length of run, from the
two assumptions in `LeaseGateway` (the bounds are natural numbers; a scope is a record of the six fields
with an integer ttl and `NoScope` is not one).

`OneShotApproval`, `ExpiredIsPast` and `NoGrantAfterRevoke` are not inductive: they speak of rows, while what a step
writes depends on what its slot read earlier. `IInv` therefore adds, per slot, `SeenInv` (a row that was read is still
there, has the key or target it was read for, a status it was read with is one it has had, and a slot about to mark a
lease as expired has one that is over), `AskInv` (a slot that waits for an approval has an ask of its
own scope that no row and no other slot uses) and `HistInv` (what was revoked when the request began
will never be ACTIVE again). The lemma `Grows` carries most of it: no step drops a row, changes a
column other than the status, makes a row ACTIVE again, or turns time back. On it rest `Untouched` (what
a slot remembers survives the steps of all others) and `StaysBacked` (so do the approvals of the rows);
`RunSeen`, `AskAsks`, `AskDecides` and `AskIssues` treat the steps of the slot itself.

`GInv` adds to `IInv` per slot: a request past its first check has a valid ttl
(needed because the fresh lease must have time left); `JudgedInv` (the row the block checks saw is, from the question
to the host until its answer, not ACTIVE, over, or of the same holder); and `BlockerInv` (the revoked lease that was
newest when the request began is not ACTIVE, and a request that got past it did so on a newer row or after its time).
`BlockReads` and `AskJudges` are the two steps where these facts arise, `GrantUntouched` carries them
through the steps of all others, and `GrantSteps` shows that only `Reuse` and `Issue` grant. `ExclusiveUnlessUnseen` is what
is left of "one holder per target" when requests race and actions differ: `HolderKept` shows that no step but an issue can give a
target a second holder, `HolderMet` that the new row then meets a live one of another holder, and `JudgedInv` that this
is not the row that was checked.

`Implementation` needs of the gateway only `IInv` and that a free slot has no scope left (`RInv`). `InProgress`,
`LooksTheSame` and `LooksGiven` say what a caller sees of a slot before and after a step, and one lemma per kind of step
maps it: lookups, checks and refusals to a stutter, `MarkExpired` to the end of a lease, `Ask` to the request for consent,
`Issue` to the issue of a lease and its grant at once, `Reuse` to a grant of a lease issued earlier.

`validate` runs beside the gateway. `VInv` adds to `IInv` that a validation about to write EXPIRED has a row that is over
(`CheckInv`), and `MarkKeeps` shows that this write keeps `IInv` whatever the requests were about to do; `ValidateHarmless`
is the consequence for the gateway, `ValidIsActiveHolds` for the validation.

### The broker

Assumptions: a manifest's credentials are a list with integer ttls, `NoSession` is no session, and `Scopes` has every scope
that a container may ask for and its manifest declares (`ScopesCover`), so the constants of the two modules fit together. `BrokerUsesGateway`
(`BSpec => Spec`) shows that the broker takes no step that the gateway does not, so all theorems above hold behind it.
`Warranted` relates four records that different steps write: `LinkInv` ties the call on a connection to the request
in its slot, stage by stage; `HeldInv` keeps the lease that was granted within the scope that asked; `CapsuleInv` says that
leases are issued to an instance under the name of its own capsule only. `FirstIsEntry` shows, by the well-foundedness
of positions, that the entry the policy reads is one that the manifest declares for the provider.

### The manager

`MInv` holds for any number of calls and containers, whatever Docker, the container and the host do, and in both modes of
`WaitsForConns`. `ContextOwned` needs the lock: `QueueInv` says that the queue holds exactly the calls that execute or wait,
each once, the one that executes first; `EndInv`, that only threads go on after the process ended. `TrackedNotRemoved` needs `TrackInv`: an
instance is created once, its removal starts after it was forgotten, and two removals or boots never concern the same one.

`StraysExplained` follows from the same invariant, one lemma per way a step can touch a container: a takedown drops the instance
from the dictionary only into the hands of the task that removes it (`PopKeeps`, `TeardownKeeps`), that task loses it only with the
container gone or by a failing removal (`TearStrays`), and of the steps of a call (`CallStrays`) only the two failures of a start, and the
registration over another instance, leave one to nobody. Containers may crash, hang, refuse health checks or answer nonsense,
calls overlap, and the process may end at any step.

### The times

All limits, the number of connections and of containers are arbitrary natural numbers. `TInv` bounds, for each broker call, the time its
container has been gone plus what its present wait may still take by what all waits up to this one may take (`Spent`), and for each
container the time it has been gone plus the rest of its lease by an approval and a ttl. `ClientOutwaitsBroker` holds for any limits with
`ClientCovers`: approval, credential and provider together below the client's. The code has 300 + 30 + 15 < 360 s (approval.py:4,
rpc.py:23 for the credential, server.py:12, and the SDK's broker.py:10). `PatienceInv` says that the client has as much more patience than the broker's wait
may take as the waits to come.

### The channel

`RpcInv` holds for any sets of calls, made apart by their prefixes. `PipeOK` says what a pipe may hold: asks of one side, each at
most once and before its work began, and answers of that side to calls of the other whose work has ended; `WorkInv`, that work is for a call
that was made and a result for work that ended; `DisposeInv`, that a dispose is of a process that was started, and that it is over only
after the exit event, with no call of the host open. That an ask is in the pipe once is what makes a second undertaking of a call impossible.
`ChannelKeepsPromise` maps the steps: `Settled` and `Worked` give what a step leaves alone, the lemmas `Looks...` the action of `CallSpec` it is.

### What is only model-checked

Liveness, which is out of the prover's reach: `EveryCallEnds`, `EveryCallAnswered`, `CallsServed`. `ExclusiveHolder` and
`NoNeedlessPrompt`, which hold when requests come one at a time and a target has one action, as in `LeaseSerial`; the code enforces
neither, so the theorem is the unconditional `ExclusiveUnlessUnseen`. The runs that expect a violation have no theorem: a counterexample is one.

## 5. Not modelled

Failures of SQLite (a locked database makes a request fail with no row written); the wait for the store to
close, between `shutdown` and the cancellation of the calls; the contents of arguments, answers and
payloads, and their size limits beyond "the answer is an error"; discovery of manifests; what `system.ping` and
`system.call_host` return. The GitHub provider takes the repository from the payload and does not compare it with the resource that
the lease is for (github.py:18); both are data here, and no doc of the repository says that they agree. Of the pipe:
a spawn that fails, the moment between the death of the runtime and its exit event in which a write is an EPIPE, lines that are no
JSON, the thread pool that reads, flushes and Docker calls share, and a second start of one `PythonRuntime`, which
the plugin never makes (ids of the runtime would then start again at "py-1"). A cancelled removal leaves the IPC directory,
which is no state of the models.

## 6. Plan

Done: `LeaseGateway`, `LeaseSpec` and its refinement, `LeaseValidate`, `CapsuleManager`, `BrokerServer`, `CallSpec` and
`RpcChannel`, `ToolCall`; for each of them, its invariants and action properties, and both refinements, as theorems.

Next:

1. what holds of the broker with the whole manager around it, where now `BeginCall` and `EndCall` stand for it;
2. `StraysExplained` without its second way, and `NoForeignContext`, for a manager that holds the lock around
   `_ensure_instance` as well;
3. `ExclusiveHolder` for a gateway that repeats the block checks, on all rows of the target, after the approval.
