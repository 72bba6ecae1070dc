---------------------------- MODULE CapsuleManager ----------------------------
(***************************************************************************)
(* The life of one capsule's containers: CapsuleManager.invoke,            *)
(* _ensure_instance, _teardown_instance and shutdown (capsule/manager.py)  *)
(* over what DockerBackend (capsule/docker_backend.py) and BrokerServer    *)
(* (broker/server.py) do for them, with the containers themselves as       *)
(* environment: they crash, hang, and connect to their broker.sock.        *)
(*                                                                         *)
(* The manager's dictionaries are keyed by capsule, so capsules do not     *)
(* meet and one is enough.  An instance is numbered in the order of        *)
(* creation and its BrokerServer carries its number.  A tool call is a     *)
(* coroutine: one action runs from one await to the next.  A call stands   *)
(* for its own session id, so a context says which call it came from.      *)
(***************************************************************************)
EXTENDS Naturals, Sequences, FiniteSets

CONSTANTS
    Calls,          \* slots for capsule.invoke calls in progress
    Main,           \* the main task, which runs shutdown
    NoCall,         \* no call context
    MaxStarts,      \* bound on the containers created
    WaitsForConns,  \* Server.wait_closed waits for open connections (3.12.1)
    DockerFails,    \* the Docker API may fail halfway a create or a remove
    HostKills,      \* the host disposes of the runtime with SIGTERM
    QuietExit       \* the host closes stdin only when no call is in progress

ASSUME ConstAssumption ==
    /\ MaxStarts \in Nat
    /\ {WaitsForConns, DockerFails, HostKills, QuietExit} \subseteq BOOLEAN
    /\ Main \notin Calls /\ NoCall \notin Calls

VARIABLES
    inst,       \* self._instances.get(capsule), 0 for None
    srv,        \* self._broker_servers.get(capsule), 0 for None
    queue,      \* the capsule's asyncio.Lock: the holder, then the waiters
    cont,       \* the containers
    listen,     \* the listener of each instance's BrokerServer
    conns,      \* whether the container has a connection to its broker open
    ctx,        \* the call context of each BrokerServer
    starts,     \* containers created so far
    task,       \* the coroutines: calls and the main task
    up          \* the runtime process is running

vars == <<inst, srv, queue, cont, listen, conns, ctx, starts, task, up>>
brokers == <<listen, conns, ctx>>

Instances == 1..MaxStarts
Some      == Instances \cup {0}
Tasks     == Calls \cup {Main}

\* start: in _create_container, tear-wait: in server.stop, tear-stop: in
\* backend.stop, lock: waiting for the lock, failed: teardown over
\* backend.invoke: open: connecting, drain: the container has yet to read the
\* request, answer: in readline
Serving == {"open", "drain", "answer"}
Phases == Serving \cup
          {"idle", "health", "healthy", "sick", "start", "booting", "mounting",
           "lock", "tear-wait", "tear-stop", "failed", "exit"}

TaskType == [pc : Phases,
             inst : Some,        \* local variable instance
             srv : Some,         \* local variable server
             victim : Some,      \* what _teardown_instance stops
             then : {"start", "failed", "exit"}]  \* where it returns to
Idle == [pc |-> "idle", inst |-> 0, srv |-> 0, victim |-> 0, then |-> "start"]

Init ==
    /\ inst = 0 /\ srv = 0
    /\ queue = <<>>
    /\ cont = [i \in Instances |-> "none"]
    /\ listen = [i \in Instances |-> "no"]
    /\ conns = [i \in Instances |-> FALSE]
    /\ ctx = [i \in Instances |-> NoCall]
    /\ starts = 0
    /\ task = [t \in Tasks |-> Idle]
    /\ up = TRUE

At(t, pc) == up /\ task[t].pc = pc
Executing(t) == up /\ task[t].pc \in Serving
Becomes(t, x) == task' = [task EXCEPT ![t] = x]
Goto(t, pc) == Becomes(t, [task[t] EXCEPT !.pc = pc])

-----------------------------------------------------------------------------
(* _teardown_instance, called with the task record it goes on from *)

\* Slip: the instance is forgotten only once it is stopped.
PopLater(t, x) ==
    /\ inst' = inst
    /\ Becomes(t, [x EXCEPT !.pc = IF inst # 0 THEN "tear-stop" ELSE x.then,
                            !.victim = inst])

\* Slip: the container is left to end by itself.
PopForgets(t, x) ==
    /\ inst' = 0
    /\ Becomes(t, [x EXCEPT !.pc = x.then, !.victim = inst])

\* self._instances.pop, and on to backend.stop when there was one
PopInstance(t, x) ==
    /\ inst' = 0
    /\ Becomes(t, [x EXCEPT !.pc = IF inst # 0 THEN "tear-stop" ELSE x.then,
                            !.victim = inst])

\* server.stop closes the listener, and returns at once unless it waits for an
\* open connection.  Whatever instance is current is taken down.
Teardown(t, x) ==
    /\ srv' = 0
    /\ listen' = IF srv = 0 THEN listen ELSE [listen EXCEPT ![srv] = "closed"]
    /\ IF srv # 0 /\ WaitsForConns /\ conns[srv]
       THEN /\ Becomes(t, [x EXCEPT !.pc = "tear-wait", !.victim = srv])
            /\ UNCHANGED inst
       ELSE PopInstance(t, x)

TearWait(t) ==
    /\ At(t, "tear-wait")
    /\ ~conns[task[t].victim]
    /\ PopInstance(t, task[t])
    /\ UNCHANGED <<srv, queue, cont, listen, conns, ctx, starts, up>>

Remove(i) == /\ cont' = [cont EXCEPT ![i] = "removed"]
             /\ conns' = [conns EXCEPT ![i] = FALSE]

\* remove(force=True) in a thread, which runs to its end even when the process
\* is exiting and nobody waits for it any more
TearStop(t) ==
    /\ task[t].pc = "tear-stop"
    /\ Remove(task[t].victim)
    /\ Becomes(t, IF up THEN [task[t] EXCEPT !.pc = task[t].then, !.victim = 0]
                  ELSE Idle)
    /\ UNCHANGED <<inst, srv, queue, listen, ctx, starts, up>>

\* The removal fails: the exception leaves _ensure_instance, invoke or shutdown.
TearError(t) ==
    /\ DockerFails /\ task[t].pc = "tear-stop"
    /\ Becomes(t, IF up /\ task[t].then # "start"
                  THEN [task[t] EXCEPT !.pc = task[t].then, !.victim = 0]
                  ELSE Idle)
    /\ UNCHANGED <<inst, srv, queue, cont, brokers, starts, up>>

-----------------------------------------------------------------------------
(* invoke *)

\* The end of _ensure_instance, with the instance it returns and the server
\* registered at that moment.  A free lock is taken at once.
EnterNow(c, i, s) ==
    /\ queue' = <<c>>
    /\ ctx' = IF s = 0 THEN ctx ELSE [ctx EXCEPT ![s] = c]
    /\ Becomes(c, [Idle EXCEPT !.pc = "open", !.inst = i, !.srv = s])
Ensured(c, i, s) ==
    \/ queue = <<>> /\ EnterNow(c, i, s)
    \/ /\ queue # <<>>
       /\ queue' = Append(queue, c)
       /\ Becomes(c, [Idle EXCEPT !.pc = "lock", !.inst = i, !.srv = s])
       /\ UNCHANGED ctx

\* No instance: the creation starts at once, in a thread.
Arrive(c) ==
    /\ At(c, "idle") /\ At(Main, "idle")
    /\ Becomes(c, IF inst = 0 THEN [Idle EXCEPT !.pc = "start"]
                  ELSE [Idle EXCEPT !.pc = "health", !.inst = inst])
    /\ UNCHANGED <<inst, srv, queue, cont, brokers, starts, up>>

\* The answer of docker; an error of its API counts as unhealthy.  It takes the
\* thread longer than the one pass of the loop that a mounting takes.
HealthRead(c) ==
    /\ At(c, "health")
    /\ \A t \in Tasks : ~At(t, "mounting")
    /\ \/ cont[task[c].inst] = "running" /\ Goto(c, "healthy")
       \/ Goto(c, "sick")
    /\ UNCHANGED <<inst, srv, queue, cont, brokers, starts, up>>

\* Slip: _ensure_instance returns what is registered after the health check.
HealthyCurrent(c) ==
    /\ At(c, "healthy")
    /\ Ensured(c, inst, srv)
    /\ UNCHANGED <<inst, srv, cont, listen, conns, starts, up>>

Healthy(c) ==
    /\ At(c, "healthy")
    /\ Ensured(c, task[c].inst, srv)
    /\ UNCHANGED <<inst, srv, cont, listen, conns, starts, up>>

Rebuild(c) ==
    /\ At(c, "sick")
    /\ Teardown(c, Idle)
    /\ UNCHANGED <<queue, cont, conns, ctx, starts, up>>

\* containers.run, in a thread: it too runs to its end in an exiting process
Create(c) ==
    /\ task[c].pc = "start"
    /\ starts < MaxStarts
    /\ starts' = starts + 1
    /\ cont' = [cont EXCEPT ![starts + 1] = "running"]
    /\ Becomes(c, IF up THEN [Idle EXCEPT !.pc = "booting", !.inst = starts + 1]
                  ELSE Idle)
    /\ UNCHANGED <<inst, srv, queue, brokers, up>>

\* It fails, before or after the container exists; container_id is unset in
\* both cases and stop removes nothing.
CreateError(c) ==
    /\ task[c].pc = "start"
    /\ \/ UNCHANGED <<cont, starts>>
       \/ /\ DockerFails /\ starts < MaxStarts
          /\ starts' = starts + 1
          /\ cont' = [cont EXCEPT ![starts + 1] = "dead"]
    /\ Becomes(c, Idle)
    /\ UNCHANGED <<inst, srv, queue, brokers, up>>

\* plugin.sock did not appear in time
BootError(c) ==
    /\ At(c, "booting")
    /\ \/ Remove(task[c].inst)
       \/ DockerFails /\ UNCHANGED <<cont, conns>>
    /\ Becomes(c, Idle)
    /\ UNCHANGED <<inst, srv, queue, listen, ctx, starts, up>>

\* plugin.sock is there: the instance is registered and its broker listens, but
\* start_unix_server yields to the loop once before the server is registered.
Boot(c) ==
    /\ At(c, "booting")
    /\ inst' = task[c].inst
    /\ listen' = [listen EXCEPT ![task[c].inst] = "open"]
    /\ Goto(c, "mounting")
    /\ UNCHANGED <<srv, queue, cont, conns, ctx, starts, up>>

\* broker.sock cannot be bound: the instance stays registered, without a broker,
\* and serves later calls as it is.
BootUnmounted(c) ==
    /\ At(c, "booting")
    /\ inst' = task[c].inst
    /\ Becomes(c, Idle)
    /\ UNCHANGED <<srv, queue, cont, brokers, starts, up>>

Mount(c) ==
    /\ At(c, "mounting")
    /\ srv' = task[c].inst
    /\ Ensured(c, task[c].inst, task[c].inst)
    /\ UNCHANGED <<inst, cont, listen, conns, starts, up>>

\* A waiter gets the lock, in the order of arrival: begin_call.
Enter(c) ==
    /\ At(c, "lock")
    /\ Head(queue) = c
    /\ ctx' = IF task[c].srv = 0 THEN ctx ELSE [ctx EXCEPT ![task[c].srv] = c]
    /\ Goto(c, "open")
    /\ UNCHANGED <<inst, srv, queue, cont, listen, conns, starts, up>>

\* Slip: end_call only after a result, not in a finally.
LeaveReturned(c) ==
    /\ ctx' = IF task[c].srv = 0 \/ At(c, "failed") THEN ctx
              ELSE [ctx EXCEPT ![task[c].srv] = NoCall]
    /\ queue' = Tail(queue)
    /\ Becomes(c, Idle)

\* the finally clause, the release of the lock, and the end of the call
Leave(c) ==
    /\ ctx' = IF task[c].srv = 0 THEN ctx ELSE [ctx EXCEPT ![task[c].srv] = NoCall]
    /\ queue' = Tail(queue)
    /\ Becomes(c, Idle)

\* The container takes the connection.  A request that fits into the buffers
\* is sent at once; for more, drain waits until the container has read.
Send(c) ==
    /\ At(c, "open") /\ cont[task[c].inst] = "running"
    /\ \E pc \in {"answer", "drain"} : Goto(c, pc)
    /\ UNCHANGED <<inst, srv, queue, cont, brokers, starts, up>>

Drained(c) ==
    /\ At(c, "drain") /\ cont[task[c].inst] = "running"
    /\ Goto(c, "answer")
    /\ UNCHANGED <<inst, srv, queue, cont, brokers, starts, up>>

\* The answer, which may have been in the buffer before the container went; or
\* an exception that is no RuntimeError, for one that is not UTF-8 or not a JSON
\* object: only the finally clause sees it.
InvokeReturns(c) ==
    /\ At(c, "answer")
    /\ Leave(c)
    /\ UNCHANGED <<inst, srv, cont, listen, conns, starts, up>>

\* open_unix_connection and readline have a time limit, drain has none: there
\* only the end of the connection makes the call fail.
Stuck(c) == At(c, "drain") /\ cont[task[c].inst] = "running"

\* Slip: readline without a time limit; only a container that is gone fails it.
InvokeFailsGone(c) ==
    /\ Executing(c) /\ cont[task[c].inst] # "running"
    /\ Teardown(c, [task[c] EXCEPT !.then = "failed"])
    /\ UNCHANGED <<queue, cont, conns, ctx, starts, up>>

\* A RuntimeError of backend.invoke: no connection, or a broken one, no answer
\* in time, a bad or an oversized answer, or an error of the tool.
InvokeFails(c) ==
    /\ Executing(c) /\ ~Stuck(c)
    /\ Teardown(c, [task[c] EXCEPT !.then = "failed"])
    /\ UNCHANGED <<queue, cont, conns, ctx, starts, up>>

\* The container closes a connection without having read it.
Reset(c) ==
    /\ Stuck(c)
    /\ Teardown(c, [task[c] EXCEPT !.then = "failed"])
    /\ UNCHANGED <<queue, cont, conns, ctx, starts, up>>

Failed(c) ==
    /\ At(c, "failed")
    /\ Leave(c)
    /\ UNCHANGED <<inst, srv, cont, listen, conns, starts, up>>

-----------------------------------------------------------------------------
(* The end of the process *)

\* stdin closes: shutdown goes through the registered instances, of which one
\* capsule has one.  An error of its removal ends shutdown, and leaves the
\* containers of the capsules after it, which are not modelled here, to nobody.
Eof ==
    /\ At(Main, "idle")
    /\ QuietExit => \A c \in Calls : At(c, "idle")
    /\ IF inst = 0
       THEN Goto(Main, "exit") /\ UNCHANGED <<inst, srv, listen>>
       ELSE Teardown(Main, [Idle EXCEPT !.then = "exit"])
    /\ UNCHANGED <<queue, cont, conns, ctx, starts, up>>

\* What the threads of the process asked of docker is still carried out.
ProcessEnds ==
    /\ up' = FALSE
    /\ task' = [t \in Tasks |->
                   IF task[t].pc \in {"start", "tear-stop"}
                   THEN [Idle EXCEPT !.pc = task[t].pc, !.victim = task[t].victim]
                   ELSE Idle]
    /\ queue' = <<>>
    /\ inst' = 0 /\ srv' = 0
    /\ listen' = [i \in Instances |-> IF listen[i] = "open" THEN "closed" ELSE listen[i]]
    /\ conns' = [i \in Instances |-> FALSE]
    /\ ctx' = [i \in Instances |-> NoCall]
    /\ UNCHANGED <<cont, starts>>

\* The locks are cleared, and the loop cancels every call, whose finally
\* clauses run.  The short wait for the store to close is not modelled.
Exit == At(Main, "exit") /\ ProcessEnds

\* PythonRuntime.dispose: the runtime has no handler for SIGTERM.
Kill == HostKills /\ up /\ ProcessEnds

Over == ~up /\ \A t \in Tasks : task[t].pc = "idle"
Ended == Over /\ UNCHANGED vars

-----------------------------------------------------------------------------
(* The containers *)

Crash(i) ==
    /\ cont[i] = "running"
    /\ cont' = [cont EXCEPT ![i] = "dead"]
    /\ conns' = [conns EXCEPT ![i] = FALSE]
    /\ UNCHANGED <<inst, srv, queue, listen, ctx, starts, task, up>>

\* Followed only where a connection makes a difference to the manager.
Connect(i) ==
    /\ WaitsForConns
    /\ cont[i] = "running" /\ listen[i] = "open" /\ ~conns[i]
    /\ conns' = [conns EXCEPT ![i] = TRUE]
    /\ UNCHANGED <<inst, srv, queue, cont, listen, ctx, starts, task, up>>

Disconnect(i) ==
    /\ conns[i]
    /\ conns' = [conns EXCEPT ![i] = FALSE]
    /\ UNCHANGED <<inst, srv, queue, cont, listen, ctx, starts, task, up>>

\* What the event loop, its threads and its time limits do for a call that has
\* begun, and what takes a container that gets ready, reads or answers.
Serve(c) ==
    \/ HealthRead(c) \/ Healthy(c) \/ Rebuild(c)
    \/ Create(c) \/ CreateError(c) \/ BootError(c) \/ Mount(c)
    \/ Enter(c) \/ InvokeFails(c) \/ Failed(c)
Respond(c) ==
    \/ Boot(c) \/ BootUnmounted(c) \/ Send(c) \/ Drained(c)
    \/ InvokeReturns(c) \/ Reset(c)
Tear(t) == TearWait(t) \/ TearStop(t) \/ TearError(t)

Next ==
    \/ \E c \in Calls : Arrive(c) \/ Serve(c) \/ Respond(c)
    \/ \E t \in Tasks : Tear(t)
    \/ Eof \/ Exit \/ Kill \/ Ended
    \/ \E i \in Instances : Crash(i) \/ Connect(i) \/ Disconnect(i)

Spec == Init /\ [][Next]_vars

\* The event loop serves every task; the time limits of start, of the connection
\* and of the answer make their errors part of that.  Nothing obliges a container
\* to get ready, to read, to answer or to close a connection.
FairSpec == /\ Spec
            /\ \A c \in Calls : WF_vars(Serve(c))
            /\ \A t \in Tasks : WF_vars(Tear(t))
            /\ WF_vars(Exit)

-----------------------------------------------------------------------------
(* Properties *)

\* Types of the variables; a task never waits for an instance it does not have.
TypeOK ==
    /\ inst \in Some /\ srv \in Some
    /\ queue \in Seq(Calls)
    /\ cont \in [Instances -> {"none", "running", "dead", "removed"}]
    /\ listen \in [Instances -> {"no", "open", "closed"}]
    /\ conns \in [Instances -> BOOLEAN]
    /\ ctx \in [Instances -> Calls \cup {NoCall}]
    /\ starts \in Some
    /\ task \in [Tasks -> TaskType]
    /\ up \in BOOLEAN
    /\ \A t \in Tasks :
          /\ task[t].pc \in Serving \cup {"health", "booting", "lock"} => task[t].inst # 0
          /\ task[t].pc \in {"tear-wait", "tear-stop"} => task[t].victim # 0

\* Executing between begin_call and end_call
InCall(c) == \/ task[c].pc \in Serving
             \/ /\ task[c].pc \in {"tear-wait", "tear-stop", "failed"}
                /\ task[c].then = "failed"

\* A context never outlives its call and two calls never execute at once: the
\* server has the context of a call only while that call holds the lock and
\* executes with that server (manager.py:42 "同实例调用串行化保证 Broker 上下文可信",
\* server.py:35), through every failure, takedown and rebuild.
ContextOwned ==
    /\ \A i \in Instances : LET c == ctx[i] IN
          c # NoCall => InCall(c) /\ task[c].srv = i /\ Head(queue) = c
    /\ \A c, d \in Calls : up /\ InCall(c) /\ InCall(d) => c = d

\* The registered instance is never one that the manager removed itself: what a
\* failing call destroys is out of the dictionary before it goes
\* (manager.py:83-85), so a later call, and shutdown, find another or none.
\* A call that waits for the lock meanwhile keeps the instance it has got.
TrackedNotRemoved == inst # 0 => cont[inst] # "removed"

\* A container that exists is registered, booting, or about to be removed ...
Exists(i) == cont[i] \in {"running", "dead"}
Held(t, i) == \/ task[t].pc = "booting" /\ task[t].inst = i
              \/ task[t].pc = "tear-stop" /\ task[t].victim = i
Stray(i) == Exists(i) /\ i # inst /\ \A t \in Tasks : ~Held(t, i)

\* ... and the manager loses one in three ways only: the process ends, docker
\* fails to create or to remove it, or another first call registers its own
\* instance over it (manager.py:72).  No failure of a call, no rebuild and no
\* shutdown drops a container on the way (manager.py:78-90).
StraysExplained ==
    [][\A i \in Instances : Stray(i)' /\ ~Stray(i) =>
          \/ ~up'
          \/ inst = i /\ inst' \notin {0, i}
          \/ \E c \in Calls : CreateError(c) \/ BootError(c)
          \/ \E t \in Tasks : TearError(t)]_vars

\* shutdown reclaims every container (manager.py:87): once the process is over
\* and its threads are done, no container of the capsule is left.
NoLeak == Over => \A i \in Instances : cont[i] \in {"none", "removed"}

\* While a call executes on one container, no other container's broker has its
\* context, so nothing but the tool called can ask for anything in its session
\* (manager.py:42 "同实例调用串行化保证 Broker 上下文可信", server.py:31).
NoForeignContext ==
    \A c \in Calls, i \in Instances :
        Executing(c) /\ ctx[i] = c => i = task[c].inst

\* Two waits are as long as a container wants: for it to read a request that
\* fills the buffers (docker_backend.py:90), and, where server.stop waits for
\* connections, for it to close one (server.py:45).
Released == /\ \A c \in Calls : []<>(task[c].pc # "drain")
            /\ \A t \in Tasks : []<>(task[t].pc # "tear-wait")

\* As long as neither of them lasts for ever, every call ends, with a result or
\* an error: no lock, no takedown and no silent tool holds it up.
Ends(c) == (task[c].pc # "idle") ~> (task[c].pc = "idle")
EveryCallEnds == Released => \A c \in Calls : Ends(c)

\* The invocation timeout ends every call (README:335 "无限循环 | 由 Invocation
\* Timeout 终止"), so that the next one is served too.
TimeoutEndsCalls == \A c \in Calls : Ends(c)
=============================================================================
