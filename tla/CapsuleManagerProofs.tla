-------------------------- MODULE CapsuleManagerProofs --------------------------
(* Theorems about CapsuleManager for any number of calls and of containers: *)
(* a call context never outlives its call, what is registered has not been  *)
(* removed, and the ways in which the manager loses a container are known.  *)
EXTENDS CapsuleManager, TLAPS

-----------------------------------------------------------------------------
(* The inductive invariant *)

\* A call holds or awaits the lock.
InQueue(c) == task[c].pc = "lock" \/ InCall(c)

\* A task has the instance it asks docker about, and is failing once it failed.
PhaseInv ==
    \A t \in Tasks :
        /\ task[t].pc \in {"healthy", "mounting"} => task[t].inst # 0
        /\ task[t].pc = "failed" => task[t].then = "failed"

\* After the end of the process only its threads go on.
EndInv ==
    ~up => /\ queue = <<>> /\ inst = 0
           /\ \A i \in Instances : ctx[i] = NoCall
           /\ \A t \in Tasks : task[t].pc \in {"idle", "start", "tear-stop"}

\* The lock holds every call that executes or waits for it, each once, and the
\* one that executes is its holder.
QueueInv ==
    /\ \A j, k \in 1..Len(queue) : queue[j] = queue[k] => j = k
    /\ up => \A c \in Calls :
                /\ InQueue(c) <=> \E k \in 1..Len(queue) : queue[k] = c
                /\ InCall(c) => queue # <<>> /\ Head(queue) = c

\* What is removed is never the tracked instance, nor one that is booting and
\* will be tracked: each was created once, and forgotten before its removal.
TrackInv ==
    /\ inst <= starts
    /\ TrackedNotRemoved
    /\ \A t \in Tasks : task[t].pc = "booting" =>
          /\ task[t].inst <= starts /\ task[t].inst # inst
          /\ cont[task[t].inst] # "removed"
          /\ \A u \in Tasks :
                /\ task[u].pc = "tear-stop" => task[u].victim # task[t].inst
                /\ task[u].pc = "booting" /\ u # t => task[u].inst # task[t].inst
    /\ \A t \in Tasks : task[t].pc = "tear-stop" =>
          task[t].victim <= starts /\ task[t].victim # inst

MInv == TypeOK /\ PhaseInv /\ EndInv /\ QueueInv /\ ContextOwned /\ TrackInv

-----------------------------------------------------------------------------
(* Types *)

\* What TypeOK and PhaseInv ask of one task.
TaskOK(x) ==
    /\ x \in TaskType
    /\ x.pc \in Serving \cup {"health", "healthy", "booting", "mounting", "lock"} =>
          x.inst # 0
    /\ x.pc \in {"tear-wait", "tear-stop"} => x.victim # 0
    /\ x.pc = "failed" => x.then = "failed"

\* TypeOK and PhaseInv, with the tasks one by one.
TypeInv ==
    /\ inst \in Some /\ srv \in Some
    /\ queue \in Seq(Calls)
    /\ cont \in [Instances -> {"none", "running", "dead", "removed"}]
    /\ listen \in [Instances -> {"no", "open", "closed"}]
    /\ conns \in [Instances -> BOOLEAN]
    /\ ctx \in [Instances -> Calls \cup {NoCall}]
    /\ starts \in Some
    /\ up \in BOOLEAN
    /\ task = [t \in Tasks |-> task[t]]
    /\ \A t \in Tasks : TaskOK(task[t])

LEMMA TypeInvIsTypes == TypeInv <=> TypeOK /\ PhaseInv
BY DEF TypeInv, TypeOK, PhaseInv, TaskOK, Serving

\* Records that are in order: a task that is done, one that moves on with the
\* instance it has, and one that removes an instance or has done so.
LEMMA IdleOK == TaskOK(Idle)
BY DEF TaskOK, TaskType, Phases, Serving, Idle, Some

LEMMA PcOK ==
    ASSUME NEW x, TaskOK(x), NEW pc \in Phases \ {"tear-wait", "tear-stop", "failed"},
           x.inst # 0 \/ pc = "exit"
    PROVE  TaskOK([x EXCEPT !.pc = pc])
<1>1. x \in TaskType
  BY DEF TaskOK
<1>2. [x EXCEPT !.pc = pc] \in TaskType
  BY <1>1 DEF TaskType
<1>3. [x EXCEPT !.pc = pc].pc = pc /\ [x EXCEPT !.pc = pc].inst = x.inst
  BY <1>1 DEF TaskType
<1> QED
  BY <1>2, <1>3 DEF TaskOK, Serving

LEMMA ThenOK ==
    ASSUME NEW x, TaskOK(x), NEW v \in Some
    PROVE  /\ TaskOK([x EXCEPT !.pc = x.then, !.victim = 0])
           /\ TaskOK([x EXCEPT !.pc = IF v # 0 THEN "tear-stop" ELSE x.then, !.victim = v])
<1>1. x \in TaskType /\ x.then \in Phases /\ x.then \in {"start", "failed", "exit"}
  BY DEF TaskOK, TaskType, Phases
<1> DEFINE done == [x EXCEPT !.pc = x.then, !.victim = 0]
           stop == [x EXCEPT !.pc = IF v # 0 THEN "tear-stop" ELSE x.then, !.victim = v]
<1>2. /\ done \in TaskType /\ done.pc = x.then /\ done.then = x.then
  BY <1>1 DEF TaskType, Some
<1>3. /\ stop \in TaskType /\ stop.then = x.then /\ stop.victim = v
      /\ stop.pc = IF v # 0 THEN "tear-stop" ELSE x.then
  BY <1>1 DEF TaskType, Phases
<1> HIDE DEF done, stop
<1>4. TaskOK(done)
  BY <1>1, <1>2 DEF TaskOK, Serving
<1>5. TaskOK(stop)
  BY <1>1, <1>3 DEF TaskOK, Serving
<1> QED
  BY <1>4, <1>5 DEF done, stop

\* A task moves to a record that is in order: the tasks stay in order.
LEMMA TaskMoves ==
    ASSUME TypeInv, NEW t \in Tasks, NEW x, TaskOK(x), Becomes(t, x)
    PROVE  task' = [u \in Tasks |-> task'[u]] /\ \A u \in Tasks : TaskOK(task[u])'
<1>1. task' = [task EXCEPT ![t] = x] /\ task = [u \in Tasks |-> task[u]]
  BY DEF TypeInv, Becomes
<1>2. \A u \in Tasks : task'[u] = IF u = t THEN x ELSE task[u]
  BY <1>1
<1>3. task' = [u \in Tasks |-> task'[u]]
  BY <1>1
<1>4. \A u \in Tasks : TaskOK(task'[u])
  BY <1>2 DEF TypeInv
<1> QED
  BY <1>3, <1>4 DEF TaskOK

\* _teardown_instance: the caller goes on waiting, removing, or where it said.
LEMMA TeardownTypes ==
    ASSUME TypeInv, NEW t \in Tasks, NEW x \in TaskType, Teardown(t, x)
    PROVE  /\ inst' \in Some /\ srv' = 0
           /\ listen' \in [Instances -> {"no", "open", "closed"}]
           /\ task' = [u \in Tasks |-> task'[u]]
           /\ \A u \in Tasks : TaskOK(task[u])'
<1>1. /\ inst \in Some /\ srv \in Some
      /\ listen \in [Instances -> {"no", "open", "closed"}]
  BY DEF TypeInv
<1>2. srv' = 0 /\ listen' \in [Instances -> {"no", "open", "closed"}]
  BY <1>1 DEF Teardown
<1>3. inst' \in Some
  BY <1>1 DEF Teardown, PopInstance, Some
<1>4. PICK y : TaskOK(y) /\ Becomes(t, y)
  <2>1. CASE srv # 0 /\ WaitsForConns /\ conns[srv]
    <3>1. TaskOK([x EXCEPT !.pc = "tear-wait", !.victim = srv])
      BY <1>1, <2>1 DEF TaskOK, TaskType, Phases, Serving
    <3> QED
      BY <2>1, <3>1 DEF Teardown
  <2>2. CASE ~(srv # 0 /\ WaitsForConns /\ conns[srv])
    <3>1. TaskOK([x EXCEPT !.pc = IF inst # 0 THEN "tear-stop" ELSE x.then,
                           !.victim = inst])
      BY <1>1 DEF TaskOK, TaskType, Phases, Serving
    <3> QED
      BY <2>2, <3>1 DEF Teardown, PopInstance
  <2> QED
    BY <2>1, <2>2
<1> QED
  BY <1>2, <1>3, <1>4, TaskMoves

\* The end of _ensure_instance: the call has the lock, or waits for it.
LEMMA EnsuredTypes ==
    ASSUME TypeInv, NEW c \in Calls, NEW i \in Some, i # 0, NEW s \in Some,
           Ensured(c, i, s)
    PROVE  /\ queue' \in Seq(Calls)
           /\ ctx' \in [Instances -> Calls \cup {NoCall}]
           /\ task' = [u \in Tasks |-> task'[u]]
           /\ \A u \in Tasks : TaskOK(task[u])'
<1>1. c \in Tasks /\ queue \in Seq(Calls)
      /\ ctx \in [Instances -> Calls \cup {NoCall}]
  BY DEF TypeInv, Tasks
<1>2. /\ TaskOK([Idle EXCEPT !.pc = "open", !.inst = i, !.srv = s])
      /\ TaskOK([Idle EXCEPT !.pc = "lock", !.inst = i, !.srv = s])
  BY DEF TaskOK, TaskType, Phases, Serving, Idle, Some
<1>3. PICK y : TaskOK(y) /\ Becomes(c, y)
  BY <1>2 DEF Ensured, EnterNow
<1>4. queue' = <<c>> \/ queue' = Append(queue, c)
  BY DEF Ensured, EnterNow
<1>5. queue' \in Seq(Calls)
  <2>1. <<c>> \in Seq(Calls) /\ Append(queue, c) \in Seq(Calls)
    BY <1>1
  <2> QED
    BY <1>4, <2>1
<1>6. ctx' \in [Instances -> Calls \cup {NoCall}]
  <2>1. ctx' = ctx \/ ctx' = [ctx EXCEPT ![s] = c]
    BY DEF Ensured, EnterNow
  <2> QED
    BY <1>1, <2>1
<1> QED
  BY <1>1, <1>3, <1>5, <1>6, TaskMoves

\* The finally clause of invoke.
LEMMA LeaveTypes ==
    ASSUME TypeInv, NEW c \in Calls, queue # <<>>, Leave(c)
    PROVE  /\ queue' \in Seq(Calls)
           /\ ctx' \in [Instances -> Calls \cup {NoCall}]
           /\ task' = [u \in Tasks |-> task'[u]]
           /\ \A u \in Tasks : TaskOK(task[u])'
<1>1. /\ c \in Tasks /\ queue \in Seq(Calls)
      /\ ctx \in [Instances -> Calls \cup {NoCall}]
  BY DEF TypeInv, Tasks
<1>2. TaskOK(Idle)
  BY DEF TaskOK, TaskType, Phases, Serving, Idle, Some
<1>3. queue' \in Seq(Calls)
  BY <1>1 DEF Leave
<1>4. ctx' \in [Instances -> Calls \cup {NoCall}]
  BY <1>1 DEF Leave
<1> QED
  BY <1>1, <1>2, <1>3, <1>4, TaskMoves DEF Leave

\* The end of the process.
LEMMA EndTypes ==
    ASSUME TypeInv, ProcessEnds
    PROVE  TypeInv'
<1>1. /\ TaskOK(Idle)
      /\ \A t \in Tasks : task[t].pc \in {"start", "tear-stop"} =>
            TaskOK([Idle EXCEPT !.pc = task[t].pc, !.victim = task[t].victim])
  BY DEF TypeInv, TaskOK, TaskType, Phases, Serving, Idle, Some
<1>2. \A t \in Tasks : TaskOK(task[t])'
  BY <1>1 DEF TypeInv, ProcessEnds, TaskOK
<1>3. task' = [t \in Tasks |-> task'[t]]
  BY DEF ProcessEnds
<1>4. queue' \in Seq(Calls) /\ up' \in BOOLEAN
  <2>1. <<>> \in Seq(Calls)
    OBVIOUS
  <2> QED
    BY <2>1 DEF ProcessEnds
<1>5. listen' \in [Instances -> {"no", "open", "closed"}]
  BY DEF TypeInv, ProcessEnds
<1>6. /\ inst' \in Some /\ srv' \in Some
      /\ conns' \in [Instances -> BOOLEAN]
      /\ ctx' \in [Instances -> Calls \cup {NoCall}]
      /\ UNCHANGED <<cont, starts>>
  BY DEF ProcessEnds, Some
<1> QED
  BY <1>2, <1>3, <1>4, <1>5, <1>6 DEF TypeInv

\* Every step keeps the types.
LEMMA TypeStep ==
    ASSUME TypeInv, QueueInv, [Next]_vars
    PROVE  TypeInv'
<1> USE DEF TypeInv
<1>0. \A c \in Calls : c \in Tasks
  BY DEF Tasks
<1>1. ASSUME NEW c \in Calls, Arrive(c)  PROVE TypeInv'
  <2>1. TaskOK(IF inst = 0 THEN [Idle EXCEPT !.pc = "start"]
              ELSE [Idle EXCEPT !.pc = "health", !.inst = inst])
    BY <1>0, <1>1 DEF TaskOK, TaskType, Phases, Serving, Arrive, At, Idle, Some
  <2> QED
    BY <1>0, <1>1, <2>1, TaskMoves DEF Arrive, Goto, Some, Instances, brokers
<1>2. ASSUME NEW c \in Calls, HealthRead(c)  PROVE TypeInv'
  <2>0. TaskOK(task[c]) /\ task[c].inst # 0
    BY <1>0, <1>2 DEF TaskOK, HealthRead, At
  <2>1. TaskOK([task[c] EXCEPT !.pc = "healthy"]) /\ TaskOK([task[c] EXCEPT !.pc = "sick"])
    BY <2>0, PcOK DEF Phases
  <2> QED
    BY <1>0, <1>2, <2>1, TaskMoves DEF HealthRead, Goto, brokers
<1>3. ASSUME NEW c \in Calls, Healthy(c)  PROVE TypeInv'
  BY <1>0, <1>3, EnsuredTypes DEF Healthy, TaskOK, TaskType, At
<1>4. ASSUME NEW c \in Calls, Rebuild(c)  PROVE TypeInv'
  <2>1. Idle \in TaskType
    BY DEF Idle, TaskType, Phases, Serving, Some
  <2> QED
    BY <1>0, <1>4, <2>1, TeardownTypes DEF Rebuild, Some
<1>5. ASSUME NEW c \in Calls, Create(c)  PROVE TypeInv'
  <2>1. starts + 1 \in Instances /\ starts + 1 # 0
    BY <1>5, ConstAssumption DEF Create, Some, Instances
  <2>2. /\ TaskOK([Idle EXCEPT !.pc = "booting", !.inst = starts + 1])
        /\ TaskOK(Idle)
    BY <2>1 DEF TaskOK, TaskType, Phases, Serving, Idle, Some
  <2>3. starts' \in Some /\ cont' \in [Instances -> {"none", "running", "dead", "removed"}]
    BY <1>5, <2>1 DEF Create, Some
  <2> QED
    BY <1>0, <1>5, <2>2, <2>3, TaskMoves DEF Create, brokers
<1>6. ASSUME NEW c \in Calls, CreateError(c)  PROVE TypeInv'
  <2>1. TaskOK(Idle)
    BY IdleOK
  <2>2. /\ starts' \in Some
        /\ cont' \in [Instances -> {"none", "running", "dead", "removed"}]
    <3>1. CASE UNCHANGED <<cont, starts>>
      BY <3>1
    <3>2. CASE /\ starts < MaxStarts /\ starts' = starts + 1
               /\ cont' = [cont EXCEPT ![starts + 1] = "dead"]
      <4>1. starts + 1 \in Instances
        BY <3>2, ConstAssumption DEF Some, Instances
      <4> QED
        BY <3>2, <4>1 DEF Some
    <3> QED
      BY <1>6, <3>1, <3>2 DEF CreateError
  <2> QED
    BY <1>0, <1>6, <2>1, <2>2, TaskMoves DEF CreateError, brokers
<1>7. ASSUME NEW c \in Calls, BootError(c)  PROVE TypeInv'
  <2>1. TaskOK(Idle)
    BY IdleOK
  <2> QED
    BY <1>0, <1>7, <2>1, TaskMoves DEF BootError, Goto, Some, Instances, brokers, Remove
<1>8. ASSUME NEW c \in Calls, Boot(c)  PROVE TypeInv'
  <2>0. TaskOK(task[c]) /\ task[c].inst # 0
    BY <1>0, <1>8 DEF TaskOK, Boot, At
  <2>1. TaskOK([task[c] EXCEPT !.pc = "mounting"])
    BY <2>0, PcOK DEF Phases
  <2> QED
    BY <1>0, <1>8, <2>1, TaskMoves DEF Boot, Goto, At, TaskOK, TaskType, Some, Instances, brokers
<1>9. ASSUME NEW c \in Calls, BootUnmounted(c)  PROVE TypeInv'
  <2>1. TaskOK(Idle)
    BY IdleOK
  <2> QED
    BY <1>0, <1>9, <2>1, TaskMoves DEF BootUnmounted, Goto, At, TaskOK, TaskType, Some, Instances, brokers
<1>10. ASSUME NEW c \in Calls, Mount(c)  PROVE TypeInv'
  BY <1>0, <1>10, EnsuredTypes DEF Mount, TaskOK, TaskType, At
<1>11. ASSUME NEW c \in Calls, Enter(c)  PROVE TypeInv'
  <2>0. TaskOK(task[c]) /\ task[c].inst # 0
    BY <1>0, <1>11 DEF TaskOK, Enter, At
  <2>1. TaskOK([task[c] EXCEPT !.pc = "open"])
    BY <2>0, PcOK DEF Phases, Serving
  <2> QED
    BY <1>0, <1>11, <2>1, TaskMoves DEF Enter, Goto, At, TaskOK, TaskType, Some, Instances, brokers
<1>12. ASSUME NEW c \in Calls, InvokeReturns(c)  PROVE TypeInv'
  <2>1. queue # <<>>
    BY <1>0, <1>12 DEF QueueInv, InCall, InvokeReturns, At, Serving
  <2> QED
    BY <1>12, <2>1, LeaveTypes DEF InvokeReturns
<1>13. ASSUME NEW c \in Calls, InvokeFails(c) \/ Reset(c)  PROVE TypeInv'
  <2>1. [task[c] EXCEPT !.then = "failed"] \in TaskType
    BY <1>0, <1>13 DEF TaskOK, TaskType
  <2> QED
    BY <1>0, <1>13, <2>1, TeardownTypes DEF InvokeFails, Reset, Some
<1>14. ASSUME NEW c \in Calls, Failed(c)  PROVE TypeInv'
  <2>1. queue # <<>>
    BY <1>0, <1>14 DEF QueueInv, InCall, Failed, At, TaskOK
  <2> QED
    BY <1>14, <2>1, LeaveTypes DEF Failed
<1>15. ASSUME NEW c \in Calls, Send(c) \/ Drained(c)  PROVE TypeInv'
  <2>1. PICK pc \in {"answer", "drain"} : Goto(c, pc)
    BY <1>15 DEF Send, Drained
  <2>0. TaskOK(task[c]) /\ task[c].inst # 0
    BY <1>0, <1>15 DEF TaskOK, Serving, Send, Drained, At
  <2>2. TaskOK([task[c] EXCEPT !.pc = pc])
    BY <2>0, PcOK DEF Phases, Serving
  <2> QED
    BY <1>0, <1>15, <2>1, <2>2, TaskMoves DEF Send, Drained, Goto, brokers
<1>17. ASSUME NEW t \in Tasks, TearWait(t)  PROVE TypeInv'
  <2>1. TaskOK([task[t] EXCEPT !.pc = IF inst # 0 THEN "tear-stop" ELSE task[t].then,
                              !.victim = inst])
    BY ThenOK
  <2> QED
    BY <1>17, <2>1, TaskMoves DEF TearWait, PopInstance, Some
<1>18. ASSUME NEW t \in Tasks, TearStop(t)  PROVE TypeInv'
  <2>1. /\ TaskOK(Idle)
        /\ TaskOK([task[t] EXCEPT !.pc = task[t].then, !.victim = 0])
    BY IdleOK, ThenOK DEF Some
  <2> DEFINE x == IF up THEN [task[t] EXCEPT !.pc = task[t].then, !.victim = 0] ELSE Idle
  <2>2. TaskOK(x) /\ Becomes(t, x)
    BY <1>18, <2>1 DEF TearStop
  <2> HIDE DEF x
  <2> QED
    BY <1>0, <1>18, <2>2, TaskMoves DEF TearStop, Some, Instances, Remove
<1>19. ASSUME NEW t \in Tasks, TearError(t)  PROVE TypeInv'
  <2>1. /\ TaskOK(Idle)
        /\ TaskOK([task[t] EXCEPT !.pc = task[t].then, !.victim = 0])
    BY IdleOK, ThenOK DEF Some
  <2> QED
    BY <1>19, <2>1, TaskMoves DEF TearError, brokers
<1>20. ASSUME Eof  PROVE TypeInv'
  <2>1. Main \in Tasks
    BY DEF Tasks
  <2>2. CASE inst = 0
    <3>1. TaskOK([task[Main] EXCEPT !.pc = "exit"])
      BY <2>1, PcOK DEF Phases
    <3> QED
      BY <1>20, <2>1, <2>2, <3>1, TaskMoves DEF Eof, Goto
  <2>3. CASE inst # 0
    <3>1. [Idle EXCEPT !.then = "exit"] \in TaskType
      BY DEF Idle, TaskType, Phases, Serving, Some
    <3> QED
      BY <1>20, <2>1, <2>3, <3>1, TeardownTypes DEF Eof, Some
  <2> QED
    BY <2>2, <2>3
<1>21. ASSUME Exit  PROVE TypeInv'
  BY <1>21, EndTypes DEF Exit
<1>22. ASSUME Kill  PROVE TypeInv'
  BY <1>22, EndTypes DEF Kill
<1>23. ASSUME NEW i \in Instances, Crash(i)  PROVE TypeInv'
  BY <1>23 DEF Crash, TaskOK
<1>24. ASSUME NEW i \in Instances, Connect(i)  PROVE TypeInv'
  BY <1>24 DEF Connect, TaskOK
<1>25. ASSUME NEW i \in Instances, Disconnect(i)  PROVE TypeInv'
  BY <1>25 DEF Disconnect, TaskOK
<1>26. ASSUME UNCHANGED vars  PROVE TypeInv'
  BY <1>26 DEF vars, TaskOK
<1> QED
  BY <1>1, <1>2, <1>3, <1>4, <1>5, <1>6, <1>7, <1>8, <1>9, <1>10, <1>11,
     <1>12, <1>13, <1>14, <1>15, <1>17, <1>18, <1>19, <1>20, <1>21,
     <1>22, <1>23, <1>24, <1>25, <1>26 DEF Next, Serve, Respond, Tear, Ended

-----------------------------------------------------------------------------
(* The lock and the context *)

\* Of the record of a call: it executes, or it is on the lock's queue.
Calling(x) == \/ x.pc \in Serving
              \/ /\ x.pc \in {"tear-wait", "tear-stop", "failed"}
                 /\ x.then = "failed"
Locking(x) == x.pc = "lock" \/ Calling(x)

LockInv == EndInv /\ QueueInv /\ ContextOwned

\* A step that moves one task between phases that are equal for the lock, and
\* touches neither queue nor contexts, keeps LockInv.
LEMMA LockKept ==
    ASSUME TypeInv, LockInv, NEW t \in Tasks, NEW x, Becomes(t, x),
           UNCHANGED <<queue, ctx>>, up, up',
           t \in Calls => /\ Locking(x) <=> Locking(task[t])
                          /\ Calling(x) <=> Calling(task[t])
                          /\ Calling(x) => x.srv = task[t].srv
    PROVE  LockInv'
<1>1. \A u \in Tasks : task'[u] = IF u = t THEN x ELSE task[u]
  BY DEF Becomes, TypeInv
<1>2. \A c \in Calls : c \in Tasks
  BY DEF Tasks
<1>3. \A c \in Calls : /\ InCall(c)' <=> InCall(c)
                       /\ InQueue(c)' <=> InQueue(c)
                       /\ InCall(c) => task'[c].srv = task[c].srv
  BY <1>1, <1>2 DEF InCall, InQueue, Locking, Calling
<1>4. \A i \in Instances : ctx[i] # NoCall => ctx[i] \in Calls
  BY DEF TypeInv
<1>5. QueueInv'
  BY <1>3 DEF LockInv, QueueInv
<1>6. ContextOwned'
  BY <1>3, <1>4 DEF LockInv, ContextOwned
<1> QED
  BY <1>5, <1>6 DEF LockInv, EndInv

\* No context while no call executes.
LEMMA NoContext ==
    ASSUME TypeInv, LockInv, \A c \in Calls : ~InCall(c)
    PROVE  \A i \in Instances : ctx[i] = NoCall
<1>1. \A i \in Instances : ctx[i] # NoCall => ctx[i] \in Calls
  BY DEF TypeInv
<1> QED
  BY <1>1 DEF LockInv, ContextOwned

\* A call comes to the lock: it takes it when it is free, or queues up.
LEMMA LockJoined ==
    ASSUME TypeInv, LockInv, NEW c \in Calls, ~InQueue(c), up, up',
           NEW i, NEW s \in Some, Ensured(c, i, s)
    PROVE  LockInv'
<1>1. /\ queue \in Seq(Calls) /\ c \in Tasks
      /\ ctx \in [Instances -> Calls \cup {NoCall}]
  BY DEF TypeInv, Tasks
<1>2. CASE queue = <<>> /\ EnterNow(c, i, s)
  <2>1. \A d \in Calls : ~InQueue(d) /\ ~InCall(d)
    BY <1>2 DEF LockInv, QueueInv, InQueue
  <2>2. \A j \in Instances : ctx[j] = NoCall
    BY <2>1, NoContext
  <2>3. \A d \in Calls : /\ InCall(d)' <=> d = c
                         /\ InQueue(d)' <=> d = c
    BY <1>1, <1>2, <2>1 DEF EnterNow, Becomes, TypeInv, Tasks, InCall, InQueue, Idle, Serving
  <2>4. task'[c].srv = s /\ queue' = <<c>>
    BY <1>1, <1>2 DEF EnterNow, Becomes, TypeInv, Idle
  <2>5. \A j \in Instances : ctx'[j] # NoCall => ctx'[j] = c /\ j = s
    BY <1>1, <1>2, <2>2 DEF EnterNow
  <2>6. QueueInv'
    <3>1. Len(queue') = 1 /\ queue'[1] = c /\ Head(queue') = c /\ queue' # <<>>
      BY <2>4
    <3> QED
      BY <2>3, <3>1 DEF QueueInv
  <2>7. ContextOwned'
    <3>1. Head(queue') = c
      BY <2>4
    <3> QED
      BY <2>3, <2>4, <2>5, <3>1 DEF ContextOwned
  <2> QED
    BY <2>6, <2>7 DEF LockInv, EndInv
<1>3. CASE /\ queue # <<>> /\ queue' = Append(queue, c) /\ UNCHANGED ctx
           /\ Becomes(c, [Idle EXCEPT !.pc = "lock", !.inst = i, !.srv = s])
  <2>1. \A d \in Calls : /\ InCall(d)' <=> InCall(d)
                         /\ InQueue(d)' <=> InQueue(d) \/ d = c
                         /\ InCall(d) => task'[d].srv = task[d].srv
    BY <1>1, <1>3 DEF Becomes, TypeInv, Tasks, InCall, InQueue, Idle, Serving
  <2>2. /\ Len(queue') = Len(queue) + 1 /\ queue'[Len(queue) + 1] = c
        /\ \A k \in 1..Len(queue) : queue'[k] = queue[k]
        /\ Head(queue') = Head(queue) /\ queue' # <<>> /\ Len(queue) \in Nat
    BY <1>1, <1>3
  <2>3. \A k \in 1..Len(queue) : queue[k] # c
    BY DEF LockInv, QueueInv
  <2>4. \A k \in 1..Len(queue') :
           k \in 1..Len(queue) \/ k = Len(queue) + 1
    BY <2>2
  <2>5. QueueInv'
    <3>1. \A j, k \in 1..Len(queue') : queue'[j] = queue'[k] => j = k
      BY <2>2, <2>3, <2>4 DEF LockInv, QueueInv
    <3>2. \A d \in Calls : InQueue(d)' <=> \E k \in 1..Len(queue') : queue'[k] = d
      <4>1. ASSUME NEW d \in Calls, InQueue(d)'
            PROVE  \E k \in 1..Len(queue') : queue'[k] = d
        <5>1. CASE d = c
          BY <2>2, <5>1
        <5>2. CASE d # c
          <6>1. PICK k \in 1..Len(queue) : queue[k] = d
            BY <2>1, <4>1, <5>2 DEF LockInv, QueueInv
          <6> QED
            BY <2>2, <6>1
        <5> QED
          BY <5>1, <5>2
      <4>2. ASSUME NEW d \in Calls, NEW k \in 1..Len(queue'), queue'[k] = d
            PROVE  InQueue(d)'
        BY <2>1, <2>2, <2>4, <4>2 DEF LockInv, QueueInv
      <4> QED
        BY <4>1, <4>2
    <3> QED
      BY <2>1, <2>2, <3>1, <3>2 DEF LockInv, QueueInv
  <2>6. ContextOwned'
    <3>1. \A j \in Instances : ctx[j] # NoCall => ctx[j] \in Calls
      BY <1>1
    <3> QED
      BY <1>3, <2>1, <2>2, <3>1 DEF LockInv, ContextOwned
  <2> QED
    BY <2>5, <2>6 DEF LockInv, EndInv
<1> QED
  BY <1>2, <1>3 DEF Ensured

\* A waiter gets the lock.
LEMMA LockEntered ==
    ASSUME TypeInv, LockInv, NEW c \in Calls, Enter(c)
    PROVE  LockInv'
<1>1. /\ queue \in Seq(Calls) /\ c \in Tasks /\ task[c] \in TaskType
      /\ ctx \in [Instances -> Calls \cup {NoCall}]
  BY DEF TypeInv, Tasks, TaskOK
<1>2. \A d \in Calls : ~InCall(d)
  BY DEF LockInv, QueueInv, Enter, At, InCall, Serving
<1>3. \A j \in Instances : ctx[j] = NoCall
  BY <1>2, NoContext
<1>4. \A d \in Calls : /\ InCall(d)' <=> d = c
                       /\ InQueue(d)' <=> InQueue(d)
  BY <1>1, <1>2 DEF Enter, At, Goto, Becomes, TypeInv, Tasks, TaskType, InCall, InQueue,
                        Serving
<1>5. task'[c].srv = task[c].srv
  BY <1>1 DEF Enter, Goto, Becomes, TypeInv, TaskType
<1>6. \A j \in Instances : ctx'[j] # NoCall => ctx'[j] = c /\ j = task[c].srv
  BY <1>1, <1>3 DEF Enter
<1>7. queue # <<>> /\ Head(queue) = c
  BY <1>1 DEF LockInv, QueueInv, Enter, At, InQueue
<1>8. QueueInv'
  BY <1>4, <1>7 DEF LockInv, QueueInv, Enter
<1>9. ContextOwned'
  BY <1>4, <1>5, <1>6, <1>7 DEF ContextOwned, Enter
<1> QED
  BY <1>8, <1>9 DEF LockInv, EndInv, Enter, At

\* The holder ends its call and releases the lock.
LEMMA LockLeft ==
    ASSUME TypeInv, LockInv, NEW c \in Calls, InCall(c), up, up',
           Leave(c)
    PROVE  LockInv'
<1>1. /\ queue \in Seq(Calls) /\ c \in Tasks /\ task[c] \in TaskType
      /\ ctx \in [Instances -> Calls \cup {NoCall}]
  BY DEF TypeInv, Tasks, TaskOK
<1>2. queue # <<>> /\ Head(queue) = c /\ \A d \in Calls : InCall(d) => d = c
  BY DEF LockInv, QueueInv, ContextOwned
<1>3. \A j \in Instances : ctx'[j] = NoCall
  <2>1. \A j \in Instances : ctx[j] # NoCall => ctx[j] \in Calls
    BY <1>1
  <2>2. \A j \in Instances : ctx[j] # NoCall => j = task[c].srv
    BY <1>2, <2>1 DEF LockInv, ContextOwned
  <2> QED
    BY <1>1, <2>2, ConstAssumption DEF Leave, Instances
<1>4. \A d \in Calls : /\ ~InCall(d)'
                       /\ InQueue(d)' <=> InQueue(d) /\ d # c
  BY <1>1, <1>2 DEF Leave, Becomes, TypeInv, Tasks, Idle, InCall, InQueue, Serving
<1>5. /\ Len(queue) \in Nat /\ Len(queue) # 0 /\ queue[1] = c
      /\ Len(queue') = Len(queue) - 1
      /\ \A k \in 1..Len(queue') : queue'[k] = queue[k + 1]
  BY <1>1, <1>2 DEF Leave
<1>6. QueueInv'
  <2>1. \A j, k \in 1..Len(queue') : queue'[j] = queue'[k] => j = k
    <3> SUFFICES ASSUME NEW j \in 1..Len(queue'), NEW k \in 1..Len(queue'),
                        queue'[j] = queue'[k]
                 PROVE  j = k
      OBVIOUS
    <3>1. j + 1 \in 1..Len(queue) /\ k + 1 \in 1..Len(queue)
      BY <1>5
    <3>2. queue[j + 1] = queue[k + 1]
      BY <1>5
    <3>3. j + 1 = k + 1
      BY <3>1, <3>2 DEF LockInv, QueueInv
    <3> QED
      BY <1>5, <3>3
  <2>2. ASSUME NEW d \in Calls, InQueue(d), d # c
        PROVE  \E k \in 1..Len(queue') : queue'[k] = d
    <3>1. PICK k \in 1..Len(queue) : queue[k] = d
      BY <2>2 DEF LockInv, QueueInv
    <3>2. k - 1 \in 1..Len(queue') /\ k = (k - 1) + 1
      BY <1>5, <2>2, <3>1
    <3> QED
      BY <1>5, <3>1, <3>2
  <2>3. ASSUME NEW d \in Calls, NEW k \in 1..Len(queue'), queue'[k] = d
        PROVE  InQueue(d) /\ d # c
    <3>1. k + 1 \in 1..Len(queue) /\ queue[k + 1] = d /\ 1 \in 1..Len(queue) /\ k + 1 # 1
      BY <1>5, <2>3
    <3> QED
      BY <1>5, <3>1 DEF LockInv, QueueInv
  <2> QED
    BY <1>4, <2>1, <2>2, <2>3 DEF QueueInv
<1>7. ContextOwned'
  BY <1>3, <1>4 DEF ContextOwned
<1> QED
  BY <1>6, <1>7 DEF LockInv, EndInv

\* After the end of the process nothing is locked and no context is set; the
\* threads that are still busy only come to rest.
LEMMA LockOver ==
    ASSUME TypeInv, LockInv, [Next]_vars, ~up'
    PROVE  LockInv'
<1> SUFFICES EndInv'
  <2>1. ASSUME EndInv'  PROVE QueueInv' /\ ContextOwned'
    BY <2>1 DEF EndInv, QueueInv, ContextOwned
  <2> QED
    BY <2>1 DEF LockInv
<1>1. CASE up
  <2>1. ProcessEnds
    BY <1>1 DEF Next, Serve, Respond, Tear, Ended, vars, Arrive, HealthRead, Healthy,
       Rebuild, Create, CreateError, BootError, Boot, BootUnmounted, Mount, Enter,
       Send, Drained, InvokeReturns, InvokeFails, Reset, Stuck, Executing, Failed,
       TearWait, TearStop, TearError, Eof, Exit, Kill, Crash, Connect, Disconnect
  <2> QED
    BY <2>1 DEF ProcessEnds, EndInv, Idle
<1>2. CASE ~up
  <2>1. UNCHANGED <<queue, ctx, inst>>
    BY <1>2 DEF Next, Serve, Respond, Tear, Ended, vars, brokers, Arrive, HealthRead,
       Healthy, Rebuild, Create, CreateError, BootError, Boot, BootUnmounted, Mount,
       Enter, Send, Drained, InvokeReturns, InvokeFails, Reset, Stuck, Executing,
       Failed, TearWait, TearStop, TearError, Eof, Exit, Kill, Crash, Connect, Disconnect, At
  <2>2. task' = task \/ \E t \in Tasks : Becomes(t, Idle)
    BY <1>2 DEF Next, Serve, Respond, Tear, Ended, vars, Arrive, HealthRead,
       Healthy, Rebuild, Create, CreateError, BootError, Boot, BootUnmounted, Mount,
       Enter, Send, Drained, InvokeReturns, InvokeFails, Reset, Stuck, Executing,
       Failed, TearWait, TearStop, TearError, Eof, Exit, Kill, Crash, Connect, Disconnect, At, Tasks
  <2>3. \A t \in Tasks : task'[t] = task[t] \/ task'[t].pc = "idle"
    BY <2>2 DEF TypeInv, Becomes, Idle
  <2> QED
    BY <1>2, <2>1, <2>3 DEF LockInv, EndInv
<1> QED
  BY <1>1, <1>2

\* _teardown_instance leaves the call where it was on the lock, unless it was not.
LEMMA LockTeardown ==
    ASSUME TypeInv, LockInv, NEW t \in Tasks, NEW x \in TaskType, Teardown(t, x),
           up, up', UNCHANGED <<queue, ctx>>,
           t \in Calls => /\ ~Locking(task[t]) => x.then = "start"
                          /\ Locking(task[t]) => /\ Calling(task[t]) /\ x.then = "failed"
                                                /\ x.srv = task[t].srv
    PROVE  LockInv'
<1> DEFINE Waits == [x EXCEPT !.pc = "tear-wait", !.victim = srv]
           Stops == [x EXCEPT !.pc = IF inst # 0 THEN "tear-stop" ELSE x.then,
                              !.victim = inst]
<1>1. Becomes(t, Waits) \/ Becomes(t, Stops)
  BY DEF Teardown, PopInstance
<1>2. ASSUME NEW y \in {Waits, Stops}, t \in Calls
      PROVE  /\ Locking(y) <=> Locking(task[t])
             /\ Calling(y) <=> Calling(task[t])
             /\ Calling(y) => y.srv = task[t].srv
  BY <1>2 DEF Locking, Calling, TaskType, Serving
<1> HIDE DEF Waits, Stops
<1> QED
  BY <1>1, <1>2, LockKept

\* Every step keeps the lock and the contexts in order.
LEMMA LockStep ==
    ASSUME TypeInv, LockInv, [Next]_vars
    PROVE  LockInv'
<1> SUFFICES ASSUME up'  PROVE LockInv'
  BY LockOver
<1>0. /\ \A c \in Calls : c \in Tasks
      /\ \A t \in Tasks : task[t] \in TaskType /\ TaskOK(task[t])
  BY DEF Tasks, TypeInv, TaskOK
<1> USE DEF At, Serving
<1>1. ASSUME NEW c \in Calls, Arrive(c)  PROVE LockInv'
  BY <1>0, <1>1, LockKept DEF Arrive, Goto, Locking, Calling, Idle, TaskType, brokers
<1>2. ASSUME NEW c \in Calls, HealthRead(c)  PROVE LockInv'
  <2>1. PICK pc \in {"healthy", "sick"} : Becomes(c, [task[c] EXCEPT !.pc = pc])
    BY <1>2 DEF HealthRead, Goto
  <2> QED
    BY <1>0, <1>2, <2>1, LockKept DEF HealthRead, Locking, Calling, TaskType, brokers
<1>3. ASSUME NEW c \in Calls, Healthy(c)  PROVE LockInv'
  BY <1>0, <1>3, LockJoined DEF Healthy, TypeInv, InQueue, InCall
<1>4. ASSUME NEW c \in Calls, Rebuild(c)  PROVE LockInv'
  <2>1. Idle \in TaskType /\ Idle.then = "start" /\ Idle.srv = 0
    BY DEF Idle, TaskType, Phases, Some
  <2> QED
    BY <1>0, <1>4, <2>1, LockTeardown DEF Rebuild, Locking, Calling, TaskType
<1>5. ASSUME NEW c \in Calls, Create(c)  PROVE LockInv'
  <2>1. up /\ Becomes(c, [Idle EXCEPT !.pc = "booting", !.inst = starts + 1])
    BY <1>5 DEF Create
  <2> QED
    BY <1>0, <1>5, <2>1, LockKept DEF Create, Locking, Calling, Idle, TaskType, brokers
<1>6. ASSUME NEW c \in Calls, CreateError(c)  PROVE LockInv'
  <2>1. up /\ Becomes(c, Idle)
    BY <1>6 DEF CreateError
  <2> QED
    BY <1>0, <1>6, <2>1, LockKept DEF CreateError, Locking, Calling, Idle, TaskType, brokers
<1>7. ASSUME NEW c \in Calls, BootError(c)  PROVE LockInv'
  BY <1>0, <1>7, LockKept DEF BootError, Goto, Locking, Calling, Idle, TaskType, brokers
<1>8. ASSUME NEW c \in Calls, Boot(c)  PROVE LockInv'
  BY <1>0, <1>8, LockKept DEF Boot, Goto, Locking, Calling, Idle, TaskType, brokers
<1>9. ASSUME NEW c \in Calls, BootUnmounted(c)  PROVE LockInv'
  BY <1>0, <1>9, LockKept DEF BootUnmounted, Goto, Locking, Calling, Idle, TaskType, brokers
<1>10. ASSUME NEW c \in Calls, Mount(c)  PROVE LockInv'
  BY <1>0, <1>10, LockJoined DEF Mount, InQueue, InCall, TaskType
<1>11. ASSUME NEW c \in Calls, Enter(c)  PROVE LockInv'
  BY <1>11, LockEntered
<1>12. ASSUME NEW c \in Calls, InvokeReturns(c)  PROVE LockInv'
  BY <1>12, LockLeft DEF InvokeReturns, InCall
<1>13. ASSUME NEW c \in Calls, InvokeFails(c) \/ Reset(c)  PROVE LockInv'
  BY <1>0, <1>13, LockTeardown DEF InvokeFails, Reset, Stuck, Executing, Locking,
                                   Calling, TaskType
<1>14. ASSUME NEW c \in Calls, Failed(c)  PROVE LockInv'
  BY <1>0, <1>14, LockLeft DEF Failed, InCall, TaskOK
<1>15. ASSUME NEW c \in Calls, Send(c) \/ Drained(c)  PROVE LockInv'
  <2>1. PICK pc \in {"answer", "drain"} : Becomes(c, [task[c] EXCEPT !.pc = pc])
    BY <1>15 DEF Send, Drained, Goto
  <2> QED
    BY <1>0, <1>15, <2>1, LockKept DEF Send, Drained, Locking, Calling, TaskType, brokers
<1>17. ASSUME NEW t \in Tasks, TearWait(t)  PROVE LockInv'
  BY <1>0, <1>17, LockKept DEF TearWait, PopInstance, Locking, Calling, TaskType
<1>18. ASSUME NEW t \in Tasks, TearStop(t)  PROVE LockInv'
  <2>1. up /\ Becomes(t, [task[t] EXCEPT !.pc = task[t].then, !.victim = 0])
    BY <1>18 DEF TearStop
  <2> QED
    BY <1>0, <1>18, <2>1, LockKept DEF TearStop, Locking, Calling, TaskType
<1>19. ASSUME NEW t \in Tasks, TearError(t)  PROVE LockInv'
  <2>1. \/ Becomes(t, Idle) /\ task[t].then = "start"
        \/ Becomes(t, [task[t] EXCEPT !.pc = task[t].then, !.victim = 0])
    BY <1>19 DEF TearError
  <2> QED
    BY <1>0, <1>19, <2>1, LockKept DEF TearError, Idle, Locking, Calling, TaskType, brokers
<1>20. ASSUME Eof  PROVE LockInv'
  <2>1. Main \in Tasks /\ Main \notin Calls
    BY ConstAssumption DEF Tasks
  <2>2. CASE inst = 0
    BY <1>0, <1>20, <2>1, <2>2, LockKept DEF Eof, Goto
  <2>3. CASE inst # 0
    <3>1. [Idle EXCEPT !.then = "exit"] \in TaskType
      BY DEF Idle, TaskType, Phases, Serving, Some
    <3> QED
      BY <1>0, <1>20, <2>1, <2>3, <3>1, LockTeardown DEF Eof
  <2> QED
    BY <2>2, <2>3
<1>21. ASSUME Exit  PROVE LockInv'
  BY <1>21 DEF Exit, ProcessEnds
<1>22. ASSUME Kill  PROVE LockInv'
  BY <1>22 DEF Kill, ProcessEnds
<1>23. ASSUME NEW i \in Instances, Crash(i)  PROVE LockInv'
  BY <1>23 DEF Crash, LockInv, EndInv, QueueInv, ContextOwned, InQueue, InCall
<1>24. ASSUME NEW i \in Instances, Connect(i)  PROVE LockInv'
  BY <1>24 DEF Connect, LockInv, EndInv, QueueInv, ContextOwned, InQueue, InCall
<1>25. ASSUME NEW i \in Instances, Disconnect(i)  PROVE LockInv'
  BY <1>25 DEF Disconnect, LockInv, EndInv, QueueInv, ContextOwned, InQueue, InCall
<1>26. ASSUME UNCHANGED vars  PROVE LockInv'
  BY <1>26 DEF vars, LockInv, EndInv, QueueInv, ContextOwned, InQueue, InCall
<1> QED
  BY <1>1, <1>2, <1>3, <1>4, <1>5, <1>6, <1>7, <1>8, <1>9, <1>10, <1>11,
     <1>12, <1>13, <1>14, <1>15, <1>17, <1>18, <1>19, <1>20, <1>21,
     <1>22, <1>23, <1>24, <1>25, <1>26 DEF Next, Serve, Respond, Tear, Ended

-----------------------------------------------------------------------------
(* The tracked instance *)

\* What a task may remove: what it boots or stops.
Own(t) == CASE task[t].pc = "booting"   -> task[t].inst
            [] task[t].pc = "tear-stop" -> task[t].victim
            [] OTHER -> 0

\* A task goes where it neither boots nor stops anything; on the way it may
\* remove what it was booting or stopping.
LEMMA TrackQuiet ==
    ASSUME TypeInv, TrackInv, NEW t \in Tasks, NEW x, Becomes(t, x),
           x.pc \notin {"booting", "tear-stop"}, UNCHANGED inst,
           starts' \in {starts, starts + 1},
           \A i \in Instances : i <= starts /\ cont'[i] = "removed" =>
              cont[i] = "removed" \/ i = Own(t)
    PROVE  TrackInv'
<1>1. \A u \in Tasks : task'[u] = IF u = t THEN x ELSE task[u]
  BY DEF Becomes, TypeInv
<1>2. \A u \in Tasks : task'[u].pc \in {"booting", "tear-stop"} => u # t
  BY <1>1
<1>3. \A u \in Tasks : /\ task[u].inst \in Some /\ task[u].victim \in Some
                       /\ task[u].pc = "booting" => task[u].inst \in Instances
  BY DEF TypeInv, TaskOK, TaskType, Some
<1>4. inst \in Some /\ starts \in Some /\ Some \subseteq Nat
      /\ (inst # 0 => inst \in Instances)
  BY ConstAssumption DEF TypeInv, Some, Instances
<1>5. \A i \in Instances \cup {0} : i <= starts =>
          /\ i <= starts'
          /\ i # 0 /\ i # Own(t) /\ cont[i] # "removed" => cont'[i] # "removed"
  BY <1>4 DEF Some
<1>6. inst' <= starts' /\ TrackedNotRemoved'
  <2>1. inst # 0 => inst # Own(t)
    BY DEF TrackInv, Own
  <2> QED
    BY <1>4, <1>5, <2>1 DEF TrackInv, TrackedNotRemoved
<1>7. ASSUME NEW u \in Tasks, task'[u].pc = "booting"
      PROVE  /\ task'[u].inst <= starts' /\ task'[u].inst # inst'
             /\ cont'[task'[u].inst] # "removed"
             /\ \A v \in Tasks :
                   /\ task'[v].pc = "tear-stop" => task'[v].victim # task'[u].inst
                   /\ task'[v].pc = "booting" /\ v # u => task'[v].inst # task'[u].inst
  <2>1. task'[u] = task[u] /\ u # t /\ task[u].inst \in Instances /\ task[u].inst # 0
    BY <1>1, <1>2, <1>3, <1>7 DEF Instances
  <2>2. /\ task[u].inst <= starts /\ task[u].inst # inst
        /\ cont[task[u].inst] # "removed"
        /\ \A v \in Tasks :
              /\ task[v].pc = "tear-stop" => task[v].victim # task[u].inst
              /\ task[v].pc = "booting" /\ v # u => task[v].inst # task[u].inst
    BY <1>7, <2>1 DEF TrackInv
  <2>3. task[u].inst # Own(t)
    BY <2>1, <2>2 DEF Own
  <2> QED
    BY <1>1, <1>2, <1>5, <2>1, <2>2, <2>3
<1>8. ASSUME NEW u \in Tasks, task'[u].pc = "tear-stop"
      PROVE  task'[u].victim <= starts' /\ task'[u].victim # inst'
  <2>1. task'[u] = task[u] /\ task[u].victim \in Instances \cup {0}
    BY <1>1, <1>2, <1>3, <1>8 DEF Some
  <2> QED
    BY <1>5, <1>8, <2>1 DEF TrackInv
<1> QED
  BY <1>6, <1>7, <1>8 DEF TrackInv

\* An instance that booted is registered; the one it replaces is forgotten.
LEMMA TrackBooted ==
    ASSUME TypeInv, TrackInv, NEW t \in Tasks, NEW x, Becomes(t, x),
           x.pc \notin {"booting", "tear-stop"},
           task[t].pc = "booting", inst' = task[t].inst, UNCHANGED <<cont, starts>>
    PROVE  TrackInv'
<1>1. \A u \in Tasks : task'[u] = IF u = t THEN x ELSE task[u]
  BY DEF Becomes, TypeInv
<1>2. /\ \A u \in Tasks : task'[u].pc \in {"booting", "tear-stop"} =>
                            u # t /\ task'[u] = task[u]
      /\ \A u \in Tasks : u # t => task'[u] = task[u]
  BY <1>1
<1> QED
  BY <1>2 DEF TrackInv, TrackedNotRemoved

\* _teardown_instance forgets the instance before it goes to remove it.
LEMMA TrackPopped ==
    ASSUME TypeInv, TrackInv, NEW t \in Tasks, NEW x, PopInstance(t, x),
           x \in TaskType, x.then \in {"start", "failed", "exit"},
           UNCHANGED <<cont, starts>>
    PROVE  TrackInv'
<1> DEFINE y == [x EXCEPT !.pc = IF inst # 0 THEN "tear-stop" ELSE x.then,
                          !.victim = inst]
<1>1. \A u \in Tasks : task'[u] = IF u = t THEN y ELSE task[u]
  BY DEF PopInstance, Becomes, TypeInv
<1>2. /\ y.pc = "tear-stop" => inst # 0
      /\ y.victim = inst /\ y.pc # "booting"
  BY DEF TaskType
<1> HIDE DEF y
<1>3. /\ inst \in Some /\ starts \in Some /\ Some \subseteq Nat /\ inst' = 0
      /\ \A u \in Tasks : task[u].pc = "tear-stop" => task[u].victim # 0
  BY ConstAssumption DEF TypeInv, Some, Instances, PopInstance, TaskOK
<1>4. \A u \in Tasks : task[u].pc = "booting" => task[u].inst # 0
  BY DEF TypeInv, TaskOK
<1>5. inst' <= starts' /\ TrackedNotRemoved'
  BY <1>3 DEF TrackedNotRemoved
<1>6. ASSUME NEW u \in Tasks, task'[u].pc = "booting"
      PROVE  /\ task'[u].inst <= starts' /\ task'[u].inst # inst'
             /\ cont'[task'[u].inst] # "removed"
             /\ \A v \in Tasks :
                   /\ task'[v].pc = "tear-stop" => task'[v].victim # task'[u].inst
                   /\ task'[v].pc = "booting" /\ v # u => task'[v].inst # task'[u].inst
  BY <1>1, <1>2, <1>3, <1>4, <1>6 DEF TrackInv
<1>7. ASSUME NEW u \in Tasks, task'[u].pc = "tear-stop"
      PROVE  task'[u].victim <= starts' /\ task'[u].victim # inst'
  BY <1>1, <1>2, <1>3, <1>7 DEF TrackInv
<1> QED
  BY <1>5, <1>6, <1>7 DEF TrackInv

\* A container is created: it is none of those that were there.
LEMMA TrackCreated ==
    ASSUME TypeInv, TrackInv, NEW t \in Tasks, NEW x, Becomes(t, x),
           x.pc = "booting", x.inst = starts + 1, starts < MaxStarts,
           starts' = starts + 1, cont' = [cont EXCEPT ![starts + 1] = "running"],
           UNCHANGED inst
    PROVE  TrackInv'
<1>1. \A u \in Tasks : task'[u] = IF u = t THEN x ELSE task[u]
  BY DEF Becomes, TypeInv
<1>2. /\ inst \in Nat /\ starts \in Nat
      /\ starts + 1 \in Instances /\ (inst # 0 => inst \in Instances)
      /\ \A u \in Tasks : /\ task[u].inst \in Nat /\ task[u].victim \in Nat
                          /\ task[u].pc = "booting" => task[u].inst \in Instances
  BY ConstAssumption DEF TypeInv, Some, Instances, TaskOK, TaskType, Serving
<1>3. /\ inst <= starts
      /\ \A u \in Tasks : /\ task[u].pc = "booting" => task[u].inst <= starts
                          /\ task[u].pc = "tear-stop" => task[u].victim <= starts
  BY DEF TrackInv
<1>4. /\ cont'[starts + 1] = "running"
      /\ \A i \in Instances : i <= starts => cont'[i] = cont[i]
  BY <1>2 DEF TypeInv
<1>5. inst' <= starts' /\ TrackedNotRemoved'
  BY <1>2, <1>3, <1>4 DEF TrackInv, TrackedNotRemoved
<1>6. ASSUME NEW u \in Tasks, task'[u].pc = "booting"
      PROVE  /\ task'[u].inst <= starts' /\ task'[u].inst # inst'
             /\ cont'[task'[u].inst] # "removed"
             /\ \A v \in Tasks :
                   /\ task'[v].pc = "tear-stop" => task'[v].victim # task'[u].inst
                   /\ task'[v].pc = "booting" /\ v # u => task'[v].inst # task'[u].inst
  <2>1. CASE u = t
    <3>1. task'[u].inst = starts + 1 /\ starts' = starts + 1 /\ inst' = inst
      BY <1>1, <2>1
    <3>2. \A v \in Tasks : v # u => task'[v] = task[v]
      BY <1>1, <2>1
    <3>3. \A v \in Tasks : v # u => /\ task[v].pc = "tear-stop" => task[v].victim # starts + 1
                                    /\ task[v].pc = "booting" => task[v].inst # starts + 1
      BY <1>2, <1>3
    <3>4. task'[u].pc # "tear-stop" /\ inst # starts + 1
      BY <1>2, <1>3, <1>6
    <3> QED
      BY <1>2, <1>4, <3>1, <3>2, <3>3, <3>4
  <2>2. CASE u # t
    <3>1. /\ task'[u] = task[u] /\ task[u].inst <= starts /\ task[u].inst # inst
          /\ cont[task[u].inst] # "removed" /\ task[u].inst \in Instances
          /\ task[u].inst \in Nat
      BY <1>1, <1>2, <1>6, <2>2 DEF TrackInv
    <3>2. \A v \in Tasks :
             /\ task[v].pc = "tear-stop" => task[v].victim # task[u].inst
             /\ task[v].pc = "booting" /\ v # u => task[v].inst # task[u].inst
      BY <1>6, <3>1 DEF TrackInv
    <3>3. task[u].inst <= starts + 1 /\ task[u].inst # starts + 1
      BY <1>2, <3>1
    <3> QED
      BY <1>1, <1>4, <3>1, <3>2, <3>3
  <2> QED
    BY <2>1, <2>2
<1>7. ASSUME NEW u \in Tasks, task'[u].pc = "tear-stop"
      PROVE  task'[u].victim <= starts' /\ task'[u].victim # inst'
  <2>1. task'[u] = task[u]
    BY <1>1, <1>7
  <2>2. task[u].victim <= starts /\ task[u].victim # inst /\ task[u].victim \in Nat
    BY <1>2, <1>7, <2>1 DEF TrackInv
  <2>3. task[u].victim <= starts + 1
    BY <1>2, <2>2
  <2> QED
    BY <2>1, <2>2, <2>3
<1> QED
  BY <1>5, <1>6, <1>7 DEF TrackInv

\* _teardown_instance: the server is stopped first, then the instance.
LEMMA TrackTeardown ==
    ASSUME TypeInv, TrackInv, NEW t \in Tasks, NEW x \in TaskType, Teardown(t, x),
           task[t].pc \notin {"booting", "tear-stop"}, UNCHANGED <<cont, starts>>
    PROVE  TrackInv'
<1>1. CASE PopInstance(t, x)
  BY <1>1, TrackPopped DEF TaskType
<1>2. CASE /\ Becomes(t, [x EXCEPT !.pc = "tear-wait", !.victim = srv])
           /\ UNCHANGED inst
  <2>1. [x EXCEPT !.pc = "tear-wait", !.victim = srv].pc = "tear-wait"
    BY DEF TaskType
  <2> QED
    BY <1>2, <2>1, TrackQuiet
<1> QED
  BY <1>1, <1>2 DEF Teardown

\* The end of the process forgets everything; its threads go on.
LEMMA TrackEnds ==
    ASSUME TypeInv, TrackInv, ProcessEnds
    PROVE  TrackInv'
<1>1. /\ inst' = 0 /\ UNCHANGED <<cont, starts>> /\ 0 <= starts
      /\ \A t \in Tasks : task'[t].pc # "booting"
  <2>1. inst' = 0 /\ UNCHANGED <<cont, starts>> /\ 0 <= starts
    <3>1. starts \in Some /\ \A n \in Some : 0 <= n
      BY ConstAssumption DEF TypeInv, Some, Instances
    <3> QED
      BY <3>1 DEF ProcessEnds
  <2>2. \A t \in Tasks : task'[t].pc # "booting"
    BY DEF ProcessEnds, Idle
  <2> QED
    BY <2>1, <2>2
<1>2. \A t \in Tasks : task'[t].pc = "tear-stop" =>
          /\ task[t].pc = "tear-stop" /\ task'[t].victim = task[t].victim
          /\ task[t].victim # 0
  BY DEF ProcessEnds, TypeInv, TaskOK, Idle
<1> QED
  BY <1>1, <1>2 DEF TrackInv, TrackedNotRemoved

\* Whoever has an instance goes for the lock.
LEMMA EnsuredMoves ==
    ASSUME NEW c, NEW i, NEW s, Ensured(c, i, s)
    PROVE  \E x : Becomes(c, x) /\ x.pc \notin {"booting", "tear-stop"}
<1>1. /\ [Idle EXCEPT !.pc = "open", !.inst = i, !.srv = s].pc = "open"
      /\ [Idle EXCEPT !.pc = "lock", !.inst = i, !.srv = s].pc = "lock"
  BY DEF Idle
<1>2. \/ Becomes(c, [Idle EXCEPT !.pc = "open", !.inst = i, !.srv = s])
      \/ Becomes(c, [Idle EXCEPT !.pc = "lock", !.inst = i, !.srv = s])
  BY DEF Ensured, EnterNow
<1> QED
  BY <1>1, <1>2

\* Every step keeps what is tracked apart from what is removed.
LEMMA TrackStep ==
    ASSUME TypeInv, TrackInv, [Next]_vars
    PROVE  TrackInv'
<1>0. /\ \A c \in Calls : c \in Tasks
      /\ \A t \in Tasks : task[t] \in TaskType
  BY DEF Tasks, TypeInv, TaskOK
<1> USE DEF At
<1>1. ASSUME NEW c \in Calls, Arrive(c)  PROVE TrackInv'
  <2> DEFINE x == IF inst = 0 THEN [Idle EXCEPT !.pc = "start"]
                  ELSE [Idle EXCEPT !.pc = "health", !.inst = inst]
  <2>1. Becomes(c, x) /\ x.pc \notin {"booting", "tear-stop"}
    BY <1>1 DEF Arrive, Idle
  <2> QED
    BY <1>0, <1>1, <2>1, TrackQuiet DEF Arrive, brokers
<1>2. ASSUME NEW c \in Calls, HealthRead(c)  PROVE TrackInv'
  <2>1. PICK x : Becomes(c, x) /\ x.pc \notin {"booting", "tear-stop"}
    BY <1>0, <1>2 DEF HealthRead, Goto, Ensured, EnterNow, Idle, TaskType
  <2> QED
    BY <1>0, <1>2, <2>1, TrackQuiet DEF HealthRead, Goto, brokers
<1>3. ASSUME NEW c \in Calls, Healthy(c)  PROVE TrackInv'
  <2>1. PICK x : Becomes(c, x) /\ x.pc \notin {"booting", "tear-stop"}
    BY <1>3, EnsuredMoves DEF Healthy
  <2> QED
    BY <1>0, <1>3, <2>1, TrackQuiet DEF Healthy, Goto, brokers
<1>4. ASSUME NEW c \in Calls, Rebuild(c)  PROVE TrackInv'
  <2>1. Idle \in TaskType
    BY DEF Idle, TaskType, Phases, Some
  <2> QED
    BY <1>0, <1>4, <2>1, TrackTeardown DEF Rebuild
<1>5. ASSUME NEW c \in Calls, Create(c)  PROVE TrackInv'
  <2>1. CASE up
    <3>1. /\ [Idle EXCEPT !.pc = "booting", !.inst = starts + 1].pc = "booting"
          /\ [Idle EXCEPT !.pc = "booting", !.inst = starts + 1].inst = starts + 1
      BY DEF Idle
    <3> QED
      BY <1>0, <1>5, <2>1, <3>1, TrackCreated DEF Create
  <2>2. CASE ~up
    <3>1. starts \in Nat /\ \A i \in Instances : i \in Nat
      BY ConstAssumption DEF TypeInv, Some, Instances
    <3>2. \A i \in Instances : i <= starts => cont'[i] = cont[i]
      BY <1>5, <3>1 DEF Create, TypeInv
    <3> QED
      BY <1>0, <1>5, <2>2, <3>2, TrackQuiet DEF Create, Idle
  <2> QED
    BY <2>1, <2>2
<1>6. ASSUME NEW c \in Calls, CreateError(c)  PROVE TrackInv'
  <2>1. PICK x : Becomes(c, x) /\ x.pc \notin {"booting", "tear-stop"}
    BY <1>6 DEF CreateError, Idle
  <2>2. starts' \in {starts, starts + 1}
    BY <1>6 DEF CreateError
  <2>3. \A i \in Instances : cont'[i] = "removed" => cont[i] = "removed"
    BY <1>6 DEF CreateError, TypeInv
  <2> QED
    BY <1>0, <1>6, <2>1, <2>2, <2>3, TrackQuiet DEF CreateError
<1>7. ASSUME NEW c \in Calls, BootError(c)  PROVE TrackInv'
  <2>1. \A i \in Instances : cont'[i] = "removed" => cont[i] = "removed" \/ i = Own(c)
    BY <1>7 DEF BootError, Remove, TypeInv, Own
  <2> QED
    BY <1>0, <1>7, <2>1, TrackQuiet DEF BootError, Idle
<1>8. ASSUME NEW c \in Calls, Boot(c)  PROVE TrackInv'
  <2>1. [task[c] EXCEPT !.pc = "mounting"].pc = "mounting"
    BY <1>0 DEF TaskType
  <2> QED
    BY <1>0, <1>8, <2>1, TrackBooted DEF Boot, Goto
<1>9. ASSUME NEW c \in Calls, BootUnmounted(c)  PROVE TrackInv'
  BY <1>0, <1>9, TrackBooted DEF BootUnmounted, Idle
<1>10. ASSUME NEW c \in Calls, Mount(c)  PROVE TrackInv'
  <2>1. PICK x : Becomes(c, x) /\ x.pc \notin {"booting", "tear-stop"}
    BY <1>10, EnsuredMoves DEF Mount
  <2> QED
    BY <1>0, <1>10, <2>1, TrackQuiet DEF Mount, Goto, brokers
<1>11. ASSUME NEW c \in Calls, Enter(c)  PROVE TrackInv'
  BY <1>0, <1>11, TrackQuiet DEF Enter, Goto, Idle, TaskType, brokers
<1>12. ASSUME NEW c \in Calls, InvokeReturns(c)  PROVE TrackInv'
  BY <1>0, <1>12, TrackQuiet DEF InvokeReturns, Leave, Idle
<1>13. ASSUME NEW c \in Calls, InvokeFails(c) \/ Reset(c)  PROVE TrackInv'
  <2>1. [task[c] EXCEPT !.then = "failed"] \in TaskType
    BY <1>0, <1>13 DEF TaskType
  <2> QED
    BY <1>0, <1>13, <2>1, TrackTeardown DEF InvokeFails, Reset, Stuck, Executing, Serving
<1>14. ASSUME NEW c \in Calls, Failed(c)  PROVE TrackInv'
  BY <1>0, <1>14, TrackQuiet DEF Failed, Leave, Idle
<1>15. ASSUME NEW c \in Calls, Send(c) \/ Drained(c)  PROVE TrackInv'
  <2>1. PICK pc \in {"answer", "drain"} : Becomes(c, [task[c] EXCEPT !.pc = pc])
    BY <1>15 DEF Send, Drained, Goto
  <2>2. [task[c] EXCEPT !.pc = pc].pc \notin {"booting", "tear-stop"}
    BY <1>0 DEF TaskType
  <2> QED
    BY <1>0, <1>15, <2>1, <2>2, TrackQuiet DEF Send, Drained, brokers
<1>17. ASSUME NEW t \in Tasks, TearWait(t)  PROVE TrackInv'
  BY <1>0, <1>17, TrackPopped DEF TearWait, TaskType
<1>18. ASSUME NEW t \in Tasks, TearStop(t)  PROVE TrackInv'
  <2>1. PICK x : Becomes(t, x) /\ x.pc \notin {"booting", "tear-stop"}
    <3>1. task[t].then \in {"start", "failed", "exit"} /\ Idle.pc = "idle"
      BY <1>0 DEF Idle, TaskType
    <3>2. [task[t] EXCEPT !.pc = task[t].then, !.victim = 0].pc = task[t].then
      BY <1>0 DEF TaskType
    <3> QED
      BY <1>18, <3>1, <3>2 DEF TearStop
  <2>2. \A i \in Instances : cont'[i] = "removed" => cont[i] = "removed" \/ i = Own(t)
    BY <1>18 DEF TearStop, Remove, TypeInv, Own
  <2> QED
    BY <1>18, <2>1, <2>2, TrackQuiet DEF TearStop
<1>19. ASSUME NEW t \in Tasks, TearError(t)  PROVE TrackInv'
  <2>1. PICK x : Becomes(t, x) /\ x.pc \notin {"booting", "tear-stop"}
    <3>1. task[t].then \in {"start", "failed", "exit"} /\ Idle.pc = "idle"
      BY <1>0 DEF Idle, TaskType
    <3>2. [task[t] EXCEPT !.pc = task[t].then, !.victim = 0].pc = task[t].then
      BY <1>0 DEF TaskType
    <3> QED
      BY <1>19, <3>1, <3>2 DEF TearError
  <2> QED
    BY <1>19, <2>1, TrackQuiet DEF TearError, brokers
<1>20. ASSUME Eof  PROVE TrackInv'
  <2>1. Main \in Tasks
    BY DEF Tasks
  <2>2. CASE inst = 0
    BY <1>0, <1>20, <2>1, <2>2, TrackQuiet DEF Eof, Goto, TaskType
  <2>3. CASE inst # 0
    <3>1. [Idle EXCEPT !.then = "exit"] \in TaskType
      BY DEF Idle, TaskType, Phases, Serving, Some
    <3> QED
      BY <1>20, <2>1, <2>3, <3>1, TrackTeardown DEF Eof
  <2> QED
    BY <2>2, <2>3
<1>21. ASSUME Exit  PROVE TrackInv'
  BY <1>21, TrackEnds DEF Exit
<1>22. ASSUME Kill  PROVE TrackInv'
  BY <1>22, TrackEnds DEF Kill
<1>23. ASSUME NEW i \in Instances, Crash(i)  PROVE TrackInv'
  <2>1. \A j \in Instances : cont[j] # "removed" => cont'[j] # "removed"
    BY <1>23 DEF Crash, TypeInv
  <2>2. /\ inst # 0 => inst \in Instances
        /\ \A t \in Tasks : task[t].pc = "booting" => task[t].inst \in Instances
    BY DEF TypeInv, TaskOK, TaskType, Some
  <2> QED
    BY <1>23, <2>1, <2>2 DEF Crash, TrackInv, TrackedNotRemoved
<1>24. ASSUME NEW i \in Instances, Connect(i)  PROVE TrackInv'
  BY <1>24 DEF Connect, TrackInv, TrackedNotRemoved
<1>25. ASSUME NEW i \in Instances, Disconnect(i)  PROVE TrackInv'
  BY <1>25 DEF Disconnect, TrackInv, TrackedNotRemoved
<1>26. ASSUME UNCHANGED vars  PROVE TrackInv'
  BY <1>26 DEF vars, TrackInv, TrackedNotRemoved
<1> QED
  BY <1>1, <1>2, <1>3, <1>4, <1>5, <1>6, <1>7, <1>8, <1>9, <1>10, <1>11,
     <1>12, <1>13, <1>14, <1>15, <1>17, <1>18, <1>19, <1>20, <1>21,
     <1>22, <1>23, <1>24, <1>25, <1>26 DEF Next, Serve, Respond, Tear, Ended

-----------------------------------------------------------------------------
(* The theorems *)

\* MInv in the parts that the lemmas are about.
LEMMA MInvParts == MInv <=> TypeInv /\ LockInv /\ TrackInv
BY TypeInvIsTypes DEF MInv, LockInv

LEMMA InitHolds == Init => TypeInv /\ LockInv /\ TrackInv
<1> SUFFICES ASSUME Init  PROVE TypeInv /\ LockInv /\ TrackInv
  OBVIOUS
<1>1. TypeInv
  <2>1. <<>> \in Seq(Calls) /\ TaskOK(Idle)
    BY DEF TaskOK, TaskType, Phases, Serving, Idle, Some
  <2> QED
    BY <2>1 DEF Init, TypeInv, Some
<1>2. LockInv
  BY DEF Init, LockInv, EndInv, QueueInv, ContextOwned, InQueue, InCall, Serving, Idle,
         Tasks
<1>3. TrackInv
  BY DEF Init, TrackInv, TrackedNotRemoved, Idle
<1> QED
  BY <1>1, <1>2, <1>3

\* The parts of MInv hold in every state.
LEMMA PartsInvariant == Spec => [](TypeInv /\ LockInv /\ TrackInv)
<1>1. TypeInv /\ LockInv /\ TrackInv /\ [Next]_vars => (TypeInv /\ LockInv /\ TrackInv)'
  BY TypeStep, LockStep, TrackStep DEF LockInv
<1> QED
  BY InitHolds, <1>1, PTL DEF Spec

\* CapsuleManager.invoke, _ensure_instance, _teardown_instance and shutdown keep
\* MInv, whatever the calls, the containers and docker do.
THEOREM ManagerInvariance == Spec => []MInv
BY PartsInvariant, MInvParts, PTL

\* The types of the manager's dictionaries and of the coroutines' locals; no
\* coroutine waits for an instance it does not have.
THEOREM TypesHold == Spec => []TypeOK
<1>1. MInv => TypeOK
  BY DEF MInv
<1> QED
  BY ManagerInvariance, <1>1, PTL

\* A call context never outlives its call and two calls never execute at once,
\* through every failure, takedown and rebuild (manager.py:42, server.py:35).
THEOREM ContextOwnedHolds == Spec => []ContextOwned
<1>1. MInv => ContextOwned
  BY DEF MInv
<1> QED
  BY ManagerInvariance, <1>1, PTL

\* The manager never keeps a container that it removed itself.
THEOREM TrackedNotRemovedHolds == Spec => []TrackedNotRemoved
<1>1. MInv => TrackedNotRemoved
  BY DEF MInv, TrackInv
<1> QED
  BY ManagerInvariance, <1>1, PTL

\* A step in which one task moves: what nobody held before, nobody holds ...
LEMMA OthersHold ==
    ASSUME TypeInv, NEW t \in Tasks, NEW x, Becomes(t, x), NEW i,
           \A u \in Tasks : ~Held(u, i)'
    PROVE  \A u \in Tasks : u # t => ~Held(u, i)
BY DEF TypeInv, Becomes, Held

\* ... and a container that the manager loses was registered, or held by the
\* task that moves, or did not exist.
LEMMA StraySource ==
    ASSUME TypeInv, NEW t \in Tasks, NEW x, Becomes(t, x),
           NEW i \in Instances, Stray(i)', ~Stray(i)
    PROVE  i = inst \/ Held(t, i) \/ ~Exists(i)
BY OthersHold DEF Stray

\* _teardown_instance drops no container: it goes on to remove what it forgets.
LEMMA PopKeeps ==
    ASSUME TypeInv, NEW t \in Tasks, NEW x \in TaskType, PopInstance(t, x),
           UNCHANGED cont, task[t].pc \notin {"booting", "tear-stop"},
           NEW i \in Instances, Stray(i)', ~Stray(i)
    PROVE  FALSE
<1> DEFINE y == [x EXCEPT !.pc = IF inst # 0 THEN "tear-stop" ELSE x.then,
                          !.victim = inst]
<1>1. Becomes(t, y)
  BY DEF PopInstance
<1>2. y.victim = inst /\ (inst # 0 => y.pc = "tear-stop")
  BY DEF TaskType
<1> HIDE DEF y
<1>3. i = inst
  BY <1>1, StraySource DEF Held, Exists, Stray
<1>4. task'[t] = y /\ i # 0
  BY <1>1, ConstAssumption DEF Becomes, TypeInv, Instances
<1> QED
  BY <1>2, <1>3, <1>4 DEF Stray, Held

LEMMA TeardownKeeps ==
    ASSUME TypeInv, NEW t \in Tasks, NEW x \in TaskType, Teardown(t, x),
           UNCHANGED cont, task[t].pc \notin {"booting", "tear-stop"},
           NEW i \in Instances, Stray(i)', ~Stray(i)
    PROVE  FALSE
<1>1. CASE PopInstance(t, x)
  BY <1>1, PopKeeps
<1>2. CASE UNCHANGED inst /\ Becomes(t, [x EXCEPT !.pc = "tear-wait", !.victim = srv])
  BY <1>2, StraySource DEF Held, Exists, Stray
<1> QED
  BY <1>1, <1>2 DEF Teardown

\* What a step may do to a container that becomes nobody's.
Explained(i) == \/ ~up'
                \/ inst = i /\ inst' \notin {0, i}
                \/ \E c \in Calls : CreateError(c) \/ BootError(c)
                \/ \E t \in Tasks : TearError(t)

\* A call that goes on from one await to the next drops no container, unless it
\* registers its own over the one that is registered.
LEMMA CallStrays ==
    ASSUME TypeInv, NEW c \in Calls, Arrive(c) \/ Serve(c) \/ Respond(c), up',
           NEW i \in Instances, Stray(i)', ~Stray(i)
    PROVE  Explained(i)
<1>0. c \in Tasks /\ task[c] \in TaskType /\ Idle \in TaskType
  BY DEF Tasks, TypeInv, TaskOK, Idle, TaskType, Phases, Some
<1>1. ASSUME NEW x, Becomes(c, x), UNCHANGED <<inst, cont>>,
             task[c].pc \notin {"booting", "tear-stop"}
      PROVE  FALSE
  BY <1>0, <1>1, StraySource DEF Held, Exists, Stray
<1> USE DEF At
<1>2. CASE Arrive(c)
  BY <1>1, <1>2 DEF Arrive
<1>3. CASE HealthRead(c)
  BY <1>1, <1>3 DEF HealthRead, Goto
<1>4. CASE Healthy(c)
  BY <1>1, <1>4 DEF Healthy, Ensured, EnterNow
<1>5. CASE Rebuild(c)
  BY <1>0, <1>5, TeardownKeeps DEF Rebuild
<1>6. CASE Create(c)
  <2> DEFINE x == [Idle EXCEPT !.pc = "booting", !.inst = starts + 1]
  <2>1. x.pc = "booting" /\ x.inst = starts + 1
    BY DEF Idle
  <2>2. up /\ Becomes(c, x)
    BY <1>6 DEF Create
  <2> HIDE DEF x
  <2>3. task'[c] = x
    BY <1>0, <2>2 DEF Becomes, TypeInv
  <2>4. i # starts + 1
    BY <1>0, <2>1, <2>3 DEF Stray, Held
  <2>5. cont'[i] = cont[i] /\ UNCHANGED inst
    BY <1>6, <2>4 DEF Create, TypeInv
  <2> QED
    BY <1>0, <1>6, <2>2, <2>5, StraySource DEF Create, Held, Exists, Stray
<1>7. CASE CreateError(c) \/ BootError(c)
  BY <1>7 DEF Explained
<1>8. CASE Boot(c) \/ BootUnmounted(c)
  <2>1. inst' = task[c].inst /\ UNCHANGED cont /\ task[c].pc = "booting"
    BY <1>8 DEF Boot, BootUnmounted
  <2>2. inst' # 0 /\ i # inst'
    BY <1>0, <2>1 DEF TypeInv, TaskOK, Stray
  <2>3. PICK x : Becomes(c, x)
    BY <1>8 DEF Boot, BootUnmounted, Goto
  <2>4. i = inst
    BY <1>0, <2>1, <2>2, <2>3, StraySource DEF Held, Exists, Stray
  <2> QED
    BY <2>2, <2>4 DEF Explained
<1>9. CASE Mount(c)
  BY <1>1, <1>9 DEF Mount, Ensured, EnterNow
<1>10. CASE Enter(c)
  BY <1>1, <1>10 DEF Enter, Goto
<1>11. CASE InvokeReturns(c) \/ Failed(c)
  BY <1>1, <1>11 DEF InvokeReturns, Failed, Leave
<1>12. CASE InvokeFails(c) \/ Reset(c)
  <2>1. [task[c] EXCEPT !.then = "failed"] \in TaskType
    BY <1>0 DEF TaskType
  <2> QED
    BY <1>0, <1>12, <2>1, TeardownKeeps DEF InvokeFails, Reset, Stuck, Executing, Serving
<1>13. CASE Send(c) \/ Drained(c)
  BY <1>1, <1>13 DEF Send, Drained, Goto
<1> QED
  BY <1>2, <1>3, <1>4, <1>5, <1>6, <1>7, <1>8, <1>9, <1>10, <1>11, <1>12, <1>13
     DEF Serve, Respond

\* Nor does a takedown, or the shutdown.
LEMMA TearStrays ==
    ASSUME TypeInv, NEW t \in Tasks, Tear(t) \/ (t = Main /\ Eof), up',
           NEW i \in Instances, Stray(i)', ~Stray(i)
    PROVE  Explained(i)
<1>0. task[t] \in TaskType /\ [Idle EXCEPT !.then = "exit"] \in TaskType
  BY DEF TypeInv, TaskOK, Idle, TaskType, Phases, Some
<1>1. CASE TearWait(t)
  BY <1>0, <1>1, PopKeeps DEF TearWait, At
<1>2. CASE TearStop(t)
  <2>1. up /\ Becomes(t, [task[t] EXCEPT !.pc = task[t].then, !.victim = 0])
        /\ cont' = [cont EXCEPT ![task[t].victim] = "removed"] /\ UNCHANGED inst
    BY <1>2 DEF TearStop, Remove
  <2>2. i # task[t].victim /\ cont'[i] = cont[i]
    BY <2>1 DEF TypeInv, Stray, Exists
  <2> QED
    BY <1>2, <2>1, <2>2, StraySource DEF TearStop, Held, Exists, Stray
<1>3. CASE TearError(t)
  BY <1>3 DEF Explained
<1>4. CASE Eof /\ t = Main
  <2>1. CASE inst = 0
    BY <1>4, <2>1, StraySource DEF Eof, At, Goto, Held, Exists, Stray
  <2>2. CASE inst # 0
    BY <1>0, <1>4, <2>2, TeardownKeeps DEF Eof, At
  <2> QED
    BY <2>1, <2>2
<1> QED
  BY <1>1, <1>2, <1>3, <1>4 DEF Tear

\* The manager loses a container in three ways only: the process ends, docker
\* fails, or another first call registers its instance over it (manager.py:72).
\* No failing call, no rebuild and no shutdown drops one on the way.
THEOREM StraysExplainedHolds == Spec => StraysExplained
<1>1. TypeInv /\ [Next]_vars =>
        [\A i \in Instances : Stray(i)' /\ ~Stray(i) => Explained(i)]_vars
  <2> SUFFICES ASSUME TypeInv, Next, NEW i \in Instances, Stray(i)', ~Stray(i)
               PROVE  Explained(i)
    BY DEF vars
  <2>1. CASE ~up'
    BY <2>1 DEF Explained
  <2>2. ASSUME NEW c \in Calls, Arrive(c) \/ Serve(c) \/ Respond(c), up'
        PROVE  Explained(i)
    BY <2>2, CallStrays
  <2>3. ASSUME NEW t \in Tasks, Tear(t), up'  PROVE Explained(i)
    BY <2>3, TearStrays
  <2>4. ASSUME Eof, up'  PROVE Explained(i)
    BY <2>4, TearStrays DEF Tasks
  <2>5. CASE Exit \/ Kill
    BY <2>5 DEF Exit, Kill, ProcessEnds, Explained
  <2>6. CASE Ended
    BY <2>6 DEF Ended, vars, Stray, Exists, Held
  <2>7. ASSUME NEW j \in Instances, Crash(j) \/ Connect(j) \/ Disconnect(j)
        PROVE  Explained(i)
    BY <2>7 DEF Crash, Connect, Disconnect, Stray, Exists, Held, TypeInv
  <2> QED
    BY <2>1, <2>2, <2>3, <2>4, <2>5, <2>6, <2>7 DEF Next
<1> QED
  BY PartsInvariant, <1>1, PTL DEF Spec, StraysExplained, Explained

=============================================================================
