------------------------------- MODULE RpcChannel -------------------------------
(***************************************************************************)
(* The stdio channel between the plugin in the host and the Python runtime *)
(* it spawns: PythonRuntime (adapter/src/rpc-client.ts) at one end,        *)
(* RpcConnection (runtime/dsh_capsule/rpc.py) at the other, both of which  *)
(* call and serve.  A call of the host may need a call back (an approval,  *)
(* a credential) before it can be answered.                                *)
(*                                                                         *)
(* Ids are never used twice ("ts-1", ... and "py-1", ...), so a call is    *)
(* its id.  As in the plugin (index.ts), a PythonRuntime is started once.  *)
(* A line that is no JSON is ignored by the host and answered to nobody by *)
(* the runtime, so there are none here.                                    *)
(***************************************************************************)
EXTENDS Naturals, Sequences, FiniteSets

CONSTANTS
    HostCalls,   \* the ids of the calls of the host, system.ping among them
    RtCalls,     \* the ids of the calls of the runtime
    Nobody       \* the parent of a call that no call of the host waits for

ASSUME CallsAssumption ==
    HostCalls \cap RtCalls = {} /\ Nobody \notin HostCalls

VARIABLES
    host,      \* the host process
    handle,    \* this.proc
    exitSeen,  \* the "exit" event of the runtime was handled
    disposal,  \* the promise of the first dispose()
    proc,      \* the runtime process
    toRt,      \* stdin of the runtime
    toHost,    \* its stdout
    call,      \* each call, for its caller; "open" is an entry of pending
    fut,       \* the future in _pending of each open call of the runtime
    parent,    \* the call of the host whose handler made it
    work       \* the handler of each call, at the other end

hostVars == <<host, handle, exitSeen, disposal>>
vars == <<hostVars, proc, toRt, toHost, call, fut, parent, work>>

Calls == HostCalls \cup RtCalls
Msg   == [kind : {"ask", "answer"}, id : Calls]

Init ==
    /\ host = "up" /\ handle = "none" /\ exitSeen = FALSE /\ disposal = "none"
    /\ proc = "none" /\ toRt = <<>> /\ toHost = <<>>
    /\ call = [c \in Calls |-> "new"]
    /\ fut = [c \in RtCalls |-> "none"]
    /\ parent = [c \in RtCalls |-> Nobody]
    /\ work = [c \in Calls |-> "none"]

Ask(c)    == [kind |-> "ask", id |-> c]
Reply(c)  == [kind |-> "answer", id |-> c]
Open(C)   == {c \in C : call[c] = "open"}
Settle(C, how) == call' = [c \in Calls |-> IF c \in C THEN how ELSE call[c]]

-----------------------------------------------------------------------------
(* The host *)

\* send: nothing is written without a process, or to one that is gone.
Send(msg) == toRt' = IF handle = "set" /\ proc = "up" THEN Append(toRt, msg)
                     ELSE toRt

\* start spawns the process, and its first call is system.ping.
Start(h) ==
    /\ host = "up" /\ handle = "none" /\ call[h] = "new"
    /\ handle' = "set" /\ proc' = "up"
    /\ toRt' = <<Ask(h)>>
    /\ Settle({h}, "open")
    /\ UNCHANGED <<host, exitSeen, disposal, toHost, fut, parent, work>>

\* Also to a process that has exited: only dispose clears this.proc.
HostCall(h) ==
    /\ host = "up" /\ handle = "set" /\ call[h] = "new"
    /\ Send(Ask(h))
    /\ Settle({h}, "open")
    /\ UNCHANGED <<hostVars, proc, toHost, fut, parent, work>>

HostTimeout(h) ==
    /\ host = "up" /\ call[h] = "open"
    /\ Settle({h}, "failed")
    /\ UNCHANGED <<hostVars, proc, toRt, toHost, fut, parent, work>>

\* Slip: the oldest entry is resolved, as if answers came in the order of calls.
MatchedAny(c) == IF Open(HostCalls) = {} THEN {}
                 ELSE {CHOOSE h \in Open(HostCalls) : TRUE}
\* the entry of pending that an answer is for, if it is still there
Matched(c) == {c} \cap Open(HostCalls)

\* handleLine: an answer without an entry is dropped; a request starts its
\* handler.  Lines left in the pipe are read after the exit, too.
HostReads ==
    /\ host = "up" /\ toHost # <<>>
    /\ LET msg == Head(toHost)
       IN  \/ /\ msg.kind = "answer"
              /\ Settle(Matched(msg.id), "answered")
              /\ UNCHANGED work
           \/ /\ msg.kind = "ask"
              /\ work' = [work EXCEPT ![msg.id] = "running"]
              /\ UNCHANGED call
    /\ toHost' = Tail(toHost)
    /\ UNCHANGED <<hostVars, proc, toRt, fut, parent>>

\* Slip: the handler is not awaited, and answered for at once.
HostServedUnawaited(c) ==
    /\ host = "up" /\ work[c] = "running"
    /\ Send(Reply(c))
    /\ UNCHANGED <<hostVars, proc, toHost, call, fut, parent, work>>

\* Also with an error; the user, or the credential store, takes any time.
HostServed(c) ==
    /\ host = "up" /\ work[c] = "running"
    /\ work' = [work EXCEPT ![c] = "ended"]
    /\ Send(Reply(c))
    /\ UNCHANGED <<hostVars, proc, toHost, call, fut, parent>>

\* Slip: dispose does not wait for the exit.
DisposeAtOnce ==
    /\ host = "up" /\ handle = "set"
    /\ handle' = "disposed" /\ disposal' = "done"
    /\ Settle(Open(HostCalls), "failed")
    /\ UNCHANGED <<host, exitSeen, proc, toRt, toHost, fut, parent, work>>

\* Sends SIGTERM, and SIGKILL later.
Dispose ==
    /\ host = "up" /\ handle = "set"
    /\ handle' = "disposed" /\ disposal' = "waiting"
    /\ UNCHANGED <<host, exitSeen, proc, toRt, toHost, call, fut, parent, work>>

\* The listener of start fails what is pending, then that of dispose resolves,
\* when it was there in time.
ExitEvent ==
    /\ host = "up" /\ proc = "gone" /\ ~exitSeen
    /\ exitSeen' = TRUE
    /\ Settle(Open(HostCalls), "failed")
    /\ disposal' = IF disposal = "waiting" THEN "done" ELSE disposal
    /\ UNCHANGED <<host, handle, proc, toRt, toHost, fut, parent, work>>

\* The host ends without dispose: the runtime will read the end of its input.
HostEnds ==
    /\ host = "up"
    /\ host' = "gone"
    /\ toHost' = <<>>
    /\ Settle(Open(HostCalls), "failed")
    /\ UNCHANGED <<handle, exitSeen, disposal, proc, toRt, fut, parent, work>>

-----------------------------------------------------------------------------
(* The runtime *)

\* A handler waits for the calls it made.
Awaited(h) == {c \in Open(RtCalls) : parent[c] = h}

\* _handle: a request starts its handler; an answer to a future that is done,
\* or no longer in _pending, is dropped.
OnLine(msg) ==
    \/ /\ msg.kind = "ask"
       /\ work' = [work EXCEPT ![msg.id] = "running"]
       /\ UNCHANGED fut
    \/ /\ msg.kind = "answer"
       /\ fut' = [fut EXCEPT ![msg.id] =
                     IF call[msg.id] = "open" /\ @ = "waits" THEN "result" ELSE @]
       /\ UNCHANGED work

\* Slip: run awaits _handle, and reads the next line when it is done.
RtReadsWhenIdle ==
    /\ proc = "up" /\ toRt # <<>>
    /\ \A h \in HostCalls : work[h] # "running"
    /\ OnLine(Head(toRt))
    /\ toRt' = Tail(toRt)
    /\ UNCHANGED <<hostVars, proc, toHost, call, parent>>

\* run: the next line, in a task of its own
RtReads ==
    /\ proc = "up" /\ toRt # <<>>
    /\ OnLine(Head(toRt))
    /\ toRt' = Tail(toRt)
    /\ UNCHANGED <<hostVars, proc, toHost, call, parent>>

\* The handler returns or raises and its answer is written; one that cannot be
\* encoded (a lone surrogate out of a container) ends the task unanswered.
RtServed(h) ==
    /\ proc \in {"up", "ending"} /\ work[h] = "running" /\ Awaited(h) = {}
    /\ \/ /\ work' = [work EXCEPT ![h] = "ended"]
          /\ toHost' = IF host = "up" THEN Append(toHost, Reply(h)) ELSE toHost
       \/ /\ work' = [work EXCEPT ![h] = "unwritten"]
          /\ UNCHANGED toHost
    /\ UNCHANGED <<hostVars, proc, toRt, call, fut, parent>>

\* call: from a handler, or from a broker connection.  Without a host the
\* write raises, and the call fails at once.
RtCall(c, p) ==
    /\ proc \in {"up", "ending"} /\ call[c] = "new"
    /\ p \in {Nobody} \cup {h \in HostCalls : work[h] = "running" /\ Awaited(h) = {}}
    /\ IF host = "up"
       THEN /\ toHost' = Append(toHost, Ask(c))
            /\ fut' = [fut EXCEPT ![c] = "waits"]
            /\ parent' = [parent EXCEPT ![c] = p]
            /\ Settle({c}, "open")
       ELSE /\ Settle({c}, "failed")
            /\ UNCHANGED <<toHost, fut, parent>>
    /\ UNCHANGED <<hostVars, proc, toRt, work>>

\* The coroutine wakes up, and takes its entry out of _pending.
RtResumes(c) ==
    /\ proc \in {"up", "ending"} /\ call[c] = "open"
    /\ \/ fut[c] = "result" /\ Settle({c}, "answered")
       \/ fut[c] = "error" /\ Settle({c}, "failed")
    /\ UNCHANGED <<hostVars, proc, toRt, toHost, fut, parent, work>>

RtTimeout(c) ==
    /\ proc \in {"up", "ending"} /\ call[c] = "open" /\ fut[c] = "waits"
    /\ Settle({c}, "failed")
    /\ UNCHANGED <<hostVars, proc, toRt, toHost, fut, parent, work>>

\* End of input: what waits is failed, and amain goes on to its shutdown.
Eof ==
    /\ proc = "up" /\ host = "gone" /\ toRt = <<>>
    /\ proc' = "ending"
    /\ fut' = [c \in RtCalls |->
                  IF call[c] = "open" /\ fut[c] = "waits" THEN "error" ELSE fut[c]]
    /\ UNCHANGED <<hostVars, toRt, toHost, call, parent, work>>

\* It crashes, is killed by dispose, or has finished its shutdown.
RtEnds ==
    /\ proc \in {"up", "ending"}
    /\ proc' = "gone"
    /\ toRt' = <<>>
    /\ Settle(Open(RtCalls), "failed")
    /\ UNCHANGED <<hostVars, toHost, fut, parent, work>>

Over == (host = "gone" \/ (handle # "set" /\ exitSeen)) /\ proc \in {"none", "gone"}
Ended == Over /\ UNCHANGED vars

-----------------------------------------------------------------------------

Next ==
    \/ HostReads \/ ExitEvent \/ Dispose \/ HostEnds
    \/ \E h \in HostCalls : Start(h) \/ HostCall(h) \/ HostTimeout(h) \/ RtServed(h)
    \/ RtReads \/ Eof \/ RtEnds
    \/ \E c \in RtCalls : \/ HostServed(c) \/ RtResumes(c) \/ RtTimeout(c)
                          \/ \E p \in HostCalls \cup {Nobody} : RtCall(c, p)
    \/ Ended

Spec == Init /\ [][Next]_vars

\* Both loops run, and a process that was sent SIGTERM and SIGKILL ends.  No
\* time limit is fair here: what is claimed holds before any is reached.
FairSpec ==
    /\ Spec
    /\ WF_vars(HostReads) /\ WF_vars(ExitEvent)
    /\ WF_vars(RtReads) /\ WF_vars(Eof) /\ \A c \in RtCalls : WF_vars(RtResumes(c))
    /\ WF_vars(RtEnds /\ (handle = "disposed" \/ proc = "ending"))

-----------------------------------------------------------------------------
(* Properties *)

Contents(q) == {q[k] : k \in DOMAIN q}

\* Types; and a line in the pipe has its call behind it.
TypeOK ==
    /\ host \in {"up", "gone"} /\ handle \in {"none", "set", "disposed"}
    /\ exitSeen \in BOOLEAN /\ disposal \in {"none", "waiting", "done"}
    /\ proc \in {"none", "up", "ending", "gone"}
    /\ toRt \in Seq(Msg) /\ toHost \in Seq(Msg)
    /\ call \in [Calls -> {"new", "open", "answered", "failed"}]
    /\ fut \in [RtCalls -> {"none", "waits", "result", "error"}]
    /\ parent \in [RtCalls -> HostCalls \cup {Nobody}]
    /\ work \in [Calls -> {"none", "running", "ended", "unwritten"}]
    /\ \A m \in Contents(toRt) \cup Contents(toHost) :
          /\ call[m.id] # "new"
          /\ work[m.id] = IF m.kind = "ask" THEN "none" ELSE "ended"

Promise == INSTANCE CallSpec WITH
    outcome <- call,
    work <- [c \in Calls |-> IF work[c] = "unwritten" THEN "ended" ELSE work[c]]

\* A call in either direction is carried out at most once, ends once, and is
\* answered by its own completion only, whatever is late, lost, timed out,
\* ended or disposed of.
ImplementsCalls == Promise!CSpec

\* Once dispose has returned, the process is gone and no call is left open
\* (rpc-client.ts:47).
DisposedIsQuiet ==
    disposal = "done" => proc = "gone" /\ Open(HostCalls) = {}

\* Calls and calls back do not keep each other waiting: as long as handlers
\* end, every call ends before any time limit is reached.  The exceptions are
\* an answer that cannot be written, and a call to a process that has exited.
HandlersEnd ==
    /\ \A h \in HostCalls : []<>(work[h] # "running" \/ proc # "up" \/ Awaited(h) # {})
    /\ \A c \in RtCalls : []<>(work[c] # "running" \/ host # "up")
CallsServed ==
    HandlersEnd =>
        /\ \A h \in HostCalls : (call[h] = "open")
                ~> (call[h] # "open" \/ work[h] = "unwritten" \/ exitSeen)
        /\ \A c \in RtCalls : (call[c] = "open") ~> (call[c] # "open")

\* dispose ends the process and returns (rpc-client.ts:47).
DisposeReturns == (disposal = "waiting") ~> (disposal = "done" \/ host = "gone")
=============================================================================
