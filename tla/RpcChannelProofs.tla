--------------------------- MODULE RpcChannelProofs ---------------------------
(* Theorems about RpcChannel for any sets of calls: the lines in the pipes  *)
(* and the calls behind them agree, the channel keeps the promise of        *)
(* CallSpec in both directions, and dispose leaves nothing behind.          *)
EXTENDS RpcChannel, TLAPS

-----------------------------------------------------------------------------
(* The inductive invariant *)

\* A pipe carries the asks of one side, each at most once and before its work
\* began, and the answers of that side to the other's calls, whose work ended.
PipeOK(q, asking, asked, outcome, done) ==
    /\ \A k \in 1..Len(q) :
          /\ outcome[q[k].id] # "new"
          /\ q[k].kind = "ask" => q[k].id \in asking /\ done[q[k].id] = "none"
          /\ q[k].kind = "answer" => q[k].id \in asked /\ done[q[k].id] = "ended"
    /\ \A j, k \in 1..Len(q) : q[j].kind = "ask" /\ q[j] = q[k] => j = k

Types ==
    /\ host \in {"up", "gone"} /\ handle \in {"none", "set", "disposed"}
    /\ exitSeen \in BOOLEAN /\ disposal \in {"none", "waiting", "done"}
    /\ proc \in {"none", "up", "ending", "gone"}
    /\ toRt \in Seq(Msg) /\ toHost \in Seq(Msg)
    /\ call \in [Calls -> {"new", "open", "answered", "failed"}]
    /\ fut \in [RtCalls -> {"none", "waits", "result", "error"}]
    /\ parent \in [RtCalls -> HostCalls \cup {Nobody}]
    /\ work \in [Calls -> {"none", "running", "ended", "unwritten"}]

PipesInv == /\ PipeOK(toRt, HostCalls, RtCalls, call, work)
            /\ PipeOK(toHost, RtCalls, HostCalls, call, work)

\* Work is for a call that was made, and a result for work that ended.
WorkInv == /\ \A c \in Calls : call[c] = "new" => work[c] = "none"
           /\ \A c \in RtCalls : fut[c] = "result" => work[c] = "ended"

\* The host disposes of a process it has started, and calls no other.
DisposeInv ==
    /\ handle = "none" => proc = "none"
    /\ disposal # "none" => handle = "disposed"
    /\ exitSeen => proc = "gone"
    /\ disposal = "done" => exitSeen /\ Open(HostCalls) = {}

RpcInv == Types /\ PipesInv /\ WorkInv /\ DisposeInv

-----------------------------------------------------------------------------
(* Pipes *)

LEMMA PipeEmpty ==
    ASSUME NEW asking, NEW asked, NEW outcome, NEW done
    PROVE  PipeOK(<<>>, asking, asked, outcome, done) /\ <<>> \in Seq(Msg)
<1>1. Len(<<>>) = 0 /\ <<>> \in Seq(Msg)
  OBVIOUS
<1> QED
  BY <1>1 DEF PipeOK

\* Calls and work go on that no line in the pipe is about.
LEMMA PipeKept ==
    ASSUME NEW q \in Seq(Msg), NEW asking, NEW asked,
           NEW outcome, NEW done, NEW outcome2, NEW done2,
           PipeOK(q, asking, asked, outcome, done),
           \A c \in Calls : outcome[c] # "new" => outcome2[c] # "new",
           \A c \in asked : done[c] = "ended" => done2[c] = "ended",
           \A c \in asking : done[c] = "none" => done2[c] = "none"
    PROVE  PipeOK(q, asking, asked, outcome2, done2)
<1>1. \A m \in Msg : m.id \in Calls
  BY DEF Msg
<1>2. \A k \in 1..Len(q) : q[k] \in Msg
  OBVIOUS
<1> QED
  BY <1>1, <1>2 DEF PipeOK

\* A line is written.
LEMMA PipeWritten ==
    ASSUME NEW q \in Seq(Msg), NEW asking, NEW asked, NEW outcome, NEW done,
           PipeOK(q, asking, asked, outcome, done),
           NEW m \in Msg, outcome[m.id] # "new",
           m.kind = "ask" => /\ m.id \in asking /\ done[m.id] = "none"
                             /\ \A k \in 1..Len(q) : q[k] # m,
           m.kind = "answer" => m.id \in asked /\ done[m.id] = "ended"
    PROVE  Append(q, m) \in Seq(Msg) /\ PipeOK(Append(q, m), asking, asked, outcome, done)
<1>1. /\ Append(q, m) \in Seq(Msg) /\ Len(Append(q, m)) = Len(q) + 1 /\ Len(q) \in Nat
      /\ \A k \in 1..Len(q) : Append(q, m)[k] = q[k]
      /\ Append(q, m)[Len(q) + 1] = m
  OBVIOUS
<1> QED
  BY <1>1 DEF PipeOK

\* A line is read; an ask that was read is not there again.
LEMMA PipeRead ==
    ASSUME NEW q \in Seq(Msg), q # <<>>, NEW asking, NEW asked, NEW outcome, NEW done,
           PipeOK(q, asking, asked, outcome, done)
    PROVE  /\ Tail(q) \in Seq(Msg) /\ PipeOK(Tail(q), asking, asked, outcome, done)
           /\ Head(q) \in Msg /\ outcome[Head(q).id] # "new"
           /\ Head(q).kind = "ask" =>
                 /\ Head(q).id \in asking /\ done[Head(q).id] = "none"
                 /\ \A k \in 1..Len(Tail(q)) : Tail(q)[k] # Head(q)
           /\ Head(q).kind = "answer" => Head(q).id \in asked /\ done[Head(q).id] = "ended"
<1>1. /\ Tail(q) \in Seq(Msg) /\ Len(Tail(q)) = Len(q) - 1 /\ Len(q) \in Nat /\ Len(q) # 0
      /\ \A k \in 1..Len(Tail(q)) : Tail(q)[k] = q[k + 1]
      /\ Head(q) = q[1] /\ Head(q) \in Msg
  OBVIOUS
<1>2. \A k \in 1..Len(Tail(q)) : k + 1 \in 1..Len(q) /\ 1 \in 1..Len(q) /\ k + 1 # 1
  BY <1>1
<1>3. \A j, k \in 1..Len(Tail(q)) : j + 1 = k + 1 => j = k
  BY <1>1
<1>4. 1 \in 1..Len(q)
  BY <1>1
<1>5. PipeOK(Tail(q), asking, asked, outcome, done)
  BY <1>1, <1>2, <1>3 DEF PipeOK
<1> QED
  BY <1>1, <1>2, <1>4, <1>5 DEF PipeOK

-----------------------------------------------------------------------------
(* What the actions have in common *)

\* The two sides name their calls apart.
LEMMA Apart ==
    \A c \in Calls : /\ c \in HostCalls <=> c \notin RtCalls
                     /\ Ask(c) \in Msg /\ Reply(c) \in Msg
BY CallsAssumption DEF Calls, Msg, Ask, Reply

\* Calls that are settled, and nothing else, are still what the pipes hold.
LEMMA Settled ==
    ASSUME RpcInv, NEW C, NEW how \in {"open", "answered", "failed"}, Settle(C, how)
    PROVE  /\ call' \in [Calls -> {"new", "open", "answered", "failed"}]
           /\ \A c \in Calls : call'[c] = IF c \in C THEN how ELSE call[c]
           /\ PipeOK(toRt, HostCalls, RtCalls, call', work)
           /\ PipeOK(toHost, RtCalls, HostCalls, call', work)
           /\ \A c \in Calls : call'[c] = "new" => work[c] = "none"
           /\ how # "open" => Open(HostCalls)' \subseteq Open(HostCalls)
<1>1. /\ call' \in [Calls -> {"new", "open", "answered", "failed"}]
      /\ \A c \in Calls : call'[c] = IF c \in C THEN how ELSE call[c]
  BY DEF Settle, RpcInv, Types
<1>2. \A c \in Calls : call[c] # "new" => call'[c] # "new"
  BY <1>1
<1>3. HostCalls \subseteq Calls /\ RtCalls \subseteq Calls
  BY DEF Calls
<1>4. PipeOK(toRt, HostCalls, RtCalls, call', work)
  BY <1>2, PipeKept DEF RpcInv, Types, PipesInv
<1>5. PipeOK(toHost, RtCalls, HostCalls, call', work)
  BY <1>2, PipeKept DEF RpcInv, Types, PipesInv
<1>6. \A c \in Calls : call'[c] = "new" => work[c] = "none"
  BY <1>1 DEF RpcInv, WorkInv
<1>7. how # "open" => Open(HostCalls)' \subseteq Open(HostCalls)
  BY <1>1, <1>3 DEF Open
<1> QED
  BY <1>1, <1>4, <1>5, <1>6, <1>7

\* The same of work that goes on from one stage to another.
LEMMA Worked ==
    ASSUME RpcInv, NEW c \in Calls, NEW stage \in {"running", "ended", "unwritten"},
           work' = [work EXCEPT ![c] = stage], work[c] \in {"none", "running"},
           work[c] = "none" => stage = "running" /\ call[c] # "new"
    PROVE  /\ work' \in [Calls -> {"none", "running", "ended", "unwritten"}]
           /\ work'[c] = stage /\ \A d \in Calls : d # c => work'[d] = work[d]
           /\ \A d \in Calls : work[d] = "ended" => work'[d] = "ended"
           /\ \A d \in Calls : call[d] = "new" => work'[d] = "none"
           /\ \A d \in RtCalls : fut[d] = "result" => work'[d] = "ended"
           /\ work[c] = "running" => /\ PipeOK(toRt, HostCalls, RtCalls, call, work')
                                     /\ PipeOK(toHost, RtCalls, HostCalls, call, work')
<1>1. /\ work' \in [Calls -> {"none", "running", "ended", "unwritten"}]
      /\ work'[c] = stage /\ \A d \in Calls : d # c => work'[d] = work[d]
  BY DEF RpcInv, Types
<1>2. \A d \in Calls : work[d] = "ended" => work'[d] = "ended"
  BY <1>1
<1>3. \A d \in Calls : call[d] = "new" => work'[d] = "none"
  BY <1>1 DEF RpcInv, WorkInv
<1>4. HostCalls \subseteq Calls /\ RtCalls \subseteq Calls
  BY DEF Calls
<1>5. \A d \in RtCalls : fut[d] = "result" => work'[d] = "ended"
  BY <1>2, <1>4 DEF RpcInv, WorkInv
<1>6. ASSUME work[c] = "running"
      PROVE  /\ PipeOK(toRt, HostCalls, RtCalls, call, work')
             /\ PipeOK(toHost, RtCalls, HostCalls, call, work')
  <2>1. \A d \in Calls : work[d] = "none" => work'[d] = "none"
    BY <1>1, <1>6
  <2>2. PipeOK(toRt, HostCalls, RtCalls, call, work')
    BY <1>2, <1>4, <2>1, PipeKept DEF RpcInv, Types, PipesInv
  <2>3. PipeOK(toHost, RtCalls, HostCalls, call, work')
    BY <1>2, <1>4, <2>1, PipeKept DEF RpcInv, Types, PipesInv
  <2> QED
    BY <2>2, <2>3
<1> QED
  BY <1>1, <1>2, <1>3, <1>5, <1>6

-----------------------------------------------------------------------------
(* The invariant, action by action *)

LEMMA InitRpc == Init => RpcInv
<1> SUFFICES ASSUME Init PROVE RpcInv
  OBVIOUS
<1>1. Types
  BY PipeEmpty DEF Init, Types
<1>2. PipesInv
  BY PipeEmpty DEF Init, PipesInv
<1>3. WorkInv /\ DisposeInv
  BY DEF Init, WorkInv, DisposeInv, Calls
<1> QED
  BY <1>1, <1>2, <1>3 DEF RpcInv

\* Actions that settle calls of the host, and write nothing.
LEMMA HostSettles ==
    ASSUME RpcInv, (\E h \in HostCalls : HostTimeout(h)) \/ ExitEvent \/ HostEnds
    PROVE  RpcInv'
<1>1. PICK C : Settle(C, "failed")
  BY DEF HostTimeout, ExitEvent, HostEnds
<1>2. /\ call' \in [Calls -> {"new", "open", "answered", "failed"}]
      /\ PipeOK(toRt, HostCalls, RtCalls, call', work)
      /\ PipeOK(toHost, RtCalls, HostCalls, call', work)
      /\ \A c \in Calls : call'[c] = "new" => work[c] = "none"
      /\ Open(HostCalls)' \subseteq Open(HostCalls)
  BY <1>1, Settled
<1>3. /\ fut' = fut /\ parent' = parent /\ work' = work /\ toRt' = toRt
      /\ toHost' = toHost \/ toHost' = <<>>
      /\ host' \in {"up", "gone"} /\ proc' = proc /\ handle' = handle
  BY DEF HostTimeout, ExitEvent, HostEnds, hostVars, RpcInv, Types
<1>4. PipeOK(toHost', RtCalls, HostCalls, call', work) /\ toHost' \in Seq(Msg)
  <2>1. PipeOK(<<>>, RtCalls, HostCalls, call', work) /\ <<>> \in Seq(Msg)
    BY PipeEmpty
  <2> QED
    BY <1>2, <1>3, <2>1 DEF RpcInv, Types
<1>5. ASSUME ExitEvent
      PROVE  Open(HostCalls)' = {}
  <2>1. Settle(Open(HostCalls), "failed") /\ HostCalls \subseteq Calls
    BY <1>5 DEF ExitEvent, Calls
  <2>2. \A c \in Calls : call'[c] = IF c \in Open(HostCalls) THEN "failed" ELSE call[c]
    BY <2>1, Settled
  <2> QED
    BY <2>1, <2>2 DEF Open
<1>6. /\ exitSeen' \in BOOLEAN /\ disposal' \in {"none", "waiting", "done"}
      /\ disposal' # "none" => handle' = "disposed"
      /\ handle' = "none" => proc' = "none"
      /\ exitSeen' => proc' = "gone"
      /\ disposal' = "done" => exitSeen' /\ Open(HostCalls)' = {}
  <2>1. CASE ExitEvent
    BY <1>3, <1>5, <2>1 DEF ExitEvent, RpcInv, Types, DisposeInv
  <2>2. CASE HostEnds \/ \E h \in HostCalls : HostTimeout(h)
    <3>1. exitSeen' = exitSeen /\ disposal' = disposal
      BY <2>2 DEF HostEnds, HostTimeout, hostVars
    <3> QED
      BY <1>2, <1>3, <3>1 DEF RpcInv, Types, DisposeInv
  <2> QED
    BY <2>1, <2>2
<1> QED
  BY <1>2, <1>3, <1>4, <1>6 DEF RpcInv, Types, PipesInv, WorkInv, DisposeInv

\* Actions that settle calls of the runtime, and write nothing.
LEMMA RtSettles ==
    ASSUME RpcInv, (\E c \in RtCalls : RtResumes(c) \/ RtTimeout(c)) \/ RtEnds
    PROVE  RpcInv'
<1>1. PICK C, how : how \in {"answered", "failed"} /\ Settle(C, how)
  BY DEF RtResumes, RtTimeout, RtEnds
<1>2. /\ call' \in [Calls -> {"new", "open", "answered", "failed"}]
      /\ PipeOK(toRt, HostCalls, RtCalls, call', work)
      /\ PipeOK(toHost, RtCalls, HostCalls, call', work)
      /\ \A c \in Calls : call'[c] = "new" => work[c] = "none"
      /\ Open(HostCalls)' \subseteq Open(HostCalls)
  BY <1>1, Settled
<1>3. /\ UNCHANGED <<hostVars, toHost, fut, parent, work>>
      /\ toRt' = toRt \/ toRt' = <<>>
      /\ (proc' = proc) \/ (proc \in {"up", "ending"} /\ proc' = "gone")
  BY DEF RtResumes, RtTimeout, RtEnds
<1>4. PipeOK(toRt', HostCalls, RtCalls, call', work) /\ toRt' \in Seq(Msg)
  <2>1. PipeOK(<<>>, HostCalls, RtCalls, call', work) /\ <<>> \in Seq(Msg)
    BY PipeEmpty
  <2> QED
    BY <1>2, <1>3, <2>1 DEF RpcInv, Types
<1> QED
  BY <1>2, <1>3, <1>4 DEF RpcInv, Types, PipesInv, WorkInv, DisposeInv, hostVars

\* Disposal and the end of input touch no line and no call.
LEMMA EndsMeet ==
    ASSUME RpcInv, Dispose \/ Eof
    PROVE  RpcInv'
<1>1. CASE Dispose
  <2>1. UNCHANGED <<host, exitSeen, proc, toRt, toHost, call, fut, parent, work>>
    BY <1>1 DEF Dispose
  <2>2. handle' = "disposed" /\ disposal' = "waiting"
    BY <1>1 DEF Dispose
  <2>3. Open(HostCalls)' = Open(HostCalls)
    BY <2>1 DEF Open
  <2> QED
    BY <2>1, <2>2, <2>3 DEF RpcInv, Types, PipesInv, WorkInv, DisposeInv
<1>2. CASE Eof
  <2>1. /\ UNCHANGED <<hostVars, toRt, toHost, call, parent, work>>
        /\ proc = "up" /\ proc' = "ending"
        /\ fut' = [c \in RtCalls |->
                     IF call[c] = "open" /\ fut[c] = "waits" THEN "error" ELSE fut[c]]
    BY <1>2 DEF Eof
  <2>2. /\ fut' \in [RtCalls -> {"none", "waits", "result", "error"}]
        /\ \A c \in RtCalls : fut'[c] = "result" => work[c] = "ended"
    BY <2>1 DEF RpcInv, Types, WorkInv
  <2>3. Open(HostCalls)' = Open(HostCalls)
    BY <2>1 DEF Open
  <2> QED
    BY <2>1, <2>2, <2>3 DEF RpcInv, Types, PipesInv, WorkInv, DisposeInv, hostVars
<1> QED
  BY <1>1, <1>2

\* A new call of the host is asked by the first line for it.
LEMMA HostAsks ==
    ASSUME RpcInv, NEW h \in HostCalls, Start(h) \/ HostCall(h)
    PROVE  RpcInv'
<1>1. h \in Calls /\ call[h] = "new" /\ Settle({h}, "open") /\ disposal # "done"
  BY DEF Start, HostCall, Calls, RpcInv, DisposeInv
<1>2. /\ call' \in [Calls -> {"new", "open", "answered", "failed"}]
      /\ call'[h] # "new"
      /\ PipeOK(toRt, HostCalls, RtCalls, call', work)
      /\ PipeOK(toHost, RtCalls, HostCalls, call', work)
      /\ \A c \in Calls : call'[c] = "new" => work[c] = "none"
  BY <1>1, Settled
<1>3. \A k \in 1..Len(toRt) : toRt[k] # Ask(h)
  BY <1>1 DEF RpcInv, PipesInv, PipeOK, Ask
<1>4. Ask(h) \in Msg /\ Ask(h).id = h /\ Ask(h).kind = "ask" /\ work[h] = "none"
  BY <1>1, Apart DEF Ask, RpcInv, WorkInv
<1>5. /\ Append(toRt, Ask(h)) \in Seq(Msg)
      /\ PipeOK(Append(toRt, Ask(h)), HostCalls, RtCalls, call', work)
  BY <1>2, <1>3, <1>4, PipeWritten DEF RpcInv, Types
<1>6. /\ <<Ask(h)>> \in Seq(Msg)
      /\ PipeOK(<<Ask(h)>>, HostCalls, RtCalls, call', work)
  <2>1. PICK q : q = <<>>
    OBVIOUS
  <2>2. q \in Seq(Msg) /\ PipeOK(q, HostCalls, RtCalls, call', work) /\ Len(q) = 0
    BY <2>1, PipeEmpty
  <2>3. /\ Append(q, Ask(h)) \in Seq(Msg)
        /\ PipeOK(Append(q, Ask(h)), HostCalls, RtCalls, call', work)
    <3>1. \A k \in 1..Len(q) : q[k] # Ask(h)
      BY <2>2
    <3>2. q \in Seq(Msg) /\ PipeOK(q, HostCalls, RtCalls, call', work)
      BY <2>2
    <3>3. /\ Ask(h).kind = "ask" /\ Ask(h).id \in HostCalls /\ Ask(h) \in Msg
          /\ call'[Ask(h).id] # "new" /\ work[Ask(h).id] = "none"
      BY <1>2, <1>4
    <3>4. Ask(h).kind # "answer"
      BY <3>3
    <3> HIDE DEF Ask
    <3> QED
      BY <3>1, <3>2, <3>3, <3>4, PipeWritten
  <2>4. Append(q, Ask(h)) = <<Ask(h)>>
    BY <2>1
  <2> QED
    BY <2>3, <2>4
<1>7. toRt' \in Seq(Msg) /\ PipeOK(toRt', HostCalls, RtCalls, call', work)
  BY <1>2, <1>5, <1>6 DEF Start, HostCall, Send, RpcInv, Types
<1>8. /\ UNCHANGED <<host, exitSeen, disposal, toHost, fut, parent, work>>
      /\ handle' = "set" /\ disposal = "none" /\ proc' \in {"none", "up", "ending", "gone"}
      /\ exitSeen' => proc' = "gone"
  BY DEF Start, HostCall, hostVars, RpcInv, Types, DisposeInv
<1> QED
  BY <1>2, <1>7, <1>8 DEF RpcInv, Types, PipesInv, WorkInv, DisposeInv

\* So is a new call of the runtime, where there is a host to ask.
LEMMA RtAsks ==
    ASSUME RpcInv, NEW c \in RtCalls, NEW p \in HostCalls \cup {Nobody}, RtCall(c, p)
    PROVE  RpcInv'
<1>1. c \in Calls /\ call[c] = "new" /\ UNCHANGED <<hostVars, proc, toRt, work>>
  BY DEF RtCall, Calls
<1>2. CASE host = "up"
  <2>1. /\ Settle({c}, "open") /\ toHost' = Append(toHost, Ask(c))
        /\ fut' = [fut EXCEPT ![c] = "waits"] /\ parent' = [parent EXCEPT ![c] = p]
    BY <1>2 DEF RtCall
  <2>2. /\ call' \in [Calls -> {"new", "open", "answered", "failed"}]
        /\ \A d \in Calls : call'[d] = IF d \in {c} THEN "open" ELSE call[d]
        /\ PipeOK(toRt, HostCalls, RtCalls, call', work)
        /\ PipeOK(toHost, RtCalls, HostCalls, call', work)
        /\ \A d \in Calls : call'[d] = "new" => work[d] = "none"
    BY <2>1, Settled
  <2>3. \A k \in 1..Len(toHost) : toHost[k] # Ask(c)
    BY <1>1 DEF RpcInv, PipesInv, PipeOK, Ask
  <2>4. /\ Ask(c) \in Msg /\ Ask(c).id = c /\ Ask(c).kind = "ask" /\ work[c] = "none"
        /\ call'[c] # "new"
    BY <1>1, <2>2, Apart DEF Ask, RpcInv, WorkInv
  <2>5. toHost' \in Seq(Msg) /\ PipeOK(toHost', RtCalls, HostCalls, call', work)
    <3>1. /\ Append(toHost, Ask(c)) \in Seq(Msg)
          /\ PipeOK(Append(toHost, Ask(c)), RtCalls, HostCalls, call', work)
      BY <2>2, <2>3, <2>4, PipeWritten DEF RpcInv, Types
    <3> QED
      BY <2>1, <3>1
  <2>6. /\ fut' \in [RtCalls -> {"none", "waits", "result", "error"}]
        /\ parent' \in [RtCalls -> HostCalls \cup {Nobody}]
        /\ \A d \in RtCalls : fut'[d] = "result" => work[d] = "ended"
    BY <2>1 DEF RpcInv, Types, WorkInv
  <2>7. Open(HostCalls)' = Open(HostCalls)
    BY <2>2, Apart DEF Open, Calls
  <2> QED
    BY <1>1, <2>2, <2>5, <2>6, <2>7
       DEF RpcInv, Types, PipesInv, WorkInv, DisposeInv, hostVars
<1>3. CASE host # "up"
  <2>1. Settle({c}, "failed") /\ UNCHANGED <<toHost, fut, parent>>
    BY <1>3 DEF RtCall
  <2>2. /\ call' \in [Calls -> {"new", "open", "answered", "failed"}]
        /\ PipeOK(toRt, HostCalls, RtCalls, call', work)
        /\ PipeOK(toHost, RtCalls, HostCalls, call', work)
        /\ \A d \in Calls : call'[d] = "new" => work[d] = "none"
        /\ Open(HostCalls)' \subseteq Open(HostCalls)
    BY <2>1, Settled
  <2> QED
    BY <1>1, <2>1, <2>2 DEF RpcInv, Types, PipesInv, WorkInv, DisposeInv, hostVars
<1> QED
  BY <1>2, <1>3

\* A request that is read starts its handler; the pipe it is read from holds it
\* no more.
LEMMA Undertaken ==
    ASSUME RpcInv, NEW q \in Seq(Msg), q # <<>>, NEW p \in Seq(Msg),
           NEW mine, NEW theirs, Calls = mine \cup theirs, mine \cap theirs = {},
           PipeOK(q, theirs, mine, call, work), PipeOK(p, mine, theirs, call, work),
           Head(q).kind = "ask", work' = [work EXCEPT ![Head(q).id] = "running"]
    PROVE  /\ Head(q).id \in theirs /\ work[Head(q).id] = "none"
           /\ call[Head(q).id] # "new"
           /\ PipeOK(Tail(q), theirs, mine, call, work')
           /\ PipeOK(p, mine, theirs, call, work')
           /\ work' \in [Calls -> {"none", "running", "ended", "unwritten"}]
           /\ \A d \in Calls : call[d] = "new" => work'[d] = "none"
           /\ \A d \in RtCalls : fut[d] = "result" => work'[d] = "ended"
<1>1. PICK m, rest : m = Head(q) /\ rest = Tail(q)
  OBVIOUS
<1>2. /\ rest \in Seq(Msg) /\ PipeOK(rest, theirs, mine, call, work)
      /\ m \in Msg /\ call[m.id] # "new" /\ m.id \in theirs /\ work[m.id] = "none"
      /\ \A k \in 1..Len(rest) : rest[k] # m
  BY <1>1, PipeRead
<1>3. m.id \in Calls /\ m = Ask(m.id)
  BY <1>1, <1>2 DEF Msg, Ask
<1>4. /\ work' \in [Calls -> {"none", "running", "ended", "unwritten"}]
      /\ \A d \in Calls : d # m.id => work'[d] = work[d]
      /\ \A d \in Calls : work[d] = "ended" => work'[d] = "ended"
      /\ \A d \in Calls : call[d] = "new" => work'[d] = "none"
      /\ \A d \in RtCalls : fut[d] = "result" => work'[d] = "ended"
  BY <1>1, <1>2, <1>3, Worked
<1>5. PipeOK(rest, theirs, mine, call, work')
  <2>1. \A k \in 1..Len(rest) : rest[k] \in Msg /\ rest[k] # m
    BY <1>2
  <2>2. \A n \in Msg : n.id \in Calls /\ (n.kind = "ask" => n = Ask(n.id))
    BY DEF Msg, Ask
  <2>3. \A k \in 1..Len(rest) : rest[k].kind = "ask" => rest[k].id # m.id
    BY <1>3, <2>1, <2>2
  <2>4. ASSUME NEW k \in 1..Len(rest)
        PROVE  /\ rest[k].kind = "ask" => work'[rest[k].id] = "none"
               /\ rest[k].kind = "answer" => work'[rest[k].id] = "ended"
    BY <1>2, <1>4, <2>1, <2>2, <2>3 DEF PipeOK
  <2> QED
    BY <1>2, <2>4 DEF PipeOK
<1>6. PipeOK(p, mine, theirs, call, work')
  <2>1. \A d \in mine : work[d] = "none" => work'[d] = "none"
    BY <1>2, <1>4
  <2>2. \A d \in theirs : work[d] = "ended" => work'[d] = "ended"
    BY <1>4
  <2> QED
    BY <2>1, <2>2, PipeKept
<1> QED
  BY <1>1, <1>2, <1>4, <1>5, <1>6

\* What the host finds at the end of the pipe.
LEMMA HostFinds ==
    ASSUME RpcInv, HostReads
    PROVE  \/ /\ Head(toHost).kind = "ask" /\ call' = call
              /\ work' = [work EXCEPT ![Head(toHost).id] = "running"]
           \/ /\ work' = work /\ Settle(Matched(Head(toHost).id), "answered")
              /\ \A c \in Matched(Head(toHost).id) :
                    /\ Matched(Head(toHost).id) = {c}
                    /\ c \in HostCalls /\ call[c] = "open" /\ work[c] = "ended"
<1>1. PICK m : m = Head(toHost)
  OBVIOUS
<1>2. m.kind = "answer" => m.id \in HostCalls /\ work[m.id] = "ended"
  BY <1>1, PipeRead DEF HostReads, RpcInv, Types, PipesInv
<1>3. \/ m.kind = "ask" /\ call' = call /\ work' = [work EXCEPT ![m.id] = "running"]
      \/ m.kind = "answer" /\ work' = work /\ Settle(Matched(m.id), "answered")
  BY <1>1 DEF HostReads
<1>4. \A c \in Matched(m.id) : c = m.id /\ call[c] = "open" /\ Matched(m.id) = {c}
  BY DEF Matched, Open
<1> QED
  BY <1>1, <1>2, <1>3, <1>4

LEMMA HostReadsInv ==
    ASSUME RpcInv, HostReads
    PROVE  RpcInv'
<1>1. /\ toHost \in Seq(Msg) /\ toHost # <<>> /\ toHost' = Tail(toHost)
      /\ UNCHANGED <<hostVars, proc, toRt, fut, parent>> /\ toRt \in Seq(Msg)
      /\ PipeOK(toHost, RtCalls, HostCalls, call, work)
      /\ PipeOK(toRt, HostCalls, RtCalls, call, work)
  BY DEF HostReads, RpcInv, Types, PipesInv
<1>2. CASE /\ Head(toHost).kind = "ask" /\ call' = call
           /\ work' = [work EXCEPT ![Head(toHost).id] = "running"]
  <2>1. Calls = HostCalls \cup RtCalls /\ HostCalls \cap RtCalls = {}
    BY CallsAssumption DEF Calls
  <2>2. /\ PipeOK(Tail(toHost), RtCalls, HostCalls, call, work')
        /\ PipeOK(toRt, HostCalls, RtCalls, call, work')
        /\ work' \in [Calls -> {"none", "running", "ended", "unwritten"}]
        /\ \A d \in Calls : call[d] = "new" => work'[d] = "none"
        /\ \A d \in RtCalls : fut[d] = "result" => work'[d] = "ended"
    BY <1>1, <1>2, <2>1, Undertaken
  <2>3. Open(HostCalls)' = Open(HostCalls) /\ Tail(toHost) \in Seq(Msg)
    BY <1>1, <1>2, PipeRead DEF Open
  <2> QED
    BY <1>1, <1>2, <2>2, <2>3 DEF RpcInv, Types, PipesInv, WorkInv, DisposeInv, hostVars
<1>3. CASE work' = work /\ Settle(Matched(Head(toHost).id), "answered")
  <2>1. /\ call' \in [Calls -> {"new", "open", "answered", "failed"}]
        /\ PipeOK(toRt, HostCalls, RtCalls, call', work)
        /\ PipeOK(toHost, RtCalls, HostCalls, call', work)
        /\ \A d \in Calls : call'[d] = "new" => work[d] = "none"
        /\ Open(HostCalls)' \subseteq Open(HostCalls)
    BY <1>3, Settled
  <2>2. /\ Tail(toHost) \in Seq(Msg)
        /\ PipeOK(Tail(toHost), RtCalls, HostCalls, call', work)
    BY <1>1, <2>1, PipeRead
  <2> QED
    BY <1>1, <1>3, <2>1, <2>2 DEF RpcInv, Types, PipesInv, WorkInv, DisposeInv, hostVars
<1> QED
  BY <1>2, <1>3, HostFinds

LEMMA RtReadsInv ==
    ASSUME RpcInv, RtReads
    PROVE  RpcInv'
<1>1. /\ toRt \in Seq(Msg) /\ toRt # <<>> /\ toRt' = Tail(toRt)
      /\ UNCHANGED <<hostVars, proc, toHost, call, parent>> /\ toHost \in Seq(Msg)
      /\ PipeOK(toHost, RtCalls, HostCalls, call, work)
      /\ PipeOK(toRt, HostCalls, RtCalls, call, work)
  BY DEF RtReads, RpcInv, Types, PipesInv
<1>2. Open(HostCalls)' = Open(HostCalls) /\ Tail(toRt) \in Seq(Msg)
  BY <1>1, PipeRead DEF Open
<1>3. CASE /\ Head(toRt).kind = "ask" /\ fut' = fut
           /\ work' = [work EXCEPT ![Head(toRt).id] = "running"]
  <2>1. Calls = RtCalls \cup HostCalls /\ RtCalls \cap HostCalls = {}
    BY CallsAssumption DEF Calls
  <2>2. /\ PipeOK(Tail(toRt), HostCalls, RtCalls, call, work')
        /\ PipeOK(toHost, RtCalls, HostCalls, call, work')
        /\ work' \in [Calls -> {"none", "running", "ended", "unwritten"}]
        /\ \A d \in Calls : call[d] = "new" => work'[d] = "none"
        /\ \A d \in RtCalls : fut[d] = "result" => work'[d] = "ended"
    BY <1>1, <1>3, <2>1, Undertaken
  <2> QED
    BY <1>1, <1>2, <1>3, <2>2 DEF RpcInv, Types, PipesInv, WorkInv, DisposeInv, hostVars
<1>4. CASE Head(toRt).kind = "answer" /\ ~(Head(toRt).kind = "ask")
  <2>1. PICK m : m = Head(toRt)
    OBVIOUS
  <2>2. m.id \in RtCalls /\ work[m.id] = "ended"
    BY <1>1, <1>4, <2>1, PipeRead
  <2>3. /\ work' = work
        /\ fut' = [fut EXCEPT ![m.id] =
                      IF call[m.id] = "open" /\ fut[m.id] = "waits" THEN "result" ELSE @]
    BY <1>4, <2>1 DEF RtReads, OnLine
  <2>4. /\ fut' \in [RtCalls -> {"none", "waits", "result", "error"}]
        /\ \A d \in RtCalls : fut'[d] = "result" => work[d] = "ended"
    BY <2>2, <2>3 DEF RpcInv, Types, WorkInv
  <2>5. PipeOK(Tail(toRt), HostCalls, RtCalls, call, work)
    BY <1>1, PipeRead
  <2> QED
    BY <1>1, <1>2, <2>3, <2>4, <2>5
       DEF RpcInv, Types, PipesInv, WorkInv, DisposeInv, hostVars
<1> QED
  BY <1>3, <1>4 DEF RtReads, OnLine

\* A handler that ends writes its answer, if it can be written.
LEMMA Answers ==
    ASSUME RpcInv, NEW c \in Calls, work[c] = "running",
           NEW q \in Seq(Msg), NEW asking, NEW asked, c \in asked,
           PipeOK(q, asking, asked, call, work'),
           work'[c] = "ended"
    PROVE  /\ Append(q, Reply(c)) \in Seq(Msg)
           /\ PipeOK(Append(q, Reply(c)), asking, asked, call, work')
<1>1. /\ Reply(c) \in Msg /\ Reply(c).kind = "answer" /\ Reply(c).id = c
      /\ Reply(c).kind # "ask"
  BY Apart DEF Reply
<1>2. call[c] # "new"
  BY DEF RpcInv, WorkInv
<1> HIDE DEF Reply
<1> QED
  BY <1>1, <1>2, PipeWritten

LEMMA HostServedInv ==
    ASSUME RpcInv, NEW c \in RtCalls, HostServed(c)
    PROVE  RpcInv'
<1>1. /\ c \in Calls /\ work[c] = "running" /\ work' = [work EXCEPT ![c] = "ended"]
      /\ UNCHANGED <<hostVars, proc, toHost, call, fut, parent>>
      /\ toRt' = Append(toRt, Reply(c)) \/ toRt' = toRt
  BY DEF HostServed, Send, Calls
<1>2. /\ work' \in [Calls -> {"none", "running", "ended", "unwritten"}]
      /\ work'[c] = "ended"
      /\ \A d \in Calls : call[d] = "new" => work'[d] = "none"
      /\ \A d \in RtCalls : fut[d] = "result" => work'[d] = "ended"
      /\ PipeOK(toRt, HostCalls, RtCalls, call, work')
      /\ PipeOK(toHost, RtCalls, HostCalls, call, work')
  BY <1>1, Worked
<1>3. toRt' \in Seq(Msg) /\ PipeOK(toRt', HostCalls, RtCalls, call, work')
  <2>1. /\ Append(toRt, Reply(c)) \in Seq(Msg)
        /\ PipeOK(Append(toRt, Reply(c)), HostCalls, RtCalls, call, work')
    BY <1>1, <1>2, Answers DEF RpcInv, Types
  <2> QED
    BY <1>1, <1>2, <2>1 DEF RpcInv, Types
<1>4. Open(HostCalls)' = Open(HostCalls)
  BY <1>1 DEF Open
<1> QED
  BY <1>1, <1>2, <1>3, <1>4 DEF RpcInv, Types, PipesInv, WorkInv, DisposeInv, hostVars

LEMMA RtServedInv ==
    ASSUME RpcInv, NEW h \in HostCalls, RtServed(h)
    PROVE  RpcInv'
<1>1. PICK stage \in {"ended", "unwritten"} :
        /\ work' = [work EXCEPT ![h] = stage]
        /\ (stage = "ended" /\ toHost' = Append(toHost, Reply(h))) \/ toHost' = toHost
  BY DEF RtServed
<1>2. /\ h \in Calls /\ work[h] = "running"
      /\ UNCHANGED <<hostVars, proc, toRt, call, fut, parent>>
  BY DEF RtServed, Calls
<1>3. /\ work' \in [Calls -> {"none", "running", "ended", "unwritten"}]
      /\ work'[h] = stage
      /\ \A d \in Calls : call[d] = "new" => work'[d] = "none"
      /\ \A d \in RtCalls : fut[d] = "result" => work'[d] = "ended"
      /\ PipeOK(toRt, HostCalls, RtCalls, call, work')
      /\ PipeOK(toHost, RtCalls, HostCalls, call, work')
  BY <1>1, <1>2, Worked
<1>4. toHost' \in Seq(Msg) /\ PipeOK(toHost', RtCalls, HostCalls, call, work')
  <2>1. stage = "ended" =>
          /\ Append(toHost, Reply(h)) \in Seq(Msg)
          /\ PipeOK(Append(toHost, Reply(h)), RtCalls, HostCalls, call, work')
    BY <1>2, <1>3, Answers DEF RpcInv, Types
  <2> QED
    BY <1>1, <1>3, <2>1 DEF RpcInv, Types
<1>5. Open(HostCalls)' = Open(HostCalls)
  BY <1>2 DEF Open
<1> QED
  BY <1>2, <1>3, <1>4, <1>5 DEF RpcInv, Types, PipesInv, WorkInv, DisposeInv, hostVars

LEMMA Stutters ==
    ASSUME RpcInv, UNCHANGED vars
    PROVE  RpcInv'
<1>1. Open(HostCalls)' = Open(HostCalls)
  BY DEF Open, vars
<1> QED
  BY <1>1 DEF RpcInv, Types, PipesInv, WorkInv, DisposeInv, vars, hostVars

LEMMA NextRpc == RpcInv /\ Next => RpcInv'
<1> SUFFICES ASSUME RpcInv, Next PROVE RpcInv'
  OBVIOUS
<1>1. CASE HostReads
  BY <1>1, HostReadsInv
<1>2. CASE ExitEvent \/ HostEnds \/ \E h \in HostCalls : HostTimeout(h)
  BY <1>2, HostSettles
<1>3. CASE Dispose \/ Eof
  BY <1>3, EndsMeet
<1>4. CASE \E h \in HostCalls : Start(h) \/ HostCall(h)
  BY <1>4, HostAsks
<1>5. CASE \E h \in HostCalls : RtServed(h)
  BY <1>5, RtServedInv
<1>6. CASE RtReads
  BY <1>6, RtReadsInv
<1>7. CASE RtEnds \/ \E c \in RtCalls : RtResumes(c) \/ RtTimeout(c)
  BY <1>7, RtSettles
<1>8. CASE \E c \in RtCalls : HostServed(c)
  BY <1>8, HostServedInv
<1>9. CASE \E c \in RtCalls : \E p \in HostCalls \cup {Nobody} : RtCall(c, p)
  BY <1>9, RtAsks
<1>10. CASE Ended
  BY <1>10, Stutters DEF Ended
<1> QED
  BY <1>1, <1>2, <1>3, <1>4, <1>5, <1>6, <1>7, <1>8, <1>9, <1>10 DEF Next

\* The lines in the pipes and the calls behind them always agree (RpcInv), for
\* any numbers of calls in both directions at once.
THEOREM RpcInvariance == Spec => []RpcInv
<1>1. RpcInv /\ [Next]_vars => RpcInv'
  BY NextRpc, Stutters
<1> QED
  BY InitRpc, <1>1, PTL DEF Spec

\* Every line in a pipe has a call behind it: an ask one whose work has not begun,
\* an answer one whose work has ended (rpc-client.ts:87, rpc.py:51).
THEOREM RpcTypeCorrect == Spec => []TypeOK
<1>1. RpcInv => TypeOK
  <2> SUFFICES ASSUME RpcInv PROVE TypeOK
    OBVIOUS
  <2>1. ASSUME NEW m \in Contents(toRt) \cup Contents(toHost)
        PROVE  /\ call[m.id] # "new"
               /\ work[m.id] = IF m.kind = "ask" THEN "none" ELSE "ended"
    <3>1. PICK q \in {toRt, toHost} : \E k \in 1..Len(q) : q[k] = m
      BY DEF Contents, RpcInv, Types
    <3>2. m \in Msg
      BY <3>1 DEF RpcInv, Types
    <3>3. m.kind \in {"ask", "answer"}
      BY <3>2 DEF Msg
    <3> QED
      BY <3>1, <3>3 DEF RpcInv, PipesInv, PipeOK
  <2> QED
    BY <2>1 DEF TypeOK, RpcInv, Types
<1> QED
  BY <1>1, RpcInvariance, PTL

\* When dispose has returned, the process is gone and no call of the host is
\* left open, whatever was in flight (rpc-client.ts:47).
THEOREM DisposedIsQuietHolds == Spec => []DisposedIsQuiet
<1>1. RpcInv => DisposedIsQuiet
  BY DEF RpcInv, DisposeInv, DisposedIsQuiet
<1> QED
  BY <1>1, RpcInvariance, PTL

-----------------------------------------------------------------------------
(* The refinement *)

Shown == [c \in Calls |-> IF work[c] = "unwritten" THEN "ended" ELSE work[c]]

\* Calls that fail together look so to their callers.
LEMMA LooksFailed ==
    ASSUME RpcInv, NEW F, F \cap Calls \subseteq {c \in Calls : call[c] \in {"new", "open"}},
           Settle(F, "failed"), work' = work
    PROVE  Promise!Fail
<1>1. F \cap Calls \in SUBSET {c \in Calls : call[c] \in {"new", "open"}}
  OBVIOUS
<1>2. call' = [c \in Calls |-> IF c \in F \cap Calls THEN "failed" ELSE call[c]]
  BY DEF Settle
<1>3. Shown' = Shown
  BY DEF Shown
<1> QED
  BY <1>1, <1>2, <1>3 DEF Promise!Fail, Shown

LEMMA LooksAsked ==
    ASSUME RpcInv, NEW c \in Calls, call[c] = "new", Settle({c}, "open"), work' = work
    PROVE  Promise!Ask(c)
<1>1. call' = [call EXCEPT ![c] = "open"]
  BY DEF Settle, RpcInv, Types
<1>2. Shown' = Shown
  BY DEF Shown
<1> QED
  BY <1>1, <1>2 DEF Promise!Ask, Shown

LEMMA LooksAnswered ==
    ASSUME RpcInv, NEW c \in Calls, call[c] = "open", work[c] = "ended",
           Settle({c}, "answered"), work' = work
    PROVE  Promise!Answered(c)
<1>1. call' = [call EXCEPT ![c] = "answered"]
  BY DEF Settle, RpcInv, Types
<1>2. Shown' = Shown /\ Shown[c] = "ended"
  BY DEF Shown
<1> QED
  BY <1>1, <1>2 DEF Promise!Answered, Shown

LEMMA LooksWorked ==
    ASSUME RpcInv, NEW c \in Calls, NEW stage \in {"running", "ended", "unwritten"},
           work' = [work EXCEPT ![c] = stage], call' = call,
           \/ /\ work[c] = "none" /\ stage = "running"
              /\ call[c] # "new"
           \/ work[c] = "running" /\ stage # "running"
    PROVE  Promise!Undertake(c) \/ Promise!Complete(c)
<1>1. Shown' = [Shown EXCEPT ![c] = IF stage = "running" THEN "running" ELSE "ended"]
  BY DEF Shown, RpcInv, Types
<1>2. Shown[c] = work[c]
  BY DEF Shown
<1> QED
  BY <1>1, <1>2 DEF Promise!Undertake, Promise!Complete, Shown

LEMMA LooksStill ==
    ASSUME call' = call, work' = work
    PROVE  UNCHANGED Promise!cvars
BY DEF Promise!cvars

LEMMA StepsLook ==
    ASSUME RpcInv, Next
    PROVE  Promise!CNext \/ UNCHANGED Promise!cvars
<1> USE DEF Promise!CNext
<1>1. HostCalls \subseteq Calls /\ RtCalls \subseteq Calls
  BY DEF Calls
<1>2. \A m \in Msg : m.id \in Calls
  BY DEF Msg
<1>3. CASE ExitEvent \/ HostEnds \/ RtEnds
  <2>1. PICK F \in SUBSET Calls : F \in {Open(HostCalls), Open(RtCalls)} /\ Settle(F, "failed")
    BY <1>1, <1>3 DEF ExitEvent, HostEnds, RtEnds, Open
  <2>2. F \subseteq {c \in Calls : call[c] \in {"new", "open"}} /\ work' = work
    BY <1>3, <2>1 DEF Open, ExitEvent, HostEnds, RtEnds
  <2> QED
    BY <2>1, <2>2, LooksFailed
<1>4. CASE \/ \E h \in HostCalls : HostTimeout(h)
           \/ \E c \in RtCalls : RtTimeout(c)
  <2>1. PICK c \in Calls : call[c] = "open" /\ Settle({c}, "failed") /\ work' = work
    BY <1>1, <1>4 DEF HostTimeout, RtTimeout
  <2> QED
    BY <2>1, LooksFailed
<1>5. CASE \E h \in HostCalls : Start(h) \/ HostCall(h)
  <2>1. PICK h \in Calls : call[h] = "new" /\ Settle({h}, "open") /\ work' = work
    BY <1>1, <1>5 DEF Start, HostCall
  <2> QED
    BY <2>1, LooksAsked
<1>6. CASE \E c \in RtCalls : \E p \in HostCalls \cup {Nobody} : RtCall(c, p)
  <2>1. PICK c \in Calls : /\ call[c] = "new" /\ work' = work
                           /\ Settle({c}, "open") \/ Settle({c}, "failed")
    BY <1>1, <1>6 DEF RtCall
  <2> QED
    BY <2>1, LooksAsked, LooksFailed
<1>7. CASE \E c \in RtCalls : RtResumes(c)
  <2>1. PICK c \in RtCalls : /\ call[c] = "open" /\ work' = work
                             /\ \/ fut[c] = "result" /\ Settle({c}, "answered")
                                \/ Settle({c}, "failed")
    BY <1>7 DEF RtResumes
  <2>2. c \in Calls /\ (fut[c] = "result" => work[c] = "ended")
    BY <1>1, <2>1 DEF RpcInv, WorkInv
  <2> QED
    BY <2>1, <2>2, LooksAnswered, LooksFailed
<1>8. CASE \/ \E c \in RtCalls : HostServed(c)
           \/ \E h \in HostCalls : RtServed(h)
  <2>1. PICK c \in Calls, stage \in {"ended", "unwritten"} :
          work' = [work EXCEPT ![c] = stage] /\ work[c] = "running" /\ call' = call
    BY <1>1, <1>8 DEF HostServed, RtServed
  <2> QED
    BY <2>1, LooksWorked
<1>9. CASE HostReads
  <2>1. CASE /\ Head(toHost).kind = "ask" /\ call' = call
             /\ work' = [work EXCEPT ![Head(toHost).id] = "running"]
    <3>1. PICK c \in Calls : /\ work' = [work EXCEPT ![c] = "running"]
                             /\ work[c] = "none" /\ call[c] # "new"
      <4>1. /\ Head(toHost) \in Msg /\ Head(toHost).id \in RtCalls
            /\ call[Head(toHost).id] # "new" /\ work[Head(toHost).id] = "none"
        BY <1>9, <2>1, PipeRead DEF HostReads, RpcInv, Types, PipesInv
      <4> QED
        BY <1>2, <2>1, <4>1
    <3> QED
      BY <2>1, <3>1, LooksWorked
  <2>2. CASE /\ work' = work /\ Settle(Matched(Head(toHost).id), "answered")
             /\ \A c \in Matched(Head(toHost).id) :
                   /\ Matched(Head(toHost).id) = {c}
                   /\ c \in HostCalls /\ call[c] = "open" /\ work[c] = "ended"
    <3>1. CASE Matched(Head(toHost).id) = {}
      <4>1. call' = call
        BY <2>2, <3>1 DEF Settle, RpcInv, Types
      <4> QED
        BY <2>2, <4>1, LooksStill
    <3>2. CASE \E c : c \in Matched(Head(toHost).id)
      <4>1. PICK c \in Calls : /\ Settle({c}, "answered") /\ work' = work
                               /\ call[c] = "open" /\ work[c] = "ended"
        BY <1>1, <2>2, <3>2
      <4> QED
        BY <4>1, LooksAnswered
    <3> QED
      BY <3>1, <3>2
  <2> QED
    BY <1>9, <2>1, <2>2, HostFinds
<1>10. CASE RtReads
  <2>1. call' = call
    BY <1>10 DEF RtReads
  <2>2. CASE work' = [work EXCEPT ![Head(toRt).id] = "running"] /\ Head(toRt).kind = "ask"
    <3>1. PICK c \in Calls : /\ work' = [work EXCEPT ![c] = "running"]
                             /\ work[c] = "none" /\ call[c] # "new"
      <4>1. /\ Head(toRt) \in Msg /\ Head(toRt).id \in HostCalls
            /\ call[Head(toRt).id] # "new" /\ work[Head(toRt).id] = "none"
        BY <1>10, <2>2, PipeRead DEF RtReads, RpcInv, Types, PipesInv
      <4> QED
        BY <1>2, <2>2, <4>1
    <3> QED
      BY <2>1, <3>1, LooksWorked
  <2>3. CASE work' = work
    BY <2>1, <2>3, LooksStill
  <2> QED
    BY <1>10, <2>2, <2>3 DEF RtReads, OnLine
<1>11. CASE Dispose \/ Eof \/ Ended
  <2>1. call' = call /\ work' = work
    BY <1>11 DEF Dispose, Eof, Ended, vars
  <2> QED
    BY <2>1, LooksStill
<1> QED
  BY <1>3, <1>4, <1>5, <1>6, <1>7, <1>8, <1>9, <1>10, <1>11 DEF Next

\* Every call, in either direction, is carried out at most once, ends once, and
\* is answered by its own completion only, whatever is late, lost, timed out,
\* ended or disposed of.
THEOREM ChannelKeepsPromise == Spec => ImplementsCalls
<1>1. Init => Promise!CInit
  <2> SUFFICES ASSUME Init PROVE Promise!CInit
    OBVIOUS
  <2>1. Shown = [c \in Calls |-> "none"]
    BY DEF Init, Shown
  <2> QED
    BY <2>1 DEF Init, Promise!CInit, Shown
<1>2. RpcInv /\ [Next]_vars => [Promise!CNext]_(Promise!cvars)
  <2>1. UNCHANGED vars => UNCHANGED Promise!cvars
    BY LooksStill DEF vars
  <2> QED
    BY <2>1, StepsLook
<1> QED
  BY <1>1, <1>2, RpcInvariance, PTL DEF Spec, ImplementsCalls, Promise!CSpec

=============================================================================
