----------------------------- MODULE BrokerServer -----------------------------
(***************************************************************************)
(* Brokered operations: BrokerServer.handle_call (broker/server.py) with   *)
(* BrokerPolicy and the ProviderRegistry, composed with the lease gateway  *)
(* it asks for a lease, for all instances that share the gateway.          *)
(*                                                                         *)
(* A slot of Requests is here a connection to some instance's broker.sock: *)
(* it carries one broker.call after the other, and a container may open    *)
(* several.  The lease part of a call is the LeaseGateway request in the   *)
(* same slot.  The CapsuleManager appears as the context that it sets and  *)
(* clears on each server; the credential service and the provider answer   *)
(* when they like, within the time limits of the runtime.                  *)
(***************************************************************************)
EXTENDS LeaseGateway

CONSTANTS
    Manifest,     \* of each instance: its capsule and the credentials declared
    Params,       \* what a container may send: [provider, target, action]
    BadParams,    \* those of Params that are no well-formed broker.call
    Registered,   \* the providers that have an adapter
    NoSession     \* no call context, or a call without a session

Servers == DOMAIN Manifest

ASSUME ManifestAssumption ==
    /\ Servers # {} /\ Params # {} /\ Servers \subseteq Instances
    /\ NoSession \notin Sessions
    /\ \A i \in Servers : DOMAIN Manifest[i].creds \subseteq Nat   \* a list
    /\ \A i \in Servers : \A k \in DOMAIN Manifest[i].creds :
          Manifest[i].creds[k].ttl \in Int

\* Scopes holds at least what a container may ask for and the manifest declares.
ASSUME ScopesCover ==
    \A i \in Servers, ses \in Sessions, p \in Params \ BadParams :
        \A k \in DOMAIN Manifest[i].creds :
            LET cred == Manifest[i].creds[k] IN
            cred.provider = p.provider /\ p.action \in cred.actions =>
                [capsule |-> Manifest[i].capsule, instance |-> i, session |-> ses,
                 target |-> p.target, action |-> p.action, ttl |-> cred.ttl] \in Scopes

VARIABLES
    ctx,      \* the session each server has as its call context
    call      \* the broker.call on each connection

bvars == <<ctx, call>>
allVars == <<vars, ctx, call>>

\* What the answer says, result or error, is left out: no step depends on it.
CallType == [pc : {"idle", "lease", "credential", "execute", "respond"},
             server : Servers, param : Params]
NoCall == [pc |-> "idle", server |-> CHOOSE i \in Servers : TRUE,
           param |-> CHOOSE p \in Params : TRUE]

BInit ==
    /\ Init
    /\ ctx = [i \in Servers |-> NoSession]
    /\ call = [r \in Requests |-> NoCall]

-----------------------------------------------------------------------------
(* handle_call *)

\* The entries of the manifest for the provider.  Only the first one counts.
Entries(i, p) == {k \in DOMAIN Manifest[i].creds :
                     Manifest[i].creds[k].provider = p.provider}
First(i, p)   == Manifest[i].creds[CHOOSE k \in Entries(i, p) :
                                      \A j \in Entries(i, p) : k <= j]

\* Slip: a declared provider is enough.
PermitsProvider(i, p) == Entries(i, p) # {}
\* BrokerPolicy.check
Permits(i, p) == Entries(i, p) # {} /\ p.action \in First(i, p).actions

Scope(i, ses, p) ==
    [capsule |-> Manifest[i].capsule, instance |-> i, session |-> ses,
     target |-> p.target, action |-> p.action, ttl |-> First(i, p).ttl]

Steps(r, c) == call' = [call EXCEPT ![r] = c]
Respond(r) == Steps(r, [call[r] EXCEPT !.pc = "respond"])

\* What handle_call checks before it asks for a lease.
Refused(i, p) ==
    \/ p \in BadParams
    \/ ~Permits(i, p)
    \/ ctx[i] = NoSession

\* A broker.call arrives: it is refused, or asks for a lease in the session of
\* the moment.
Receive(r, i, p) ==
    /\ call[r].pc = "idle"
    /\ \/ /\ Refused(i, p)
          /\ Steps(r, [NoCall EXCEPT !.pc = "respond"])
          /\ UNCHANGED vars
       \/ /\ ~Refused(i, p)
          /\ Begin(r, Scope(i, ctx[i], p))
          /\ Steps(r, [pc |-> "lease", server |-> i, param |-> p])
    /\ UNCHANGED ctx

LeaseStep(r) == Run(r) /\ UNCHANGED bvars

\* Slip: an error of the gateway is logged and swallowed.
GrantedAnyway(r) ==
    /\ call[r].pc = "lease" /\ At(r, "answered")
    /\ Steps(r, [call[r] EXCEPT !.pc = "credential"])
    /\ UNCHANGED <<vars, ctx>>

\* The gateway returned a lease: the credential is resolved, for this operation.
Granted(r) ==
    /\ call[r].pc = "lease" /\ req[r].answer = "GRANTED"
    /\ \/ /\ call[r].param.provider \in Registered
          /\ Steps(r, [call[r] EXCEPT !.pc = "credential"])
       \/ /\ call[r].param.provider \notin Registered
          /\ Respond(r)
    /\ UNCHANGED <<vars, ctx>>

NotGranted(r) ==
    /\ call[r].pc = "lease" /\ req[r].answer \in Refusals
    /\ Respond(r)
    /\ UNCHANGED <<vars, ctx>>

\* The host sends a value, and the provider is called with it at once.
CredentialArrives(r) ==
    /\ call[r].pc = "credential"
    /\ Steps(r, [call[r] EXCEPT !.pc = "execute"])
    /\ UNCHANGED <<vars, ctx>>

\* An error, an empty value, or no answer in time.
CredentialFails(r) ==
    /\ call[r].pc = "credential"
    /\ Respond(r)
    /\ UNCHANGED <<vars, ctx>>

\* wait_for ends the provider's part; a result over the limit is an error.
Executed(r) ==
    /\ call[r].pc = "execute"
    /\ Respond(r)
    /\ UNCHANGED <<vars, ctx>>

\* The line is written (or the connection is gone) and the next one is read.
\* A container that does not read holds this step, for as long as it likes
\* (server.py:111): the step is not fair.
Written(r) ==
    /\ call[r].pc = "respond"
    /\ Steps(r, NoCall)
    /\ IF At(r, "answered") THEN Return(r) ELSE UNCHANGED vars
    /\ UNCHANGED ctx

-----------------------------------------------------------------------------
(* The manager, and the rest of the world *)

BeginCall(i, ses) ==
    /\ ctx[i] = NoSession
    /\ ctx' = [ctx EXCEPT ![i] = ses]
    /\ UNCHANGED <<vars, call>>

\* Also when the call failed, or ran out of time.
EndCall(i) ==
    /\ ctx[i] # NoSession
    /\ ctx' = [ctx EXCEPT ![i] = NoSession]
    /\ UNCHANGED <<vars, call>>

Outside ==
    \/ \E k \in DOMAIN asks : Decide(k)
    \/ \E i \in Ids : Revoke(i)
    \/ \E ses \in Sessions : RevokeSession(ses)
    \/ \E c \in Capsules : RevokeCapsule(c)
    \/ Tick

BRestart ==
    /\ Restart
    /\ ctx' = [i \in Servers |-> NoSession]
    /\ call' = [r \in Requests |-> NoCall]

Handle(r) == \/ LeaseStep(r) \/ Granted(r) \/ NotGranted(r) \/ CredentialFails(r)
             \/ Executed(r)

Serve(r) == Handle(r) \/ Written(r)

\* The runtime also takes lease.request from the host, on the same gateway
\* (main.py:23-41).  The plugin never sends one and it is no step here: whoever
\* does, names capsule, instance and session as it likes.  What the gateway
\* keeps under any such requests is in LeaseGateway.
BNext ==
    \/ \E r \in Requests : \/ Serve(r) \/ CredentialArrives(r)
                           \/ \E i \in Servers, p \in Params : Receive(r, i, p)
    \/ \E i \in Servers : EndCall(i) \/ \E ses \in Sessions : BeginCall(i, ses)
    \/ Outside /\ UNCHANGED bvars
    \/ BRestart

BSpec == BInit /\ [][BNext]_allVars

\* The loop serves every connection, and the waits for a decision (300 s), for a
\* credential (30 s) and for the provider (15 s) have time limits; nothing
\* obliges the host to decide or to send a credential.  It has to read its pipe,
\* though: the request to it is flushed without a limit (rpc.py:88).
BFairSpec == BSpec /\ \A r \in Requests : WF_allVars(Handle(r))

-----------------------------------------------------------------------------
(* Properties *)

Executes(r) == call[r].pc = "credential" /\ call'[r].pc = "execute"

\* Types of the variables; a call past its checks has its request in its slot.
BTypeOK ==
    /\ TypeOK
    /\ ctx \in [Servers -> Sessions \cup {NoSession}]
    /\ call \in [Requests -> CallType]
    /\ \A r \in Requests :
          /\ call[r].pc \in {"credential", "execute"} => req[r].answer = "GRANTED"
          /\ ~At(r, "idle") => req[r].scope.instance = call[r].server

\* No operation reaches the credential or the provider without its warrant
\* (handle_call, README:338-339): the lease it runs on belongs to the calling
\* instance, its capsule and the session it was received in, covers the target
\* and the action, was issued on an approval the host gave for them, and the
\* manifest declares them.
Warranted ==
    \A r \in Requests : call[r].pc \in {"credential", "execute"} =>
        LET i == call[r].server  p == call[r].param  row == db[req[r].seen.id]
        IN  /\ row.instance = i /\ row.capsule = Manifest[i].capsule
            /\ row.session = req[r].scope.session
            /\ row.target = p.target /\ p.action \in row.actions
            /\ asks[row.ask].decision = "allowed"
            /\ asks[row.ask].target = p.target /\ asks[row.ask].action = p.action
            /\ \E k \in Entries(i, p) : p.action \in Manifest[i].creds[k].actions

\* The use of an expired or revoked lease is refused (README:340).
LiveWhenUsed == [][\A r \in Requests : Executes(r) => Live(req[r].seen.id)]_allVars

\* Every broker.call comes to its answer, or its process ends, whatever the host
\* decides and however late.  Whether the container then reads the answer is up
\* to the container.
EveryCallAnswered ==
    \A r \in Requests : (call[r].pc \in {"lease", "credential", "execute"})
                           ~> (call[r].pc \in {"respond", "idle"})
=============================================================================
