------------------------------- MODULE CallSpec -------------------------------
(***************************************************************************)
(* What a caller may expect of a remote call, in either direction: it is   *)
(* carried out at most once, it ends at most once, and only its own        *)
(* completion answers it.  It may fail at any time, also when it was or is *)
(* still going to be carried out.                                          *)
(***************************************************************************)
CONSTANT Calls

VARIABLES
    outcome,   \* of each call, for its caller
    work       \* of each call, on the side that serves it

cvars == <<outcome, work>>

CInit ==
    /\ outcome = [c \in Calls |-> "new"]
    /\ work = [c \in Calls |-> "none"]

Ask(c) ==
    /\ outcome[c] = "new"
    /\ outcome' = [outcome EXCEPT ![c] = "open"]
    /\ UNCHANGED work

\* Also for a caller that has given up meanwhile.
Undertake(c) ==
    /\ outcome[c] # "new" /\ work[c] = "none"
    /\ work' = [work EXCEPT ![c] = "running"]
    /\ UNCHANGED outcome

Complete(c) ==
    /\ work[c] = "running"
    /\ work' = [work EXCEPT ![c] = "ended"]
    /\ UNCHANGED outcome

Answered(c) ==
    /\ outcome[c] = "open" /\ work[c] = "ended"
    /\ outcome' = [outcome EXCEPT ![c] = "answered"]
    /\ UNCHANGED work

\* One, or all that are open at once; one that fails as it is made, too.
Fail ==
    /\ \E F \in SUBSET {c \in Calls : outcome[c] \in {"new", "open"}} :
          outcome' = [c \in Calls |-> IF c \in F THEN "failed" ELSE outcome[c]]
    /\ UNCHANGED work

CNext == Fail \/ \E c \in Calls : Ask(c) \/ Undertake(c) \/ Complete(c) \/ Answered(c)

CSpec == CInit /\ [][CNext]_cvars
=============================================================================
