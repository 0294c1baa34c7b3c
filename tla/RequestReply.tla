------------------------------ MODULE RequestReply ------------------------------
(***************************************************************************)
(* What the buyer's backend promises the frontend: a call asks about a     *)
(* subject (a route of a transaction) and ends exactly once, either with   *)
(* an answer the insurer really sent about that subject or with a failure. *)
(* CallbackBridge implements this specification (see its RR instance).     *)
(***************************************************************************)

CONSTANTS
    Request,      \* calls of the frontend
    Slot,         \* what a call may be about
    Open,         \* outcome of a call that was not made, or has not ended
    Failed        \* outcome of a call that ended with an error

VARIABLES
    subject,      \* what each call is about
    asked,        \* calls that went out to the insurer
    sent,         \* calls the insurer has answered
    outcome       \* Open, Failed, or the call whose answer was returned

vars == <<subject, asked, sent, outcome>>

Init ==
    /\ subject \in [Request -> Slot]
    /\ asked = {}
    /\ sent = {}
    /\ outcome = [r \in Request |-> Open]

\* The frontend's call r goes out.
Ask(r) ==
    /\ r \notin asked
    /\ asked' = asked \cup {r}
    /\ UNCHANGED <<subject, sent, outcome>>

\* The insurer answers a call that went out.
Answer(r) ==
    /\ r \in asked
    /\ sent' = sent \cup {r}
    /\ UNCHANGED <<subject, asked, outcome>>

\* Call r returns the answer to a call about the same subject: its own, or that
\* of another attempt.
Return(r, q) ==
    /\ r \in asked /\ outcome[r] = Open
    /\ q \in sent /\ subject[q] = subject[r]
    /\ outcome' = [outcome EXCEPT ![r] = q]
    /\ UNCHANGED <<subject, asked, sent>>

\* Some open calls end with an error: one of them, or all when the backend goes
\* down.
Fail(R) ==
    /\ \A r \in R : r \in asked /\ outcome[r] = Open
    /\ outcome' = [r \in Request |-> IF r \in R THEN Failed ELSE outcome[r]]
    /\ UNCHANGED <<subject, asked, sent>>

Next ==
    \/ \E r \in Request : Ask(r) \/ Answer(r)
    \/ \E r, q \in Request : Return(r, q)
    \/ \E R \in SUBSET Request : Fail(R)

Safe == Init /\ [][Next]_vars

\* Every call that went out ends.
Spec == Safe /\ \A r \in Request : WF_vars(Fail({r}) \/ \E q \in Request : Return(r, q))
=================================================================================
