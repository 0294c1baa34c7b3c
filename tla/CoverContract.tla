----------------------------- MODULE CoverContract -----------------------------
(***************************************************************************)
(* What the insurer promises about money and cover, with every mechanism   *)
(* left out.  A request is an init, which asks for a policy, or a confirm, *)
(* which orders it; requests come at any time and may come to nothing.  A  *)
(* premium is held only for a policy that was asked for; cover begins only *)
(* by a confirm under way and when the premium is held; it ends only by an *)
(* init under way; each request does either at most once, and neither a    *)
(* premium nor a number is taken back.  PolicyLifecycle implements this    *)
(* specification (see its COVER instance), and so does the insurer whom    *)
(* the buyer's backend talks to, one step per request, in                  *)
(* TransactionService (see COVER in PurchaseWizardProofs).                 *)
(***************************************************************************)

CONSTANTS
    Txn,        \* the transactions the insurer may see
    Call        \* what tells the requests under way at a time apart

VARIABLES known,    \* transactions for which a policy has been asked
          held,     \* transactions whose premium has been reported as held
          covered,  \* transactions that have been given a policy number
          inForce,  \* transactions whose policy is active
          inits,    \* the inits under way: <<call, transaction>>
          confirms  \* the confirms under way: <<call, transaction>>

vars == <<known, held, covered, inForce, inits, confirms>>

\* No money is held and no cover exists before the first request.
Init ==
    /\ known = {} /\ held = {} /\ covered = {} /\ inForce = {}
    /\ inits = {} /\ confirms = {}

\* A request comes, as a call that no request under way goes by.
Come(c, t) ==
    /\ \A u \in Txn : <<c, u>> \notin inits \cup confirms
    /\ \/ inits' = inits \cup {<<c, t>>} /\ UNCHANGED confirms
       \/ confirms' = confirms \cup {<<c, t>>} /\ UNCHANGED inits
    /\ UNCHANGED <<known, held, covered, inForce>>

\* Requests come to nothing: they are refused, have been carried out before, fail
\* or are lost.
Fail ==
    /\ inits' \in SUBSET inits /\ confirms' \in SUBSET confirms
    /\ UNCHANGED <<known, held, covered, inForce>>

\* The init c asks for a policy, for the first time or anew: any cover ends.
Request(c, t) ==
    /\ <<c, t>> \in inits
    /\ inits' = inits \ {<<c, t>>}
    /\ known' = known \cup {t}
    /\ inForce' = inForce \ {t}
    /\ UNCHANGED <<held, covered, confirms>>

\* The payment notification for t is recorded.
Hold(t) ==
    /\ t \in known
    /\ held' = held \cup {t}
    /\ UNCHANGED <<known, covered, inForce, inits, confirms>>

\* By the confirm c a number is issued for t, which must have paid before, and
\* cover begins.
Issue(c, t) ==
    /\ <<c, t>> \in confirms
    /\ t \in held
    /\ confirms' = confirms \ {<<c, t>>}
    /\ covered' = covered \cup {t}
    /\ inForce' = inForce \cup {t}
    /\ UNCHANGED <<known, held, inits>>

Next ==
    \/ Fail
    \/ \E t \in Txn :
           \/ Hold(t)
           \/ \E c \in Call : Come(c, t) \/ Request(c, t) \/ Issue(c, t)

Spec == Init /\ [][Next]_vars
=================================================================================
