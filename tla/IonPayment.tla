------------------------------- MODULE IonPayment -------------------------------
(***************************************************************************)
(* The payment service (ion-service) between the buyer's backend, DOKU and *)
(* the insurer: a checkout is made for each on_init, DOKU's webhook and    *)
(* the buyer's backend report a payment, and a reconcile releases the      *)
(* money DOKU holds, with the split between the parties if DOKU knows      *)
(* their accounts.                                                         *)
(*                                                                         *)
(* A checkout stands for its Request-Id.  What DOKU's webhook carries as   *)
(* Request-Id, that of the checkout or one of its own, is recorded in the  *)
(* same column and sent back to DOKU in the same place.  The rows of the   *)
(* insurer change in single steps: see PolicyLifecycle for those.          *)
(***************************************************************************)
EXTENDS Naturals, FiniteSets

CONSTANTS
    Invoice,    \* "ins-" and a transaction id
    Checkout,   \* Request-Ids, a bound on the checkouts made
    None,       \* no invoice, no checkout
    Other,      \* a Request-Id that a notification of DOKU has of its own
    Accounts,   \* whether the insurer has DOKU_*_BANK_ACCOUNT_ID set
    Completed,  \* a bound: the invoices whose purchase the buyer goes on to confirm
    MaxPosts,   \* a bound on the goroutines that run at a time
    MaxLate     \* a bound on the release requests that outlive their caller

ASSUME ConstantsAssumption ==
    /\ None \notin Invoice /\ None \notin Checkout
    /\ Other \notin Checkout /\ Other # None
    /\ Accounts \in BOOLEAN
    /\ Completed \subseteq Invoice

VARIABLES
    checkouts,  \* checkouts[c]: at DOKU and on its way to the customer
    stored,     \* stored[i]: transactions.doku_checkout_request_id
    posts,      \* notifyBPP goroutines under way
    row,        \* row[i]: policies
    call,       \* call[i]: HandleReconcile's call of handleRelease
    requests,   \* release requests at DOKU
    lost,       \* history: paid invoices of which a report got lost
    refused     \* history: invoices of which DOKU refused the splits

vars == <<checkouts, stored, posts, row, call, requests, lost, refused>>

--------------------------------------------------------------------------------
(* Types *)

\* bap: the buyer's backend waits for it, has it and has shown it, or has given up.
\* split: the money went out with the splits.
CheckoutState ==
    [inv: Invoice \cup {None}, bap: {"none", "waits", "has", "gaveUp"},
     at: {"unpaid", "held", "paidOut"}, split: BOOLEAN, hook: {"none", "sent", "over"}]

RequestId == Checkout \cup {Other, None}

Post == [inv: Invoice, id: RequestId]

\* Entered by init, before there is a checkout.  told: an on_confirm with an ACTIVE
\* policy has been sent, which makes the buyer's backend send a reconcile.
Row == [paid: BOOLEAN, id: RequestId, active: BOOLEAN, told: BOOLEAN]

\* id: as read at the start.
Call == [pc: {"idle", "first", "retry", "released", "failed"}, id: RequestId]

\* heard: handleRelease waits for the answer.
Request == [inv: Invoice, id: RequestId, splits: BOOLEAN, heard: BOOLEAN]

TypeOK ==
    /\ checkouts \in [Checkout -> CheckoutState]
    /\ stored \in [Invoice -> Checkout \cup {None}]
    /\ posts \subseteq Post
    /\ row \in [Invoice -> Row]
    /\ call \in [Invoice -> Call]
    /\ requests \subseteq Request
    /\ lost \subseteq Invoice
    /\ refused \subseteq Invoice

Idle == [pc |-> "idle", id |-> None]

Init ==
    /\ checkouts = [c \in Checkout |-> [inv |-> None, bap |-> "none", at |-> "unpaid",
                                        split |-> FALSE, hook |-> "none"]]
    /\ stored = [i \in Invoice |-> None]
    /\ posts = {}
    /\ row = [i \in Invoice |->
                  [paid |-> FALSE, id |-> None, active |-> FALSE, told |-> FALSE]]
    /\ call = [i \in Invoice |-> Idle]
    /\ requests = {}
    /\ lost = {} /\ refused = {}

--------------------------------------------------------------------------------
(* Checkouts *)

\* The insurer has entered the policy, or put it back to PENDING_ISSUANCE, and on
\* on_init the buyer's backend asks for a checkout: a new one each time, all with
\* the invoice of the transaction.  The names of checkouts are taken in one order.
OnInit(i, c) ==
    /\ checkouts[c].inv = None /\ c = CHOOSE d \in Checkout : checkouts[d].inv = None
    /\ checkouts' = [checkouts EXCEPT ![c].inv = i, ![c].bap = "waits"]
    /\ row' = [row EXCEPT ![i].active = FALSE]
    /\ UNCHANGED <<stored, posts, call, requests, lost, refused>>

\* Variant: invoice_number and payment_request_id are mixed up.
CreateCheckoutSwapped(c) ==
    /\ checkouts[c].bap = "waits"
    /\ checkouts' = [checkouts EXCEPT ![c].bap = "has"]
    /\ stored' = [stored EXCEPT ![checkouts[c].inv] = checkouts[c].inv]
    /\ UNCHANGED <<posts, row, call, requests, lost, refused>>

\* Variant: the UPDATE has lost its WHERE.
CreateCheckoutEverywhere(c) ==
    /\ checkouts[c].bap = "waits"
    /\ checkouts' = [checkouts EXCEPT ![c].bap = "has"]
    /\ stored' = [i \in Invoice |-> c]
    /\ UNCHANGED <<posts, row, call, requests, lost, refused>>

\* The answer: the last one is stored, unless the UPDATE fails or the 15 s end just
\* then, and each goes to the customer.
CreateCheckout(c) ==
    /\ checkouts[c].bap = "waits"
    /\ checkouts' = [checkouts EXCEPT ![c].bap = "has"]
    /\ stored' \in {[stored EXCEPT ![checkouts[c].inv] = c], stored}
    /\ UNCHANGED <<posts, row, call, requests, lost, refused>>

\* 15 s have passed, or DOKU or the network fails: a checkout that DOKU may have made
\* all the same is never shown.
CreateCheckoutFails(c) ==
    /\ checkouts[c].bap = "waits"
    /\ checkouts' = [checkouts EXCEPT ![c].bap = "gaveUp"]
    /\ UNCHANGED <<stored, posts, row, call, requests, lost, refused>>

--------------------------------------------------------------------------------
(* Payments *)

Entered(i) == \E c \in Checkout : checkouts[c].inv = i

Paid(i) == \E c \in Checkout : checkouts[c].inv = i /\ checkouts[c].at # "unpaid"

\* The customer pays one of the checkouts shown, not always the last.  The
\* settlement is held.
Pay(c) ==
    /\ checkouts[c].bap = "has" /\ checkouts[c].at = "unpaid"
    /\ checkouts' = [checkouts EXCEPT ![c].at = "held", ![c].hook = "sent"]
    /\ UNCHANGED <<stored, posts, row, call, requests, lost, refused>>

\* Variant: notifications are answered but not passed on.
HandleDokuWebhookIgnored(i, id) == posts' = posts

\* handleDokuWebhook passes on what DOKU notifies of an invoice, signed or without
\* Client-Id, and whatever its transaction.status.
HandleDokuWebhook(i, id) == posts' = posts \cup {[inv |-> i, id |-> id]}

\* The notification of a payment.  DOKU has its 200 before the insurer knows.
PaymentNotified(c) ==
    /\ checkouts[c].hook = "sent"
    /\ Cardinality(posts) < MaxPosts
    /\ checkouts' = [checkouts EXCEPT ![c].hook = "over"]
    /\ \E id \in {c, Other} : HandleDokuWebhook(checkouts[c].inv, id)
    /\ UNCHANGED <<stored, row, call, requests, lost, refused>>

\* A notification of a failed or expired attempt, one sent again, or the one that
\* handleSimulateDoku signs itself.
OtherNotified(i) ==
    /\ Entered(i)
    /\ Cardinality(posts) < MaxPosts
    /\ \E id \in {Other} \cup {c \in Checkout : checkouts[c].inv = i /\ checkouts[c].bap = "has"} :
           HandleDokuWebhook(i, id)
    /\ UNCHANGED <<checkouts, stored, row, call, requests, lost, refused>>

\* signature_error and the other answers of 200 without effect, or DOKU cannot
\* reach the service.
DokuWebhookDropped(c) ==
    /\ checkouts[c].hook = "sent"
    /\ checkouts' = [checkouts EXCEPT ![c].hook = "over"]
    /\ lost' = lost \cup {checkouts[c].inv}
    /\ UNCHANGED <<stored, posts, row, call, requests, refused>>

\* payment-received: the buyer's backend reports a payment with the Request-Id it
\* has stored, if any, whenever it is called: nothing asks DOKU.
HandleNotifyDirect(i) ==
    /\ Cardinality(posts) < MaxPosts
    /\ posts' = posts \cup {[inv |-> i, id |-> stored[i]]}
    /\ UNCHANGED <<checkouts, stored, row, call, requests, lost, refused>>

\* The insurer has no policy of a transaction before its first on_init, and ignores
\* reports about an ACTIVE one; the last Request-Id counts.
NotifyBPP(p) ==
    /\ p \in posts
    /\ posts' = posts \ {p}
    /\ \/ /\ Entered(p.inv) /\ ~ row[p.inv].active
          /\ row' = [row EXCEPT ![p.inv].paid = TRUE,
                                ![p.inv].id = IF p.id # None THEN p.id ELSE @]
       \/ ~ Entered(p.inv) /\ UNCHANGED row
       \/ row[p.inv].active /\ UNCHANGED row
    /\ UNCHANGED <<checkouts, stored, call, requests, lost, refused>>

\* One attempt: the POST fails, or a restart ends the goroutine.
NotifyBPPFails(p) ==
    /\ p \in posts
    /\ posts' = posts \ {p}
    /\ lost' = IF Paid(p.inv) THEN lost \cup {p.inv} ELSE lost
    /\ UNCHANGED <<checkouts, stored, row, call, requests, refused>>

--------------------------------------------------------------------------------
(* Settlement *)

Confirm(i) ==
    /\ i \in Completed
    /\ row[i].paid /\ ~ row[i].active
    /\ row' = [row EXCEPT ![i].active = TRUE, ![i].told = TRUE]
    /\ UNCHANGED <<checkouts, stored, posts, call, requests, lost, refused>>

\* The splits are of the accounts that are set.  The row need not be ACTIVE any more.
HandleReconcile(i) ==
    /\ call[i].pc = "idle" /\ row[i].told
    /\ call' = [call EXCEPT ![i].pc = "first", ![i].id = row[i].id]
    /\ requests' = requests \cup
           {[inv |-> i, id |-> row[i].id, splits |-> Accounts, heard |-> TRUE]}
    /\ UNCHANGED <<checkouts, stored, posts, row, lost, refused>>

\* Variant: whatever goes wrong, the splits are to blame.
RetriesAlways(answer) == answer # "ok"

\* The answers after which handleRelease tries without the splits.
Retries(answer) == answer = "notFound"

\* How handleRelease goes on after an answer, or after 30 s without one.
HandleRelease(i, answer, others) ==
    \/ /\ call[i].pc = "first" /\ Accounts /\ Retries(answer)
       /\ call' = [call EXCEPT ![i].pc = "retry"]
       /\ requests' = others \cup
              {[inv |-> i, id |-> call[i].id, splits |-> FALSE, heard |-> TRUE]}
    \/ /\ call[i].pc = "retry" \/ (call[i].pc = "first" /\ ~ (Accounts /\ Retries(answer)))
       /\ call' = [call EXCEPT ![i].pc = IF answer = "ok" THEN "released" ELSE "failed"]
       /\ requests' = others

\* An answer that comes in time is handled in the step that makes it: nobody else
\* sees what lies between.
Answered(r, answer) ==
    /\ r \in requests
    /\ \/ r.heard /\ HandleRelease(r.inv, answer, requests \ {r})
       \/ ~ r.heard /\ requests' = requests \ {r} /\ UNCHANGED call
    /\ UNCHANGED <<stored, posts, row, lost>>

\* DOKU releases what it holds of the invoice under the Request-Id, its own one too
\* if DOKU goes by those, and releases it once; it does not know the accounts, or
\* refuses or fails for another reason.
DokuReleases(r) ==
    \/ /\ Answered(r, "ok")
       /\ \E c \in Checkout :
              /\ r.id \in {c, Other} /\ checkouts[c].inv = r.inv /\ checkouts[c].at = "held"
              /\ checkouts' = [checkouts EXCEPT ![c].at = "paidOut", ![c].split = r.splits]
       /\ UNCHANGED refused
    \/ /\ Answered(r, "notFound")
       /\ r.splits
       /\ refused' = refused \cup {r.inv}
       /\ UNCHANGED checkouts
    \/ /\ Answered(r, "error")
       /\ UNCHANGED <<checkouts, refused>>

\* The request goes on without its caller, and DOKU may still carry it out.
ReleaseTimesOut(r) ==
    /\ r \in requests /\ r.heard
    /\ Cardinality({q \in requests : ~ q.heard}) < MaxLate
    /\ HandleRelease(r.inv, "timeout", (requests \ {r}) \cup {[r EXCEPT !.heard = FALSE]})
    /\ UNCHANGED <<checkouts, stored, posts, row, lost, refused>>

\* HandleReconcile goes on, and settles the row whatever came of the release (see
\* PolicyLifecycle for what becomes of reconcile_status).
ReconcileSettle(i) ==
    /\ call[i].pc \in {"released", "failed"}
    /\ call' = [call EXCEPT ![i] = Idle]
    /\ UNCHANGED <<checkouts, stored, posts, row, requests, lost, refused>>

--------------------------------------------------------------------------------

Next ==
    \/ \E i \in Invoice :
           \/ \E c \in Checkout : OnInit(i, c)
           \/ OtherNotified(i)
           \/ HandleNotifyDirect(i)
           \/ Confirm(i)
           \/ HandleReconcile(i)
           \/ ReconcileSettle(i)
    \/ \E c \in Checkout :
           \/ CreateCheckout(c)
           \/ CreateCheckoutFails(c)
           \/ Pay(c)
           \/ PaymentNotified(c)
           \/ DokuWebhookDropped(c)
    \/ \E p \in posts : NotifyBPP(p) \/ NotifyBPPFails(p)
    \/ \E r \in requests : DokuReleases(r) \/ ReleaseTimesOut(r)

\* DOKU's webhook is answered or dropped, and a goroutine runs to its end.
Fairness ==
    /\ \A c \in Checkout : WF_vars(PaymentNotified(c) \/ DokuWebhookDropped(c))
    /\ \A p \in Post : WF_vars(NotifyBPP(p) \/ NotifyBPPFails(p))

Spec == Init /\ [][Next]_vars /\ Fairness

--------------------------------------------------------------------------------
(* Properties *)

\* Nobody asks DOKU whether a payment that was reported was made, so what is left
\* to hold is: a release is asked for, and money goes out, only for an invoice whose
\* policy has been issued, and the Request-Id of a checkout that has come to the
\* request through transactions, notifications, reports and policies is of a
\* checkout of that invoice.
ReleaseIsDue ==
    /\ \A r \in requests :
           /\ row[r.inv].told
           /\ r.id \in Checkout => checkouts[r.id].inv = r.inv
    /\ \A c \in Checkout : checkouts[c].at = "paidOut" => row[checkouts[c].inv].told

\* handleRelease says "released" only of money that DOKU has released, and where
\* accounts are set the splits are left out only after DOKU has refused them,
\* however often a release is tried, times out and is carried out late.
ReleaseDoesWhatItSays ==
    /\ \A i \in Invoice :
           call[i].pc = "released" =>
               \E c \in Checkout : /\ call[i].id \in {c, Other}
                                   /\ checkouts[c].inv = i /\ checkouts[c].at = "paidOut"
    /\ \A c \in Checkout :
           checkouts[c].at = "paidOut" /\ Accounts /\ ~ checkouts[c].split =>
               checkouts[c].inv \in refused

\* A payment at DOKU comes to be recorded by the insurer, although DOKU is told
\* 200 at once and every report is made once: unless a report got lost.
PaymentReachesInsurer ==
    \A i \in Invoice :
        (\E c \in Checkout : checkouts[c].inv = i /\ checkouts[c].at = "held")
            ~> (row[i].paid \/ i \in lost)
=================================================================================
