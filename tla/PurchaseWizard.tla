----------------------------- MODULE PurchaseWizard -----------------------------
(***************************************************************************)
(* The purchase (PolicyFlowPage) on top of the buyer's backend: vehicle,   *)
(* quote, KYC, payment, policy.  A page is a browser tab: the one the      *)
(* purchase starts in, and the one DOKU's page sends the customer to after *)
(* the payment, with nothing but the transaction id in its URL.  Each step *)
(* awaits its request behind a spinner; the payment and the policy step    *)
(* poll, and their polls may be answered out of order.                     *)
(*                                                                         *)
(* As in CatalogDraft the step on the page lags behind: AnimatePresence    *)
(* lets the old one leave first, with the props it had, and its buttons    *)
(* and requests work until then.                                           *)
(***************************************************************************)
EXTENDS TransactionService

CONSTANTS
    MaxPolls,   \* bound on the polls of a page under way that tell different things
    MaxPosts    \* bound on the requests made

ASSUME BoundsAssumption == MaxPolls \in Nat /\ MaxPosts \in Nat

VARIABLES
    pages,   \* pages[p]: PolicyFlowPage in tab p
    doku,    \* the transactions the customer has paid at DOKU
    posts    \* the requests counted by MaxPosts

vars == <<row, pol, trips, pages, doku, posts>>

--------------------------------------------------------------------------------
(* Types *)

Stages == {SeamStages[i] : i \in 3..5}
PaidAnswer == {"paid", "unpaid"}

\* Of the step shown: its txnId, loading, seamStatus.payment_received, seamStage
\* and the polls under way.  Of the page: actualTxnId, and the transactions that
\* quoteData, initData and confirmData are of.  linked: it came from DOKU and has
\* shown no other step; stray: history, an answer came to another step than its
\* own.
PageState ==
    [open: BOOLEAN, step: 1..5, shown: 1..5, prop: Txn \cup {None}, busy: BOOLEAN,
     paid: BOOLEAN, stage: Stages, polls: SUBSET (PaidAnswer \cup Stages \cup {"same"}),
     txn: Txn \cup {None}, quote: Txn \cup {None}, init: Txn \cup {None},
     confirm: Txn \cup {None}, linked: BOOLEAN, stray: BOOLEAN]

TypeOK ==
    /\ ServiceTypes
    /\ pages \in [Page -> PageState]
    /\ doku \subseteq Txn
    /\ posts \in 0..MaxPosts

ClosedPage ==
    [open |-> FALSE, step |-> 1, shown |-> 1, prop |-> None, busy |-> FALSE,
     paid |-> FALSE, stage |-> "policy_issued", polls |-> {},
     txn |-> None, quote |-> None, init |-> None, confirm |-> None,
     linked |-> FALSE, stray |-> FALSE]

Init ==
    /\ ServiceInit
    /\ pages = [p \in Page |-> ClosedPage]
    /\ doku = {}
    /\ posts = 0

--------------------------------------------------------------------------------
(* Coming and going *)

\* "Get Quote" on the marketplace.
OpenFlow(p) ==
    /\ ~ pages[p].open
    /\ pages' = [pages EXCEPT ![p].open = TRUE]
    /\ UNCHANGED <<row, pol, trips, doku, posts>>

\* The link to DOKU's page that the payment step shows.
Pay(p) ==
    LET t == pages[p].init IN
    /\ pages[p].open /\ pages[p].shown = 4 /\ ~ pages[p].busy
    /\ t # None /\ row[t].checkout
    /\ doku' = doku \cup {t}
    /\ UNCHANGED <<row, pol, trips, pages, posts>>

\* DOKU sends the customer to /policy/t?payment=done.  The page comes up with its
\* first step and goes to the fourth; its payment-received tells the insurer what
\* DOKU's webhook tells it too.
OpenLink(p, t) ==
    /\ ~ pages[p].open /\ t \in doku
    /\ pages' = [pages EXCEPT ![p] =
           [@ EXCEPT !.open = TRUE, !.step = 4, !.txn = t, !.linked = TRUE]]
    /\ UNCHANGED <<row, pol, trips, doku, posts>>

Notified(t) ==
    /\ t \in doku
    /\ PaymentReceived(t)
    /\ UNCHANGED <<pages, doku, posts>>

CallsOf(p) == {c \in Trip : Under(c) /\ trips[c].caller = p}

\* The arrow in the header, or the tab is closed: nothing on the page hears of
\* its requests any more.
Leave(p) ==
    /\ pages[p].open
    /\ pages' = [pages EXCEPT ![p] = ClosedPage]
    /\ trips' = Released(CallsOf(p))
    /\ UNCHANGED <<row, pol, doku, posts>>

\* Variant: seamStatus is kept for the next visit of the step.
SettleKeepsPaid(p) ==
    /\ pages[p].open /\ pages[p].shown # pages[p].step
    /\ pages' = [pages EXCEPT ![p] =
           [pages[p] EXCEPT !.shown = pages[p].step, !.prop = pages[p].txn, !.busy = FALSE,
                            !.stage = "policy_issued", !.polls = {},
                            !.linked = @ /\ pages[p].step = 4]]
    /\ trips' = [c \in Trip |-> IF c \in CallsOf(p)
                                THEN [trips[c] EXCEPT !.panel = FALSE] ELSE trips[c]]
    /\ UNCHANGED <<row, pol, doku, posts>>

\* The old step has left; the new one starts with fresh state and the page's props.
Settle(p) ==
    /\ pages[p].open /\ pages[p].shown # pages[p].step
    /\ pages' = [pages EXCEPT ![p] =
           [pages[p] EXCEPT !.shown = pages[p].step, !.prop = pages[p].txn, !.busy = FALSE,
                            !.paid = FALSE, !.stage = "policy_issued", !.polls = {},
                            !.linked = @ /\ pages[p].step = 4]]
    /\ trips' = [c \in Trip |-> IF c \in CallsOf(p)
                                THEN [trips[c] EXCEPT !.panel = FALSE] ELSE trips[c]]
    /\ UNCHANGED <<row, pol, doku, posts>>

--------------------------------------------------------------------------------
(* The steps *)

\* Step s is on the page, without spinner.
Shows(p, s) == pages[p].open /\ pages[p].shown = s /\ ~ pages[p].busy

Post(p, op, t) ==
    /\ Request(op, t, p)
    /\ pages' = [pages EXCEPT ![p].busy = TRUE]
    /\ posts < MaxPosts /\ posts' = posts + 1
    /\ UNCHANGED doku

\* Variant: setStep counts from the step that is current.
GoBy(p, s) ==
    /\ pages' = [pages EXCEPT ![p].step = @ + s - pages[p].shown]
    /\ UNCHANGED <<row, pol, trips, doku, posts>>

GoTo(p, s) ==
    /\ pages' = [pages EXCEPT ![p].step = s]
    /\ UNCHANGED <<row, pol, trips, doku, posts>>

\* No transaction_id is sent: every select starts a transaction.
VehicleDetailsStep(p) ==
    /\ Shows(p, 1)
    /\ \E t \in Txn : Unused(t) /\ Post(p, "select", t)

QuoteStep(p) == Shows(p, 2) /\ \E s \in {1, 3} : GoTo(p, s)

KYCStep(p) ==
    /\ Shows(p, 3)
    /\ \/ Post(p, "init", pages[p].prop)
       \/ GoTo(p, 2)

\* The button is enabled when a poll has said payment_received.
PaymentStep(p) ==
    /\ Shows(p, 4)
    /\ \/ pages[p].paid /\ Post(p, "confirm", pages[p].prop)
       \/ GoTo(p, 3)

\* Variant: who has been through KYC is taken to the payment at once.
OnNextSkipsKyc(page, op, t) ==
    CASE op = "select" -> [page EXCEPT !.quote = t, !.txn = t,
                                       !.step = IF page.init = None THEN 2 ELSE 4]
      [] op = "init" -> [page EXCEPT !.init = t, !.step = 4]
      [] op = "confirm" -> [page EXCEPT !.confirm = t, !.step = 5]

\* onNext: the page takes an answer wherever it is.
OnNext(page, op, t) ==
    CASE op = "select" -> [page EXCEPT !.quote = t, !.txn = t, !.step = 2]
      [] op = "init" -> [page EXCEPT !.init = t, !.step = 4]
      [] op = "confirm" -> [page EXCEPT !.confirm = t, !.step = 5]

\* Variant: only success takes the spinner away.
FailedBusy(p, S) == pages[p]

\* A request of page p has failed: its step shows the error and the form again,
\* if it is still there.
Failed(p, S) ==
    [pages[p] EXCEPT !.busy = @ /\ \A c \in S \cap CallsOf(p) : ~ trips[c].panel]

\* A request of page p is answered.  The spinner stays until the step has left.
\* The page strays when the step that asked is gone or about to go.
Answered(p, S, op, t) ==
    LET asking == \E c \in S \cap CallsOf(p) : trips[c].panel
    IN [OnNext(pages[p], op, t) EXCEPT
           !.stray = @ \/ ~ asking \/ pages[p].step # pages[p].shown]

\* The answer to c comes and is heard by some of those who wait for it.
Answer(c) ==
    \E S \in SUBSET Waiting(c) :
        /\ OnSelect(c, S) \/ OnInitDone(c, S) \/ OnConfirm(c, S)
        /\ pages' = [p \in Page |->
               IF S \cap CallsOf(p) = {} THEN pages[p]
               ELSE IF trips[c].at = "refused" THEN Failed(p, S)
               ELSE Answered(p, S, trips[c].op, trips[c].txn)]
        /\ UNCHANGED <<doku, posts>>

\* The wait ends after 30 s, the forward or the connection fails.
GiveUp(c) ==
    /\ Under(c) /\ trips[c].caller # None
    /\ pages' = [pages EXCEPT ![trips[c].caller] = Failed(trips[c].caller, {c})]
    /\ trips' = Released({c})
    /\ UNCHANGED <<row, pol, doku, posts>>

--------------------------------------------------------------------------------
(* The polls, every 3 s whether or not the last one is answered *)

Asks(p, v) ==
    /\ Cardinality(pages[p].polls \cup {v}) <= MaxPolls
    /\ pages' = [pages EXCEPT ![p].polls = @ \cup {v}]
    /\ UNCHANGED <<row, pol, trips, doku, posts>>

\* Until payment_received; an unknown policy is an error, which is ignored.
PollPayment(p) ==
    /\ pages[p].open /\ pages[p].shown = 4 /\ ~ pages[p].paid
    /\ pol[pages[p].prop].known
    /\ Asks(p, IF pol[pages[p].prop].paid THEN "paid" ELSE "unpaid")

PollStage(p) ==
    /\ pages[p].open /\ pages[p].shown = 5 /\ pages[p].stage # "settled"
    /\ Asks(p, StageOf(pages[p].prop))

\* Variant: only the first answer is taken.
PollAnsweredOnce(p) ==
    \E v \in pages[p].polls :
        /\ pages' = [pages EXCEPT ![p] =
               [pages[p] EXCEPT !.polls = @ \ {v}, !.paid = v = "paid",
                                !.stage = IF v \in Stages /\ @ = "policy_issued"
                                          THEN v ELSE @]]
        /\ UNCHANGED <<row, pol, trips, doku, posts>>

\* Any poll under way is answered: an older answer may take back a newer one.
PollAnswered(p) ==
    \E v \in pages[p].polls :
        /\ pages' = [pages EXCEPT ![p] =
               [pages[p] EXCEPT !.polls = @ \ {v}, !.paid = v = "paid",
                                !.stage = IF v \in Stages THEN v ELSE @]]
        /\ UNCHANGED <<row, pol, trips, doku, posts>>

--------------------------------------------------------------------------------

Backend(c) ==
    /\ SendReconcile(c) \/ Lose(c) \/ InsurerAnswers(c) \/ OnInit(c) \/ OnReconcile(c)
    /\ UNCHANGED <<pages, doku, posts>>

Next ==
    \/ \E c \in Trip : Backend(c) \/ (Under(c) /\ Answer(c)) \/ GiveUp(c)
    \/ \E t \in Txn : Notified(t)
    \/ \E p \in Page :
           \/ OpenFlow(p)
           \/ \E t \in Txn : OpenLink(p, t)
           \/ Leave(p)
           \/ Settle(p)
           \/ VehicleDetailsStep(p)
           \/ QuoteStep(p)
           \/ KYCStep(p)
           \/ PaymentStep(p)
           \/ Pay(p)
           \/ PollPayment(p)
           \/ PollStage(p)
           \/ PollAnswered(p)

\* Waits end; animations end; the interval fires and its requests are answered.
Fairness ==
    /\ \A c \in Trip : WF_vars(GiveUp(c))
    /\ \A p \in Page :
           WF_vars(Settle(p)) /\ WF_vars(PollStage(p)) /\ WF_vars(PollAnswered(p))

Spec == Init /\ [][Next]_vars /\ Fairness

--------------------------------------------------------------------------------
(* Properties *)

\* "Confirm Payment" (handlePaid) is asked of the insurer only for a transaction
\* whose payment it has recorded: no answer to a poll of another transaction, of
\* an earlier visit to the step or of another tab enables the button.
ConfirmOnlyPaid ==
    \A c \in Trip : Under(c) /\ trips[c].op = "confirm" => pol[trips[c].txn].paid

\* The checkout link and the premium of the payment step (initData) and the
\* policy number of the last step (confirmData) are of the transaction whose
\* status is polled beside them, although a new select replaces actualTxnId and
\* keeps the others.  Not so in the tab that DOKU opened, which has no initData,
\* nor after an answer that came to another step than its own.
DataIsOfTransaction ==
    \A p \in Page :
        LET page == pages[p] IN
        page.open /\ page.shown = page.step /\ ~ page.stray =>
            /\ page.shown \in {2, 3} /\ page.quote # None => page.quote = page.txn
            /\ page.shown = 4 /\ ~ page.linked => page.init = page.prop
            /\ page.shown = 5 => page.confirm = page.prop

\* The status of a transaction (upsertTransaction: the last writer wins, whoever
\* asked first) runs ahead of nothing: CONFIRMED and what follows it mean that
\* the insurer has issued the policy, and that it knows of the payment.
ConfirmedIsIssued ==
    \A t \in Txn :
        row[t].status \in {"CONFIRMED", "RECONCILING", "SETTLED"} =>
            pol[t].issued /\ pol[t].paid

\* The order history (ListOrders, seamStageFromStatus) and the policy step
\* (PolicyIssuedStep) each make a stage of the status and the last snapshot.
\* When the step has something to show the history shows the same, unless init
\* or confirm was asked for again.
ViewsAgree ==
    \A t \in Txn :
        StageOf(t) # "same" => row[t].again \/ SeamStage(t) = StageOf(t)

Rank(status) ==
    CHOOSE i \in 1..9 : status =
        <<"none", "SELECT_SENT", "QUOTE_RECEIVED", "INIT_SENT", "INIT_RECEIVED",
          "CONFIRM_SENT", "CONFIRMED", "RECONCILING", "SETTLED">>[i]

\* The handlers, the webhooks and the reconcile goroutine upsert without looking
\* at what is there; still the status of a transaction never goes back, unless
\* init or confirm was asked for again.
StatusRunsForward ==
    [][\A t \in Txn : row'[t].again \/ Rank(row[t].status) <= Rank(row'[t].status)]_vars

\* The policy step catches up with the status: once that stays SETTLED while the
\* step is on the page, the page shows so and goes on showing it, whatever
\* answers come late.
PageCatchesUp ==
    \A p \in Page :
        <>[](pages[p].open /\ pages[p].shown = 5 /\ row[pages[p].prop].status = "SETTLED")
            => <>[](pages[p].stage = "settled")

\* No spinner turns for ever: the request ends, in time or with an error, and the
\* step leaves or shows its form again.
SpinnerEnds ==
    \A p \in Page : pages[p].busy ~> (~ pages[p].busy \/ pages[p].stray)
=================================================================================
