--------------------------- MODULE TransactionService ---------------------------
(***************************************************************************)
(* The buyer's backend (ClientService) behind the purchase: the handlers   *)
(* of /api/v1/select, init and confirm, the on_* webhooks and the          *)
(* reconcile goroutine, which all upsert the status of a transaction, and  *)
(* the insurer they talk to, one step per request.                         *)
(*                                                                         *)
(* A trip is one request on its way to the insurer and back.  Its caller   *)
(* may have given up before that; an answer goes to those who wait for its *)
(* operation and transaction, or is lost to them (see CallbackBridge).     *)
(* What the callers do is left to the module that extends this one.        *)
(***************************************************************************)
EXTENDS Integers, FiniteSets

CONSTANTS
    Txn,     \* transaction ids the backend may make up, numbered
    Trip,    \* slots, numbered: bound on the requests under way at a time
    Page,    \* the callers
    None     \* no transaction, no caller

ASSUME OrderAssumption == Trip \subseteq Nat /\ Txn \subseteq Nat
ASSUME NoneAssumption == None \notin Txn /\ None \notin Page

VARIABLES
    row,     \* row[t]: transactions, with its last contract snapshot
    pol,     \* pol[t]: the insurer's policy
    trips    \* trips[c]: the requests under way

--------------------------------------------------------------------------------
(* Types *)

Status == {"none", "SELECT_SENT", "QUOTE_RECEIVED", "INIT_SENT", "INIT_RECEIVED",
           "CONFIRM_SENT", "CONFIRMED", "RECONCILING", "SETTLED"}

OnAction == {"none", "on_select", "on_init", "on_confirm", "on_reconcile"}

\* checkout: the link has been made.  asked, again: history, what was asked for,
\* and whether something was asked for more than once.
Row == [status: Status, onAction: OnAction, checkout: BOOLEAN,
        asked: SUBSET {"init", "confirm"}, again: BOOLEAN]

\* issued: history, the policy has been ACTIVE.
Policy == [known: BOOLEAN, paid: BOOLEAN, active: BOOLEAN, issued: BOOLEAN]

Op == {"select", "init", "confirm", "reconcile"}

\* A goroutine is posted first.  panel: the step that made the call is still on
\* the caller's page.
TripRecord ==
    [op: Op, txn: Txn, at: {"posted", "sent", "back", "refused", "checkout", "over"},
     caller: Page \cup {None}, panel: BOOLEAN]

\* A slot that is taken is not empty.
ASSUME TripAssumption == None \notin TripRecord

TripState == TripRecord \cup {None}

ServiceTypes ==
    /\ row \in [Txn -> Row]
    /\ pol \in [Txn -> Policy]
    /\ trips \in [Trip -> TripState]

NewRow == [status |-> "none", onAction |-> "none", checkout |-> FALSE,
           asked |-> {}, again |-> FALSE]
NewPolicy == [known |-> FALSE, paid |-> FALSE, active |-> FALSE, issued |-> FALSE]

ServiceInit ==
    /\ row = [t \in Txn |-> NewRow]
    /\ pol = [t \in Txn |-> NewPolicy]
    /\ trips = [c \in Trip |-> None]

--------------------------------------------------------------------------------
(* Requests *)

Under(c) == trips[c] # None

\* Slots are taken in order.
Free(c) == ~ Under(c) /\ \A d \in Trip : ~ Under(d) => c <= d

\* A trip that is over and that nobody waits for makes room.
Cleared(trip) == IF trip.at = "over" /\ trip.caller = None THEN None ELSE trip

\* The callers of S have their answer, or do not want it any more.
Released(S) ==
    [c \in Trip |-> IF c \in S THEN Cleared([trips[c] EXCEPT !.caller = None]) ELSE trips[c]]

\* Ids are made up in order.
Unused(t) == row[t].status = "none" /\ \A u \in Txn : row[u].status = "none" => t <= u

\* Variant: the answer is entered when the request goes out.
SentAsReceived(op) ==
    CASE op = "select" -> "QUOTE_RECEIVED"
      [] op = "init" -> "INIT_RECEIVED"
      [] op = "confirm" -> "CONFIRMED"

\* The status a request leaves, before it is forwarded.
SentStatus(op) ==
    CASE op = "select" -> "SELECT_SENT"
      [] op = "init" -> "INIT_SENT"
      [] op = "confirm" -> "CONFIRM_SENT"

\* Select, Init and Confirm until they wait.
Request(op, t, p) ==
    /\ row' = [row EXCEPT ![t].status = SentStatus(op),
                          ![t].again = @ \/ op \in row[t].asked,
                          ![t].asked = @ \cup ({op} \ {"select"})]
    /\ \E c \in Trip :
           /\ Free(c)
           /\ trips' = [trips EXCEPT ![c] =
                  [op |-> op, txn |-> t, at |-> "sent", caller |-> p, panel |-> TRUE]]
    /\ UNCHANGED pol

\* sendReconcile: the status first, then the POST to the insurer.
SendReconcile(c) ==
    /\ Under(c) /\ trips[c].at = "posted"
    /\ row' = [row EXCEPT ![trips[c].txn].status = "RECONCILING"]
    /\ trips' = [trips EXCEPT ![c].at = "sent"]
    /\ UNCHANGED pol

\* The request or its answer is lost, or a restart ends the goroutine.
Lose(c) ==
    /\ Under(c) /\ trips[c].at \in {"posted", "sent", "back"}
    /\ trips' = [trips EXCEPT ![c] = Cleared([@ EXCEPT !.at = "over"])]
    /\ UNCHANGED <<row, pol>>

--------------------------------------------------------------------------------
(* The insurer: see PolicyLifecycle for its statements *)

InsurerAnswers(c) ==
    /\ Under(c) /\ trips[c].at = "sent"
    /\ LET t == trips[c].txn
           refuses == trips[c].op = "confirm" /\ ~ pol[t].paid
       IN /\ pol' = [pol EXCEPT ![t].known = @ \/ trips[c].op = "init",
                                ![t].active = (@ /\ trips[c].op # "init")
                                              \/ (trips[c].op = "confirm" /\ ~ refuses),
                                ![t].issued = @ \/ (trips[c].op = "confirm" /\ ~ refuses)]
          /\ trips' = [trips EXCEPT ![c].at = IF refuses THEN "refused" ELSE "back"]
    /\ UNCHANGED row

\* The payment service tells the insurer of a payment.
PaymentReceived(t) ==
    /\ pol[t].known /\ ~ pol[t].paid
    /\ pol' = [pol EXCEPT ![t].paid = TRUE]
    /\ UNCHANGED <<row, trips>>

--------------------------------------------------------------------------------
(* HandleCallback.  S: those who hear the publication of c's answer. *)

Waiting(c) ==
    {d \in Trip : Under(d) /\ trips[d].op = trips[c].op /\ trips[d].txn = trips[c].txn
                  /\ trips[d].caller # None}

\* The trip is over.
Published(c, S) == [Released(S) EXCEPT ![c] =
    Cleared([trips[c] EXCEPT !.at = "over", !.caller = IF c \in S THEN None ELSE @])]

OnSelect(c, S) ==
    /\ trips[c].at = "back" /\ trips[c].op = "select"
    /\ row' = [row EXCEPT ![trips[c].txn].status = "QUOTE_RECEIVED",
                          ![trips[c].txn].onAction = "on_select"]
    /\ trips' = Published(c, S)
    /\ UNCHANGED pol

\* on_init is entered, then the payment service is asked for a checkout, which
\* may take 15 s; the callers wait.
OnInit(c) ==
    /\ Under(c) /\ trips[c].at = "back" /\ trips[c].op = "init"
    /\ row' = [row EXCEPT ![trips[c].txn].status = "INIT_RECEIVED"]
    /\ trips' = [trips EXCEPT ![c].at = "checkout"]
    /\ UNCHANGED pol

\* Variant: the callers are answered before on_init is entered again.
OnInitDoneLate(c, S) ==
    /\ trips[c].at = "checkout"
    /\ \/ /\ row' = [row EXCEPT ![trips[c].txn].checkout = TRUE]
          /\ trips' = Released(S)
       \/ /\ S = {}
          /\ row' = [row EXCEPT ![trips[c].txn].status = "INIT_RECEIVED",
                                ![trips[c].txn].onAction = "on_init"]
          /\ trips' = Published(c, S)
    /\ UNCHANGED pol

\* The link has been made or not, and on_init is entered again.
OnInitDone(c, S) ==
    /\ trips[c].at = "checkout"
    /\ \E made \in BOOLEAN :
           row' = [row EXCEPT ![trips[c].txn].status = "INIT_RECEIVED",
                              ![trips[c].txn].onAction = "on_init",
                              ![trips[c].txn].checkout = @ \/ made]
    /\ trips' = Published(c, S)
    /\ UNCHANGED pol

\* A refusal is kept as a snapshot only.  Otherwise the policy is ACTIVE, and the
\* reconcile goroutine starts.
OnConfirm(c, S) ==
    /\ trips[c].at \in {"back", "refused"} /\ trips[c].op = "confirm"
    /\ LET t == trips[c].txn
           done == Published(c, S)
       IN IF trips[c].at = "refused"
          THEN /\ row' = [row EXCEPT ![t].onAction = "on_confirm"]
               /\ trips' = done
          ELSE /\ row' = [row EXCEPT ![t].status = "CONFIRMED", ![t].onAction = "on_confirm"]
               /\ \E d \in Trip :
                      /\ IF done[c] = None THEN d = c ELSE Free(d)
                      /\ trips' = [done EXCEPT ![d] =
                             [op |-> "reconcile", txn |-> t, at |-> "posted",
                              caller |-> None, panel |-> FALSE]]
    /\ UNCHANGED pol

OnReconcile(c) ==
    /\ Under(c) /\ trips[c].at = "back" /\ trips[c].op = "reconcile"
    /\ row' = [row EXCEPT ![trips[c].txn].status = "SETTLED",
                          ![trips[c].txn].onAction = "on_reconcile"]
    /\ trips' = [trips EXCEPT ![c] = None]
    /\ UNCHANGED pol

--------------------------------------------------------------------------------
(* GetStatus and ListOrders *)

\* Of the stages of SeamStageBar the second is never told to the buyer.
SeamStages == <<"va_created", "payment_held", "policy_issued", "reconciling", "settled">>

\* Variant: only the status counts.
SeamStageOfStatus(t) ==
    CASE row[t].status = "SETTLED" -> "settled"
      [] row[t].status = "RECONCILING" -> "reconciling"
      [] OTHER -> "va_created"

\* seamStageFromStatus
SeamStage(t) ==
    CASE row[t].status = "SETTLED" -> "settled"
      [] row[t].status = "RECONCILING" -> "reconciling"
      [] row[t].status = "CONFIRMED" -> "policy_issued"
      [] row[t].status \notin {"SETTLED", "RECONCILING", "CONFIRMED", "INIT_RECEIVED"}
             /\ row[t].onAction = "on_confirm" -> "policy_issued"
      [] OTHER -> "va_created"

\* What PolicyIssuedStep makes of GET /api/v1/status: the stage to show, or the
\* same as before.  transactions.action is set when the row is inserted and never
\* updated, so the step's test for action "confirm" adds nothing.
StageOf(t) ==
    CASE row[t].status = "SETTLED" -> "settled"
      [] row[t].status = "RECONCILING" -> "reconciling"
      [] row[t].status \notin {"SETTLED", "RECONCILING"} /\ row[t].onAction = "on_confirm" ->
             "policy_issued"
      [] OTHER -> "same"
=================================================================================
