---------------------------- MODULE PolicyLifecycle ----------------------------
(***************************************************************************)
(* The insurer's backend (src/bpp-application): the life of a policy row   *)
(* and of its payment ledger under the Beckn webhooks init, confirm,       *)
(* status, cancel, reconcile and the payment notification.                 *)
(*                                                                         *)
(* Every Beckn webhook is acknowledged first and then handled by a         *)
(* goroutine of its own ("go h.beckn.HandleX(...)"); a payment             *)
(* notification is handled by the goroutine of its HTTP request.  Handlers *)
(* interleave freely.  A handler is a record in the set handlers; one      *)
(* action of this module is one statement it sends to Postgres or one HTTP *)
(* call it makes, because between two of them any other handler may run.   *)
(* Each SQL statement is a transaction of its own and therefore atomic.    *)
(***************************************************************************)
EXTENDS Integers, FiniteSets

CONSTANTS
    Txn,          \* transaction ids
    Goroutine,    \* identities of handlers: bounds how many run at once
    MaxRows       \* rows and releases of one kind are counted up to this number

ASSUME ConstantsAssumption ==
    /\ IsFiniteSet(Txn)
    /\ MaxRows \in Nat \ {0}

VARIABLES
    policies,   \* table policies: one row per transaction id (UNIQUE)
    payments,   \* table payments: rows per transaction, by the handler that wrote them
    released,   \* settlement releases the payment service accepted, per transaction
    handlers    \* goroutines between the acknowledgement and their end

vars == <<policies, payments, released, handlers>>

--------------------------------------------------------------------------------
(* Types *)

Op == {"init", "confirm", "payment", "cancel", "reconcile", "status"}

\* The values of the enum policy_status the code writes, and "NONE" for no row.
Status == {"NONE", "PENDING_ISSUANCE", "ACTIVE", "CANCELLED"}

\* paid is payment_received; number is the sequence part of policy_number, 0
\* while it is NULL; reconcile is reconcile_status.
Policy == [status: Status, paid: BOOLEAN, number: Nat, reconcile: {"PENDING", "SETTLED"}]

\* hold rows come from HandlePaymentReceived, issue rows from HandleConfirm.
Ledger == [hold: 0..MaxRows, issue: 0..MaxRows]

\* What an answer says, as far as the buyer application acts on it.
Code == Status \cup {"", "PAYMENT_NOT_RECEIVED", "AGREED"}

\* The statement a handler executes next.
Pc == {"start", "count", "issue", "hold", "ledger", "settle", "reply"}

Handler == [id: Goroutine, op: Op, txn: Txn, pc: Pc, code: Code, number: Nat]

TypeOK ==
    /\ policies \in [Txn -> Policy]
    /\ payments \in [Txn -> Ledger]
    /\ released \in [Txn -> 0..MaxRows]
    /\ handlers \subseteq Handler

--------------------------------------------------------------------------------
(* Helpers *)

NoPolicy ==
    [status |-> "NONE", paid |-> FALSE, number |-> 0, reconcile |-> "PENDING"]

\* A new row: the columns the INSERT does not name take their defaults.
NewPolicy == [NoPolicy EXCEPT !.status = "PENDING_ISSUANCE"]

ActiveTxns == {t \in Txn : policies[t].status = "ACTIVE"}

\* One more row, counted up to MaxRows.
OneMore(n) == IF n < MaxRows THEN n + 1 ELSE n

\* Handler h goes on as g; handler h returns.
Proceed(h, g) == handlers' = (handlers \ {h}) \cup {g}
Return(h) == handlers' = handlers \ {h}

At(h, op, pc) == h.op = op /\ h.pc = pc

--------------------------------------------------------------------------------
(* Arrival of a webhook *)

Init ==
    /\ policies = [t \in Txn |-> NoPolicy]
    /\ payments = [t \in Txn |-> [hold |-> 0, issue |-> 0]]
    /\ released = [t \in Txn |-> 0]
    /\ handlers = {}

\* A webhook is acknowledged and its handler started.  Any request may come at
\* any time: buyers go back and retry, two notifications report one payment.
Accept(id, op, t) ==
    /\ id \notin {h.id : h \in handlers}
    /\ handlers' = handlers \cup
           {[id |-> id, op |-> op, txn |-> t, pc |-> "start", code |-> "", number |-> 0]}
    /\ UNCHANGED <<policies, payments, released>>

--------------------------------------------------------------------------------
(* HandleInit *)

\* A NIK that is not 16 digits ends the handler without an answer.
InitBadNik(h) ==
    /\ At(h, "init", "start")
    /\ Return(h)
    /\ UNCHANGED <<policies, payments, released>>

\* Variant: the conflict branch overwrites the whole row.
InitUpsertAll(h) ==
    /\ At(h, "init", "start")
    /\ policies' = [policies EXCEPT ![h.txn] = NewPolicy]
    /\ Proceed(h, [h EXCEPT !.pc = "reply", !.code = "PENDING_ISSUANCE"])
    /\ UNCHANGED <<payments, released>>

\* INSERT ... ON CONFLICT: a second init puts an existing row, whatever its
\* status, back to PENDING_ISSUANCE and keeps its other columns.
InitUpsert(h) ==
    /\ At(h, "init", "start")
    /\ policies' = [policies EXCEPT ![h.txn] =
           IF @.status = "NONE" THEN NewPolicy
                                ELSE [@ EXCEPT !.status = "PENDING_ISSUANCE"]]
    /\ Proceed(h, [h EXCEPT !.pc = "reply", !.code = "PENDING_ISSUANCE"])
    /\ UNCHANGED <<payments, released>>

--------------------------------------------------------------------------------
(* HandleConfirm: read the row, then answer, refuse or issue *)

ConfirmUnknown(h) ==
    /\ At(h, "confirm", "start")
    /\ policies[h.txn].status = "NONE"
    /\ Return(h)
    /\ UNCHANGED <<policies, payments, released>>

\* Variant: the stored number is not loaded before answering again.
ConfirmAgainBlank(h) ==
    /\ At(h, "confirm", "start")
    /\ policies[h.txn].status = "ACTIVE"
    /\ Proceed(h, [h EXCEPT !.pc = "reply", !.code = "ACTIVE"])
    /\ UNCHANGED <<policies, payments, released>>

\* Already issued: answer again with the number in the row.
ConfirmAgain(h) ==
    /\ At(h, "confirm", "start")
    /\ policies[h.txn].status = "ACTIVE"
    /\ Proceed(h, [h EXCEPT !.pc = "reply", !.code = "ACTIVE",
                            !.number = policies[h.txn].number])
    /\ UNCHANGED <<policies, payments, released>>

ConfirmUnpaid(h) ==
    /\ At(h, "confirm", "start")
    /\ policies[h.txn].status \in {"PENDING_ISSUANCE", "CANCELLED"}
    /\ ~policies[h.txn].paid
    /\ Proceed(h, [h EXCEPT !.pc = "reply", !.code = "PAYMENT_NOT_RECEIVED"])
    /\ UNCHANGED <<policies, payments, released>>

\* Variant: payment_received is not looked at.
ConfirmUnchecked(h) ==
    /\ At(h, "confirm", "start")
    /\ policies[h.txn].status \in {"PENDING_ISSUANCE", "CANCELLED"}
    /\ Proceed(h, [h EXCEPT !.pc = "count"])
    /\ UNCHANGED <<policies, payments, released>>

ConfirmPaid(h) ==
    /\ At(h, "confirm", "start")
    /\ policies[h.txn].status \in {"PENDING_ISSUANCE", "CANCELLED"}
    /\ policies[h.txn].paid
    /\ Proceed(h, [h EXCEPT !.pc = "count"])
    /\ UNCHANGED <<policies, payments, released>>

\* The next number is the count of active policies plus one; when the query
\* fails the error is ignored and the count is taken as 0.
ConfirmCount(h) ==
    /\ At(h, "confirm", "count")
    /\ \E n \in {Cardinality(ActiveTxns), 0} :
           Proceed(h, [h EXCEPT !.pc = "issue", !.number = n + 1])
    /\ UNCHANGED <<policies, payments, released>>

\* The UPDATE names the transaction only: whatever the row's status has become
\* since it was read, it is ACTIVE now.
ConfirmIssue(h) ==
    /\ At(h, "confirm", "issue")
    /\ policies' = [policies EXCEPT ![h.txn].status = "ACTIVE",
                                    ![h.txn].number = h.number]
    /\ Proceed(h, [h EXCEPT !.pc = "ledger", !.code = "ACTIVE"])
    /\ UNCHANGED <<payments, released>>

\* The payment row; a failed INSERT is ignored.
ConfirmLedger(h) ==
    /\ At(h, "confirm", "ledger")
    /\ \/ payments' = [payments EXCEPT ![h.txn].issue = OneMore(@)]
       \/ UNCHANGED payments
    /\ Proceed(h, [h EXCEPT !.pc = "reply"])
    /\ UNCHANGED <<policies, released>>

--------------------------------------------------------------------------------
(* HandlePaymentReceived, reached from the payment service and from the      *)
(* sandbox's SimulatePayment                                                  *)

\* An unknown transaction is an error, an ACTIVE policy needs no hold.
PaymentIgnored(h) ==
    /\ At(h, "payment", "start")
    /\ policies[h.txn].status \in {"NONE", "ACTIVE"}
    /\ Return(h)
    /\ UNCHANGED <<policies, payments, released>>

\* Variant: the ledger row is written before the policy row is updated.
PaymentLedgerFirst(h) ==
    /\ At(h, "payment", "start")
    /\ policies[h.txn].status \notin {"NONE", "ACTIVE"}
    /\ payments' = [payments EXCEPT ![h.txn].hold = OneMore(@)]
    /\ Proceed(h, [h EXCEPT !.pc = "hold"])
    /\ UNCHANGED <<policies, released>>

PaymentRead(h) ==
    /\ At(h, "payment", "start")
    /\ policies[h.txn].status \notin {"NONE", "ACTIVE"}
    /\ Proceed(h, [h EXCEPT !.pc = "hold"])
    /\ UNCHANGED <<policies, payments, released>>

\* Variant: the notification issues the policy too, as the comment in HandleConfirm
\* ("Already issued (e.g. by Xendit webhook)") has it.
PaymentIssues(h) ==
    /\ At(h, "payment", "hold")
    /\ policies' = [policies EXCEPT ![h.txn].paid = TRUE, ![h.txn].status = "ACTIVE",
                                    ![h.txn].number = Cardinality(ActiveTxns) + 1]
    /\ Proceed(h, [h EXCEPT !.pc = "ledger"])
    /\ UNCHANGED <<payments, released>>

PaymentHold(h) ==
    /\ At(h, "payment", "hold")
    /\ policies' = [policies EXCEPT ![h.txn].paid = TRUE]
    /\ Proceed(h, [h EXCEPT !.pc = "ledger"])
    /\ UNCHANGED <<payments, released>>

\* The payment row; a failed INSERT is ignored.  No Beckn answer is sent.
PaymentLedger(h) ==
    /\ At(h, "payment", "ledger")
    /\ \/ payments' = [payments EXCEPT ![h.txn].hold = OneMore(@)]
       \/ UNCHANGED payments
    /\ Return(h)
    /\ UNCHANGED <<policies, released>>

--------------------------------------------------------------------------------
(* HandleCancel *)

\* Variant: the UPDATE names the transaction only.
CancelAnyStatus(h) ==
    /\ At(h, "cancel", "start")
    /\ policies[h.txn].status # "NONE"
    /\ policies' = [policies EXCEPT ![h.txn].status = "CANCELLED"]
    /\ Proceed(h, [h EXCEPT !.pc = "reply", !.code = "CANCELLED"])
    /\ UNCHANGED <<payments, released>>

\* Variant: the code of the answer, CLOSED, is also written to the row, which
\* the enum policy_status does not have.
CancelClosed(h) ==
    /\ At(h, "cancel", "start")
    /\ policies[h.txn].status = "PENDING_ISSUANCE"
    /\ policies' = [policies EXCEPT ![h.txn].status = "CLOSED"]
    /\ Proceed(h, [h EXCEPT !.pc = "reply", !.code = "CANCELLED"])
    /\ UNCHANGED <<payments, released>>

\* Only a PENDING_ISSUANCE row changes, the answer says CANCELLED in any case
\* (also when the statement fails: its error is ignored).
CancelUpdate(h) ==
    /\ At(h, "cancel", "start")
    /\ \/ /\ policies[h.txn].status = "PENDING_ISSUANCE"
          /\ policies' = [policies EXCEPT ![h.txn].status = "CANCELLED"]
       \/ UNCHANGED policies
    /\ Proceed(h, [h EXCEPT !.pc = "reply", !.code = "CANCELLED"])
    /\ UNCHANGED <<payments, released>>

--------------------------------------------------------------------------------
(* HandleReconcile *)

\* The release call; whether the payment service accepts it is not looked at.
ReconcileRelease(h) ==
    /\ At(h, "reconcile", "start")
    /\ \/ released' = [released EXCEPT ![h.txn] = OneMore(@)]
       \/ UNCHANGED released
    /\ Proceed(h, [h EXCEPT !.pc = "settle"])
    /\ UNCHANGED <<policies, payments>>

\* UPDATE ... SET reconcile_status='SETTLED': no row, no change; its error is
\* ignored.
ReconcileSettle(h) ==
    /\ At(h, "reconcile", "settle")
    /\ \/ /\ policies[h.txn].status # "NONE"
          /\ policies' = [policies EXCEPT ![h.txn].reconcile = "SETTLED"]
       \/ UNCHANGED policies
    /\ Proceed(h, [h EXCEPT !.pc = "reply", !.code = "AGREED"])
    /\ UNCHANGED <<payments, released>>

--------------------------------------------------------------------------------
(* HandleStatus and GetPaymentStatus *)

\* The answer carries the row's status and number ("NONE" is sent as UNKNOWN).
StatusRead(h) ==
    /\ At(h, "status", "start")
    /\ Proceed(h, [h EXCEPT !.pc = "reply", !.code = policies[h.txn].status,
                            !.number = policies[h.txn].number])
    /\ UNCHANGED <<policies, payments, released>>

\* The stage GetPaymentStatus reports for an existing row.
SeamStage(p) ==
    IF p.paid /\ p.status # "ACTIVE" THEN "Stage 2: funds held"
    ELSE IF p.status = "ACTIVE" /\ p.reconcile # "SETTLED" THEN "Stage 3+4: policy active"
    ELSE IF p.reconcile = "SETTLED" THEN "Stage 5: settled, funds released"
    ELSE "Stage 1: awaiting payment"

--------------------------------------------------------------------------------
(* Answers, failures, restarts *)

AnswerOf(h) == [op |-> h.op, txn |-> h.txn, code |-> h.code, number |-> h.number]

\* callOnixCaller (postDirect for on_reconcile): the answer AnswerOf(h) leaves.
\* Whether it arrives is not looked at and nobody sends it again.
SendReply(h) ==
    /\ h.pc = "reply"
    /\ Return(h)
    /\ UNCHANGED <<policies, payments, released>>

\* A statement whose error the handler does return on fails: the webhook was
\* acknowledged long ago, so nobody hears of it.
StatementFails(h) ==
    /\ \/ At(h, "init", "start")
       \/ At(h, "confirm", "start")
       \/ At(h, "confirm", "issue")
       \/ At(h, "payment", "start")
       \/ At(h, "payment", "hold")
    /\ Return(h)
    /\ UNCHANGED <<policies, payments, released>>

\* The process is restarted: tables survive, goroutines do not.
Restart ==
    /\ handlers # {}
    /\ handlers' = {}
    /\ UNCHANGED <<policies, payments, released>>

--------------------------------------------------------------------------------

HandlerStep(h) ==
    \/ InitBadNik(h)
    \/ InitUpsert(h)
    \/ ConfirmUnknown(h)
    \/ ConfirmAgain(h)
    \/ ConfirmUnpaid(h)
    \/ ConfirmPaid(h)
    \/ ConfirmCount(h)
    \/ ConfirmIssue(h)
    \/ ConfirmLedger(h)
    \/ PaymentIgnored(h)
    \/ PaymentRead(h)
    \/ PaymentHold(h)
    \/ PaymentLedger(h)
    \/ CancelUpdate(h)
    \/ ReconcileRelease(h)
    \/ ReconcileSettle(h)
    \/ StatusRead(h)
    \/ SendReply(h)
    \/ StatementFails(h)

Next ==
    \/ \E id \in Goroutine, op \in Op, t \in Txn : Accept(id, op, t)
    \/ \E h \in handlers : HandlerStep(h)
    \/ Restart

Spec == Init /\ [][Next]_vars

--------------------------------------------------------------------------------
(* Properties *)

\* Cover is never active for a premium that was not reported as held, however
\* confirms, notifications, second inits and restarts interleave: HandleConfirm
\* reads payment_received several statements before it issues.
IssuedOnlyWhenPaid ==
    \A t \in Txn : policies[t].status = "ACTIVE" => policies[t].paid

\* The ledger never runs ahead of the policies it accounts for: a hold row is
\* written only for a policy marked as paid, an issue row only for one with a
\* number, also when a handler dies between its two statements.
LedgerBacked ==
    \A t \in Txn :
        /\ payments[t].hold > 0 => policies[t].paid
        /\ payments[t].issue > 0 => policies[t].number # 0

\* No answer about to leave for the buyer, be it on_confirm or on_status, says
\* ACTIVE without a number, or for a policy that is unpaid or has none by now.
AnnouncedCoverIsReal ==
    \A h \in handlers : h.pc = "reply" /\ AnswerOf(h).code = "ACTIVE" =>
        /\ AnswerOf(h).number # 0
        /\ policies[h.txn].paid
        /\ policies[h.txn].number # 0

\* What the insurer has recorded about a transaction is never lost: the row
\* stays, a payment stays received, a settlement stays settled and a policy that
\* has a number keeps having one, whatever a second init or a retry does.
NothingForgotten ==
    [][\A t \in Txn :
          /\ policies[t].status # "NONE" => policies'[t].status # "NONE"
          /\ policies[t].paid => policies'[t].paid
          /\ policies[t].reconcile = "SETTLED" => policies'[t].reconcile = "SETTLED"
          /\ policies[t].number # 0 => policies'[t].number # 0]_vars

\* An ACTIVE policy leaves that status in one way only, a second init for its
\* transaction; no cancel that raced with the confirm ends the cover.
CoverEndsOnlyByInit ==
    [][\A t \in Txn :
          policies[t].status = "ACTIVE" /\ policies'[t].status # "ACTIVE" =>
              /\ policies'[t].status = "PENDING_ISSUANCE"
              /\ \E h \in handlers : h.op = "init" /\ h.txn = t]_vars

\* The handlers of op before one of the statements pcs, as calls of the contract.
UnderWay(op, pcs) ==
    {r \in Goroutine \X Txn :
        \E h \in handlers : h.op = op /\ h.pc \in pcs /\ h.id = r[1] /\ h.txn = r[2]}

\* The abstract view: which transactions have a row, a payment, a number, cover;
\* the inits before their upsert, the confirms before the UPDATE that issues.
COVER == INSTANCE CoverContract WITH
    Call <- Goroutine,
    known <- {t \in Txn : policies[t].status # "NONE"},
    held <- {t \in Txn : policies[t].paid},
    covered <- {t \in Txn : policies[t].number # 0},
    inForce <- {t \in Txn : policies[t].status = "ACTIVE"},
    inits <- UnderWay("init", {"start"}),
    confirms <- UnderWay("confirm", {"start", "count", "issue"})

\* Every behaviour of the handlers is one of the contract: a premium is held only
\* for a policy asked for; cover begins only by a confirm under way, with the
\* premium held, and ends only by an init under way; each of them does so once,
\* and no notification, cancel, retry or restart does either.
ImplementsCover == COVER!Spec

--------------------------------------------------------------------------------
(* Statements of the repository that the handlers do not keep *)

\* "idempotent" (beckn.go:515): recording a payment again changes nothing, so
\* one payment leaves at most one hold row.
PaymentIsIdempotent ==
    \A t \in Txn : payments[t].hold <= 1

\* "Stage 5 - Settled (funds released with splits)" (beckn.go:705): when the
\* payment status says so the payment service has released the funds.
SettledMeansReleased ==
    \A t \in Txn :
        SeamStage(policies[t]) = "Stage 5: settled, funds released" => released[t] > 0

\* "Already issued (e.g. by Xendit webhook) - just resend on_confirm"
\* (beckn.go:386): an ACTIVE policy is not issued again, its number stays.
IssuedOnce ==
    [][\A t \in Txn : policies[t].status = "ACTIVE" =>
          policies'[t].number = policies[t].number]_vars
=================================================================================
