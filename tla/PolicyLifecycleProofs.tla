------------------------- MODULE PolicyLifecycleProofs -------------------------
(***************************************************************************)
(* Theorems about PolicyLifecycle for every set of transactions, any       *)
(* number of concurrent handlers and any MaxRows.                          *)
(***************************************************************************)
EXTENDS PolicyLifecycle, FiniteSetTheorems, TLAPS

(***************************************************************************)
(* The strengthening.  A handler acts on what it read some statements ago, *)
(* so the safety properties are inductive only with what is still true of  *)
(* the row when the handler comes to use it: payment_received and a number *)
(* are never taken back, hence a confirm past its check still has a paid   *)
(* row, a confirm past its UPDATE a numbered one, and an ACTIVE answer     *)
(* stays justified while it waits to be sent.                              *)
(***************************************************************************)
StillTrue(h) ==
    /\ h.op = "confirm" /\ h.pc \in {"count", "issue", "ledger"} => policies[h.txn].paid
    /\ h.op = "confirm" /\ h.pc \in {"issue", "ledger"} => h.number # 0
    /\ h.op = "confirm" /\ h.pc = "ledger" => policies[h.txn].number # 0
    /\ h.op = "payment" /\ h.pc = "hold" => policies[h.txn].status # "NONE"
    /\ h.op = "payment" /\ h.pc = "ledger" => policies[h.txn].paid
    /\ h.code = "ACTIVE" =>
           /\ h.number # 0
           /\ policies[h.txn].paid
           /\ policies[h.txn].number # 0

RowSound(t) ==
    /\ policies[t].status = "ACTIVE" => policies[t].paid /\ policies[t].number # 0
    /\ policies[t].number # 0 => policies[t].paid
    /\ policies[t].status = "NONE" => policies[t] = NoPolicy

IInv ==
    /\ TypeOK
    /\ \A h \in handlers : StillTrue(h)
    /\ \A t \in Txn : RowSound(t)
    /\ LedgerBacked

USE DEF At, Return, Proceed, Handler, Op, Pc, Code, Status, Policy, Ledger,
        NoPolicy, NewPolicy

--------------------------------------------------------------------------------
(* Lemmas about the operators *)

\* Counting one more row stays within the bound.
LEMMA OneMoreType == \A n \in 0..MaxRows : OneMore(n) \in 0..MaxRows
BY ConstantsAssumption DEF OneMore

\* The number of active policies is a natural number: there are finitely many
\* transactions.
LEMMA ActiveCount == Cardinality(ActiveTxns) \in Nat
<1>1. ActiveTxns \subseteq Txn
  BY DEF ActiveTxns
<1> QED
  BY <1>1, ConstantsAssumption, FS_Subset, FS_CardinalityType

--------------------------------------------------------------------------------
(* Initial states *)

LEMMA InitIInv == Init => IInv
BY ConstantsAssumption DEF Init, IInv, TypeOK, LedgerBacked, RowSound, StillTrue

--------------------------------------------------------------------------------
(* Steps *)

\* No step takes a payment or a number back.
Monotone ==
    \A t \in Txn :
        /\ policies[t].status # "NONE" => policies'[t].status # "NONE"
        /\ policies[t].paid => policies'[t].paid
        /\ policies[t].reconcile = "SETTLED" => policies'[t].reconcile = "SETTLED"
        /\ policies[t].number # 0 => policies'[t].number # 0

\* What a handler relies on survives every step that takes nothing back.
LEMMA StillTrueKept ==
    ASSUME Monotone, NEW h \in Handler, StillTrue(h)
    PROVE  StillTrue(h)'
BY DEF Monotone, StillTrue

\* A step of handler h that changes no table keeps the invariant when what h
\* relies on next is true already.
LEMMA ReadStep ==
    ASSUME IInv, NEW h \in handlers, NEW g \in Handler, StillTrue(g),
           UNCHANGED <<policies, payments, released>>,
           handlers' \subseteq handlers \cup {g}
    PROVE  IInv' /\ Monotone
<1>1. Monotone
  BY DEF Monotone
<1>2. TypeOK' /\ LedgerBacked' /\ \A t \in Txn : RowSound(t)'
  BY DEF IInv, TypeOK, LedgerBacked, RowSound
<1>3. \A k \in handlers' : StillTrue(k)'
  BY DEF IInv, StillTrue
<1> QED
  BY <1>1, <1>2, <1>3 DEF IInv

\* A handler that returns, or all of them at a restart.
LEMMA ReturnStep ==
    ASSUME IInv, UNCHANGED <<policies, payments, released>>, handlers' \subseteq handlers
    PROVE  IInv' /\ Monotone
BY DEF IInv, TypeOK, LedgerBacked, RowSound, StillTrue, Monotone

\* A step of handler h that rewrites the row of its transaction.
LEMMA RowStep ==
    ASSUME IInv, NEW h \in handlers, NEW g \in Handler, NEW p \in Policy,
           policies' = [policies EXCEPT ![h.txn] = p],
           p.status # "NONE",
           policies[h.txn].paid => p.paid,
           policies[h.txn].reconcile = "SETTLED" => p.reconcile = "SETTLED",
           policies[h.txn].number # 0 => p.number # 0,
           p.status = "ACTIVE" => p.paid /\ p.number # 0,
           p.number # 0 => p.paid,
           StillTrue(g)',
           handlers' \subseteq (handlers \cup {g}),
           UNCHANGED <<payments, released>>
    PROVE  IInv' /\ Monotone
<1>1. h \in Handler /\ h.txn \in Txn
  BY DEF IInv, TypeOK
<1>2. /\ policies'[h.txn] = p
      /\ \A t \in Txn \ {h.txn} : policies'[t] = policies[t]
  BY <1>1 DEF IInv, TypeOK
<1>3. Monotone
  BY ZenonT(60), <1>1, <1>2 DEF Monotone
<1>4. TypeOK'
  BY <1>1 DEF IInv, TypeOK
<1>5. \A k \in handlers' : StillTrue(k)'
  BY <1>3, StillTrueKept DEF IInv, TypeOK
<1>6. \A t \in Txn : RowSound(t)'
  BY ZenonT(60), <1>2 DEF IInv, RowSound
<1>7. LedgerBacked'
  BY <1>3 DEF IInv, LedgerBacked, Monotone
<1> QED
  BY <1>3, <1>4, <1>5, <1>6, <1>7 DEF IInv

\* A step of handler h that rewrites the ledger of its transaction.
LEMMA LedgerStep ==
    ASSUME IInv, NEW h \in handlers, NEW g \in Handler, NEW q \in Ledger,
           StillTrue(g), handlers' \subseteq (handlers \cup {g}),
           payments' = [payments EXCEPT ![h.txn] = q],
           q.hold > 0 => policies[h.txn].paid,
           q.issue > 0 => policies[h.txn].number # 0,
           UNCHANGED <<policies, released>>
    PROVE  IInv' /\ Monotone
<1>1. h.txn \in Txn
  BY DEF IInv, TypeOK
<1>2. /\ payments'[h.txn] = q
      /\ \A t \in Txn \ {h.txn} : payments'[t] = payments[t]
  BY <1>1 DEF IInv, TypeOK
<1>3. TypeOK'
  BY <1>1 DEF IInv, TypeOK
<1>4. LedgerBacked'
  BY <1>2 DEF IInv, LedgerBacked
<1> QED
  BY ZenonT(60), <1>3, <1>4 DEF IInv, RowSound, StillTrue, Monotone

--------------------------------------------------------------------------------
(* One lemma per group of actions *)

\* HandleInit keeps payment, number and settlement of an existing row.
LEMMA InitSteps ==
    ASSUME IInv, NEW h \in handlers, InitUpsert(h)
    PROVE  IInv' /\ Monotone
<1> DEFINE g == [h EXCEPT !.pc = "reply", !.code = "PENDING_ISSUANCE"]
           p == IF policies[h.txn].status = "NONE" THEN NewPolicy
                ELSE [policies[h.txn] EXCEPT !.status = "PENDING_ISSUANCE"]
<1>1. h \in Handler /\ h.txn \in Txn /\ policies[h.txn] \in Policy
  BY DEF IInv, TypeOK
<1>2. /\ policies' = [policies EXCEPT ![h.txn] = p]
      /\ handlers' = (handlers \ {h}) \cup {g}
      /\ UNCHANGED <<payments, released>>
  BY <1>1 DEF InitUpsert
<1>3. g \in Handler /\ StillTrue(g)'
  BY <1>1 DEF StillTrue
<1>4. /\ p \in Policy /\ p.status = "PENDING_ISSUANCE"
      /\ policies[h.txn].status # "NONE" =>
             /\ p.paid = policies[h.txn].paid
             /\ p.number = policies[h.txn].number
             /\ p.reconcile = policies[h.txn].reconcile
  BY <1>1
<1>5. policies[h.txn].status = "NONE" => p.number = 0
  BY <1>1
<1>6. RowSound(h.txn)
  BY <1>1 DEF IInv
<1>7. policies[h.txn].status = "NONE" =>
          /\ ~policies[h.txn].paid
          /\ policies[h.txn].number = 0
          /\ policies[h.txn].reconcile = "PENDING"
  BY <1>6 DEF RowSound
<1>8. p.number # 0 => p.paid
  BY <1>4, <1>5, <1>6 DEF RowSound
<1> HIDE DEF g, p
<1> QED
  BY <1>2, <1>3, <1>4, <1>7, <1>8, RowStep

\* HandleConfirm: what it read is still good enough when it issues.
LEMMA ConfirmSteps ==
    ASSUME IInv, NEW h \in handlers,
           \/ ConfirmUnknown(h) \/ ConfirmAgain(h) \/ ConfirmUnpaid(h) \/ ConfirmPaid(h)
           \/ ConfirmCount(h) \/ ConfirmIssue(h) \/ ConfirmLedger(h)
    PROVE  IInv' /\ Monotone
<1>1. h \in Handler /\ h.txn \in Txn /\ policies[h.txn] \in Policy /\ payments[h.txn] \in Ledger
  BY DEF IInv, TypeOK
<1>2. StillTrue(h) /\ RowSound(h.txn)
  BY <1>1 DEF IInv
<1>3. CASE ConfirmUnknown(h)
  BY <1>3, ReturnStep DEF ConfirmUnknown
<1>4. CASE ConfirmAgain(h)
  <2> DEFINE g == [h EXCEPT !.pc = "reply", !.code = "ACTIVE",
                            !.number = policies[h.txn].number]
  <2>1. g \in Handler /\ StillTrue(g)
    BY <1>1, <1>2, <1>4 DEF ConfirmAgain, StillTrue, RowSound
  <2> QED
    BY <1>4, <2>1, ReadStep DEF ConfirmAgain
<1>5. CASE ConfirmUnpaid(h)
  <2> DEFINE g == [h EXCEPT !.pc = "reply", !.code = "PAYMENT_NOT_RECEIVED"]
  <2>1. g \in Handler /\ StillTrue(g)
    BY <1>1, <1>5 DEF ConfirmUnpaid, StillTrue
  <2> QED
    BY <1>5, <2>1, ReadStep DEF ConfirmUnpaid
<1>6. CASE ConfirmPaid(h)
  <2> DEFINE g == [h EXCEPT !.pc = "count"]
  <2>1. g \in Handler /\ StillTrue(g)
    BY <1>1, <1>2, <1>6 DEF ConfirmPaid, StillTrue
  <2> QED
    BY <1>6, <2>1, ReadStep DEF ConfirmPaid
<1>7. CASE ConfirmCount(h)
  <2>1. PICK n \in {Cardinality(ActiveTxns), 0} :
            handlers' = (handlers \ {h}) \cup {[h EXCEPT !.pc = "issue", !.number = n + 1]}
    BY <1>7 DEF ConfirmCount
  <2> DEFINE g == [h EXCEPT !.pc = "issue", !.number = n + 1]
  <2>2. n + 1 \in Nat /\ n + 1 # 0
    BY ActiveCount
  <2>3. g \in Handler
    BY <1>1, <2>2
  <2>4. /\ g.op = h.op /\ g.txn = h.txn /\ g.code = h.code /\ g.number = n + 1 /\ g.pc = "issue"
        /\ h.op = "confirm" /\ h.pc = "count"
    BY <1>1, <1>7 DEF ConfirmCount
  <2>5. StillTrue(g)
    BY <1>2, <2>2, <2>4 DEF StillTrue
  <2> QED
    BY <1>7, <2>1, <2>3, <2>5, ReadStep DEF ConfirmCount
<1>8. CASE ConfirmIssue(h)
  <2> DEFINE g == [h EXCEPT !.pc = "ledger", !.code = "ACTIVE"]
             p == [policies[h.txn] EXCEPT !.status = "ACTIVE", !.number = h.number]
  <2>1. /\ policies' = [policies EXCEPT ![h.txn] = p]
        /\ handlers' = (handlers \ {h}) \cup {g}
        /\ UNCHANGED <<payments, released>>
    BY <1>1, <1>8 DEF ConfirmIssue, IInv, TypeOK
  <2>2. /\ h.number # 0 /\ policies[h.txn].paid
        /\ h.op = "confirm"
    BY <1>2, <1>8 DEF ConfirmIssue, StillTrue
  <2>3. p \in Policy /\ p.status = "ACTIVE" /\ p.number = h.number /\ p.paid
        /\ p.reconcile = policies[h.txn].reconcile
    BY <1>1, <2>2
  <2>4. policies'[h.txn] = p
    BY <1>1, <2>1 DEF IInv, TypeOK
  <2>5. g \in Handler /\ g.txn = h.txn /\ g.number = h.number /\ g.op = "confirm"
        /\ g.pc = "ledger" /\ g.code = "ACTIVE"
    BY <1>1, <2>2
  <2>6. StillTrue(g)'
    BY <2>2, <2>3, <2>4, <2>5 DEF StillTrue
  <2> HIDE DEF g, p
  <2> QED
    BY <2>1, <2>2, <2>3, <2>5, <2>6, RowStep
<1>9. CASE ConfirmLedger(h)
  <2> DEFINE g == [h EXCEPT !.pc = "reply"]
  <2>1. g \in Handler /\ StillTrue(g)
    BY <1>1, <1>2, <1>9 DEF ConfirmLedger, StillTrue
  <2>2. policies[h.txn].number # 0
    BY <1>2, <1>9 DEF ConfirmLedger, StillTrue
  <2>3. CASE UNCHANGED payments
    BY <1>9, <2>1, <2>3, ReadStep DEF ConfirmLedger
  <2>4. CASE payments' = [payments EXCEPT ![h.txn].issue = OneMore(@)]
    <3> DEFINE q == [payments[h.txn] EXCEPT !.issue = OneMore(payments[h.txn].issue)]
    <3>1. q \in Ledger /\ q.hold = payments[h.txn].hold
      BY <1>1, OneMoreType
    <3>2. /\ payments' = [payments EXCEPT ![h.txn] = q]
          /\ handlers' = (handlers \ {h}) \cup {g}
          /\ UNCHANGED <<policies, released>>
      BY <1>1, <1>9, <2>4 DEF ConfirmLedger, IInv, TypeOK
    <3>3. q.hold > 0 => policies[h.txn].paid
      BY <1>1, <3>1 DEF IInv, LedgerBacked
    <3> HIDE DEF q, g
    <3> QED
      BY <2>1, <2>2, <3>1, <3>2, <3>3, LedgerStep
  <2> QED
    BY <1>9, <2>3, <2>4 DEF ConfirmLedger
<1> QED
  BY <1>3, <1>4, <1>5, <1>6, <1>7, <1>8, <1>9

\* HandlePaymentReceived: the hold row follows the mark it accounts for.
LEMMA PaymentSteps ==
    ASSUME IInv, NEW h \in handlers,
           PaymentIgnored(h) \/ PaymentRead(h) \/ PaymentHold(h) \/ PaymentLedger(h)
    PROVE  IInv' /\ Monotone
<1>1. h \in Handler /\ h.txn \in Txn /\ policies[h.txn] \in Policy /\ payments[h.txn] \in Ledger
  BY DEF IInv, TypeOK
<1>2. StillTrue(h) /\ RowSound(h.txn)
  BY <1>1 DEF IInv
<1>3. CASE PaymentIgnored(h)
  BY <1>3, ReturnStep DEF PaymentIgnored
<1>4. CASE PaymentRead(h)
  <2> DEFINE g == [h EXCEPT !.pc = "hold"]
  <2>1. g \in Handler /\ StillTrue(g)
    BY <1>1, <1>2, <1>4 DEF PaymentRead, StillTrue
  <2> QED
    BY <1>4, <2>1, ReadStep DEF PaymentRead
<1>5. CASE PaymentHold(h)
  <2> DEFINE g == [h EXCEPT !.pc = "ledger"]
             p == [policies[h.txn] EXCEPT !.paid = TRUE]
  <2>1. /\ policies' = [policies EXCEPT ![h.txn] = p]
        /\ handlers' = (handlers \ {h}) \cup {g}
        /\ UNCHANGED <<payments, released>>
    BY <1>1, <1>5 DEF PaymentHold, IInv, TypeOK
  <2>2. /\ p \in Policy /\ p.paid /\ p.status = policies[h.txn].status
        /\ p.number = policies[h.txn].number /\ p.reconcile = policies[h.txn].reconcile
    BY <1>1
  <2>3. policies'[h.txn] = p
    BY <1>1, <2>1 DEF IInv, TypeOK
  <2>4. g \in Handler /\ StillTrue(g)'
    BY ZenonT(60), <1>1, <1>2, <1>5, <2>2, <2>3 DEF PaymentHold, StillTrue
  <2>5. policies[h.txn].status # "NONE"
    BY <1>2, <1>5 DEF PaymentHold, StillTrue
  <2> HIDE DEF g, p
  <2> QED
    BY <1>2, <2>1, <2>2, <2>4, <2>5, RowStep DEF RowSound
<1>6. CASE PaymentLedger(h)
  <2>1. policies[h.txn].paid
    BY <1>2, <1>6 DEF PaymentLedger, StillTrue
  <2>2. CASE UNCHANGED payments
    BY <1>6, <2>2, ReturnStep DEF PaymentLedger
  <2>3. CASE payments' = [payments EXCEPT ![h.txn].hold = OneMore(@)]
    <3> DEFINE q == [payments[h.txn] EXCEPT !.hold = OneMore(payments[h.txn].hold)]
    <3>1. q \in Ledger /\ q.issue = payments[h.txn].issue
      BY <1>1, OneMoreType
    <3>2. /\ payments' = [payments EXCEPT ![h.txn] = q]
          /\ handlers' = handlers \ {h}
          /\ UNCHANGED <<policies, released>>
      BY <1>1, <1>6, <2>3 DEF PaymentLedger, IInv, TypeOK
    <3>3. q.issue > 0 => policies[h.txn].number # 0
      BY <1>1, <3>1 DEF IInv, LedgerBacked
    <3> HIDE DEF q
    <3> QED
      BY <1>1, <1>2, <2>1, <3>1, <3>2, <3>3, LedgerStep
  <2> QED
    BY <1>6, <2>2, <2>3 DEF PaymentLedger
<1> QED
  BY <1>3, <1>4, <1>5, <1>6

\* HandleCancel, HandleReconcile and HandleStatus.
LEMMA OtherSteps ==
    ASSUME IInv, NEW h \in handlers,
           CancelUpdate(h) \/ ReconcileRelease(h) \/ ReconcileSettle(h) \/ StatusRead(h)
    PROVE  IInv' /\ Monotone
<1>1. h \in Handler /\ h.txn \in Txn /\ policies[h.txn] \in Policy
  BY DEF IInv, TypeOK
<1>2. StillTrue(h) /\ RowSound(h.txn)
  BY <1>1 DEF IInv
<1>3. CASE CancelUpdate(h)
  <2> DEFINE g == [h EXCEPT !.pc = "reply", !.code = "CANCELLED"]
             p == [policies[h.txn] EXCEPT !.status = "CANCELLED"]
  <2>1. /\ g \in Handler /\ g.pc = "reply" /\ g.code = "CANCELLED"
        /\ handlers' = (handlers \ {h}) \cup {g}
        /\ UNCHANGED <<payments, released>>
    BY <1>1, <1>3 DEF CancelUpdate
  <2>2. StillTrue(g) /\ StillTrue(g)'
    BY <2>1 DEF StillTrue
  <2>3. CASE UNCHANGED policies
    BY <2>1, <2>2, <2>3, ReadStep
  <2>4. CASE /\ policies[h.txn].status = "PENDING_ISSUANCE"
             /\ policies' = [policies EXCEPT ![h.txn].status = "CANCELLED"]
    <3>1. policies' = [policies EXCEPT ![h.txn] = p]
      BY <1>1, <2>4 DEF IInv, TypeOK
    <3>2. /\ p \in Policy /\ p.paid = policies[h.txn].paid /\ p.status = "CANCELLED"
          /\ p.number = policies[h.txn].number /\ p.reconcile = policies[h.txn].reconcile
      BY <1>1
    <3> HIDE DEF g, p
    <3> QED
      BY <1>2, <2>1, <2>2, <2>4, <3>1, <3>2, RowStep DEF RowSound
  <2> QED
    BY <1>3, <2>3, <2>4 DEF CancelUpdate
<1>4. CASE ReconcileRelease(h)
  <2> DEFINE g == [h EXCEPT !.pc = "settle"]
  <2>1. g \in Handler /\ StillTrue(g)
    BY <1>1, <1>2, <1>4 DEF ReconcileRelease, StillTrue
  <2>2. handlers' = (handlers \ {h}) \cup {g} /\ UNCHANGED <<policies, payments>>
    BY <1>4 DEF ReconcileRelease
  <2>3. released' \in [Txn -> 0..MaxRows]
    <3>1. released[h.txn] \in 0..MaxRows
      BY <1>1 DEF IInv, TypeOK
    <3>2. OneMore(released[h.txn]) \in 0..MaxRows
      BY <3>1, OneMoreType
    <3> QED
      BY <1>1, <1>4, <3>2 DEF ReconcileRelease, IInv, TypeOK
  <2> HIDE DEF g
  <2> QED
    BY ZenonT(60), <2>1, <2>2, <2>3 DEF IInv, TypeOK, LedgerBacked, RowSound, StillTrue, Monotone
<1>5. CASE ReconcileSettle(h)
  <2> DEFINE g == [h EXCEPT !.pc = "reply", !.code = "AGREED"]
             p == [policies[h.txn] EXCEPT !.reconcile = "SETTLED"]
  <2>1. /\ g \in Handler /\ g.pc = "reply" /\ g.code = "AGREED"
        /\ handlers' = (handlers \ {h}) \cup {g}
        /\ UNCHANGED <<payments, released>>
    BY <1>1, <1>5 DEF ReconcileSettle
  <2>2. StillTrue(g) /\ StillTrue(g)'
    BY <2>1 DEF StillTrue
  <2>3. CASE UNCHANGED policies
    BY <2>1, <2>2, <2>3, ReadStep
  <2>4. CASE /\ policies[h.txn].status # "NONE"
             /\ policies' = [policies EXCEPT ![h.txn].reconcile = "SETTLED"]
    <3>1. policies' = [policies EXCEPT ![h.txn] = p]
      BY <1>1, <2>4 DEF IInv, TypeOK
    <3>2. /\ p \in Policy /\ p.paid = policies[h.txn].paid /\ p.reconcile = "SETTLED"
          /\ p.number = policies[h.txn].number /\ p.status = policies[h.txn].status
      BY <1>1
    <3> HIDE DEF g, p
    <3> QED
      BY <1>2, <2>1, <2>2, <2>4, <3>1, <3>2, RowStep DEF RowSound
  <2> QED
    BY <1>5, <2>3, <2>4 DEF ReconcileSettle
<1>6. CASE StatusRead(h)
  <2> DEFINE g == [h EXCEPT !.pc = "reply", !.code = policies[h.txn].status,
                            !.number = policies[h.txn].number]
  <2>1. g \in Handler /\ StillTrue(g)
    BY <1>1, <1>2, <1>6 DEF StatusRead, StillTrue, RowSound
  <2> QED
    BY <1>6, <2>1, ReadStep DEF StatusRead
<1> QED
  BY <1>3, <1>4, <1>5, <1>6

--------------------------------------------------------------------------------
(* The induction step *)

LEMMA NextIInv == IInv /\ [Next]_vars => IInv' /\ Monotone
<1> SUFFICES ASSUME IInv, [Next]_vars PROVE IInv' /\ Monotone
  OBVIOUS
<1>1. ASSUME NEW id \in Goroutine, NEW op \in Op, NEW t \in Txn, Accept(id, op, t)
      PROVE  IInv' /\ Monotone
  <2> DEFINE g == [id |-> id, op |-> op, txn |-> t, pc |-> "start", code |-> "", number |-> 0]
  <2>1. g \in Handler /\ StillTrue(g)
    BY DEF StillTrue
  <2>2. handlers' = handlers \cup {g} /\ UNCHANGED <<policies, payments, released>>
    BY <1>1 DEF Accept
  <2> HIDE DEF g
  <2> QED
    BY ZenonT(60), <2>1, <2>2 DEF IInv, TypeOK, LedgerBacked, RowSound, StillTrue, Monotone
<1>2. ASSUME NEW h \in handlers, HandlerStep(h)
      PROVE  IInv' /\ Monotone
  <2>1. CASE InitBadNik(h) \/ SendReply(h) \/ StatementFails(h)
    BY <2>1, ReturnStep DEF InitBadNik, SendReply, StatementFails
  <2>2. CASE ~(InitBadNik(h) \/ SendReply(h) \/ StatementFails(h))
    BY <1>2, <2>2, InitSteps, ConfirmSteps, PaymentSteps, OtherSteps DEF HandlerStep
  <2> QED
    BY <2>1, <2>2
<1>3. CASE Restart
  BY <1>3, ReturnStep DEF Restart
<1>4. CASE UNCHANGED vars
  BY <1>4, ReturnStep DEF vars
<1> QED
  BY <1>1, <1>2, <1>3, <1>4 DEF Next

LEMMA Invariance == Spec => []IInv
BY InitIInv, NextIInv, PTL DEF Spec

--------------------------------------------------------------------------------
(* The theorems *)

\* The tables and the handlers keep their types.
THEOREM TypeCorrect == Spec => []TypeOK
<1>1. IInv => TypeOK
  BY DEF IInv
<1> QED
  BY <1>1, Invariance, PTL

\* HandleConfirm never issues for a transaction without a reported payment.
THEOREM PaidBeforeIssue == Spec => []IssuedOnlyWhenPaid
<1>1. IInv => IssuedOnlyWhenPaid
  BY DEF IInv, RowSound, IssuedOnlyWhenPaid
<1> QED
  BY <1>1, Invariance, PTL

\* The payments table never holds a row its policy does not account for.
THEOREM LedgerIsBacked == Spec => []LedgerBacked
<1>1. IInv => LedgerBacked
  BY DEF IInv
<1> QED
  BY <1>1, Invariance, PTL

\* on_confirm and on_status never announce cover that is not there.
THEOREM AnswersAreReal == Spec => []AnnouncedCoverIsReal
<1>1. IInv => AnnouncedCoverIsReal
  BY DEF IInv, StillTrue, AnnouncedCoverIsReal, AnswerOf
<1> QED
  BY <1>1, Invariance, PTL

\* A second init, a retry or a restart never loses what was recorded.
THEOREM RecordsAreKept == Spec => NothingForgotten
<1>1. IInv /\ [Next]_vars =>
          [\A t \in Txn :
              /\ policies[t].status # "NONE" => policies'[t].status # "NONE"
              /\ policies[t].paid => policies'[t].paid
              /\ policies[t].reconcile = "SETTLED" => policies'[t].reconcile = "SETTLED"
              /\ policies[t].number # 0 => policies'[t].number # 0]_vars
  BY NextIInv DEF Monotone
<1> QED
  BY <1>1, Invariance, PTL DEF Spec, NothingForgotten

--------------------------------------------------------------------------------
(* Who changes a row, and how *)

\* The steps that change no row of policies.
LEMMA RowsUntouched ==
    ASSUME NEW h \in handlers, HandlerStep(h),
           ~InitUpsert(h), ~ConfirmIssue(h), ~PaymentHold(h),
           ~CancelUpdate(h), ~ReconcileSettle(h)
    PROVE  UNCHANGED policies
BY DEF HandlerStep, InitBadNik, ConfirmUnknown, ConfirmAgain, ConfirmUnpaid, ConfirmPaid,
       ConfirmCount, ConfirmLedger, PaymentIgnored, PaymentRead, PaymentLedger,
       ReconcileRelease, StatusRead, SendReply, StatementFails

\* What each of the other five writes to the row of its transaction, and that
\* it writes to no other row.
LEMMA RowsWritten ==
    ASSUME TypeOK, NEW h \in handlers
    PROVE  LET u == h.txn IN
           /\ InitUpsert(h) \/ ConfirmIssue(h) \/ PaymentHold(h) \/ CancelUpdate(h)
                  \/ ReconcileSettle(h) =>
                  \A t \in Txn \ {u} : policies'[t] = policies[t]
           /\ InitUpsert(h) =>
                  /\ policies'[u].status = "PENDING_ISSUANCE"
                  /\ policies[u].status # "NONE" =>
                         /\ policies'[u].paid = policies[u].paid
                         /\ policies'[u].number = policies[u].number
                  /\ policies[u].status = "NONE" =>
                         policies'[u].paid = FALSE /\ policies'[u].number = 0
           /\ ConfirmIssue(h) =>
                  /\ policies'[u].status = "ACTIVE"
                  /\ policies'[u].paid = policies[u].paid
                  /\ policies'[u].number = h.number
           /\ PaymentHold(h) =>
                  /\ policies'[u].status = policies[u].status
                  /\ policies'[u].paid = TRUE
                  /\ policies'[u].number = policies[u].number
           /\ CancelUpdate(h) =>
                  /\ policies[u].status = "ACTIVE" => policies'[u].status = "ACTIVE"
                  /\ policies'[u].paid = policies[u].paid
                  /\ policies'[u].number = policies[u].number
           /\ ReconcileSettle(h) =>
                  /\ policies'[u].status = policies[u].status
                  /\ policies'[u].paid = policies[u].paid
                  /\ policies'[u].number = policies[u].number
<1> DEFINE u == h.txn
<1>1. u \in Txn /\ policies[u] \in Policy /\ policies \in [Txn -> Policy]
  BY DEF TypeOK
<1>2. ASSUME NEW p \in Policy, policies' = [policies EXCEPT ![u] = p]
      PROVE  policies'[u] = p /\ \A t \in Txn \ {u} : policies'[t] = policies[t]
  BY <1>1, <1>2
<1> HIDE DEF Policy
<1>3. CASE InitUpsert(h)
  <2> DEFINE p == IF policies[u].status = "NONE" THEN NewPolicy
                  ELSE [policies[u] EXCEPT !.status = "PENDING_ISSUANCE"]
  <2>1. policies' = [policies EXCEPT ![u] = p]
    BY <1>3 DEF InitUpsert
  <2>2. /\ p \in Policy /\ p.status = "PENDING_ISSUANCE"
        /\ policies[u].status # "NONE" =>
               p.paid = policies[u].paid /\ p.number = policies[u].number
        /\ policies[u].status = "NONE" => p.paid = FALSE /\ p.number = 0
    BY <1>1 DEF Policy
  <2>3. h.op = "init"
    BY <1>3 DEF InitUpsert
  <2> HIDE DEF p
  <2> QED
    BY <1>2, <2>1, <2>2, <2>3 DEF ConfirmIssue, PaymentHold, CancelUpdate, ReconcileSettle
<1>4. CASE ConfirmIssue(h)
  <2> DEFINE p == [policies[u] EXCEPT !.status = "ACTIVE", !.number = h.number]
  <2>1. policies' = [policies EXCEPT ![u] = p]
    BY <1>1, <1>4 DEF ConfirmIssue
  <2>2. /\ p \in Policy /\ p.status = "ACTIVE" /\ p.paid = policies[u].paid
        /\ p.number = h.number
    BY <1>1 DEF Policy, TypeOK
  <2>3. h.op = "confirm"
    BY <1>4 DEF ConfirmIssue
  <2> HIDE DEF p
  <2> QED
    BY <1>2, <2>1, <2>2, <2>3 DEF InitUpsert, PaymentHold, CancelUpdate, ReconcileSettle
<1>5. CASE PaymentHold(h)
  <2> DEFINE p == [policies[u] EXCEPT !.paid = TRUE]
  <2>1. policies' = [policies EXCEPT ![u] = p]
    BY <1>1, <1>5 DEF PaymentHold
  <2>2. /\ p \in Policy /\ p.status = policies[u].status /\ p.paid = TRUE
        /\ p.number = policies[u].number
    BY <1>1 DEF Policy
  <2>3. h.op = "payment"
    BY <1>5 DEF PaymentHold
  <2> HIDE DEF p
  <2> QED
    BY <1>2, <2>1, <2>2, <2>3 DEF InitUpsert, ConfirmIssue, CancelUpdate, ReconcileSettle
<1>6. CASE CancelUpdate(h)
  <2> DEFINE p == [policies[u] EXCEPT !.status = "CANCELLED"]
  <2>1. \/ UNCHANGED policies
        \/ policies[u].status = "PENDING_ISSUANCE" /\ policies' = [policies EXCEPT ![u] = p]
    BY <1>1, <1>6 DEF CancelUpdate
  <2>2. p \in Policy /\ p.paid = policies[u].paid /\ p.number = policies[u].number
    BY <1>1 DEF Policy
  <2>3. h.op = "cancel"
    BY <1>6 DEF CancelUpdate
  <2> HIDE DEF p
  <2> QED
    BY <1>2, <2>1, <2>2, <2>3 DEF InitUpsert, ConfirmIssue, PaymentHold, ReconcileSettle
<1>7. CASE ReconcileSettle(h)
  <2> DEFINE p == [policies[u] EXCEPT !.reconcile = "SETTLED"]
  <2>1. UNCHANGED policies \/ policies' = [policies EXCEPT ![u] = p]
    BY <1>1, <1>7 DEF ReconcileSettle
  <2>2. /\ p \in Policy /\ p.status = policies[u].status
        /\ p.paid = policies[u].paid /\ p.number = policies[u].number
    BY <1>1 DEF Policy
  <2>3. h.op = "reconcile"
    BY <1>7 DEF ReconcileSettle
  <2> HIDE DEF p
  <2> QED
    BY <1>2, <2>1, <2>2, <2>3 DEF InitUpsert, ConfirmIssue, PaymentHold, CancelUpdate
<1> QED
  BY <1>3, <1>4, <1>5, <1>6, <1>7

\* Only a second init ends cover: a cancel touches pending rows only, and the
\* other writes keep or set ACTIVE.
THEOREM CoverKept == Spec => CoverEndsOnlyByInit
<1>1. ASSUME TypeOK, [Next]_vars, NEW t \in Txn,
             policies[t].status = "ACTIVE", policies'[t].status # "ACTIVE"
      PROVE  /\ policies'[t].status = "PENDING_ISSUANCE"
             /\ \E h \in handlers : h.op = "init" /\ h.txn = t
  <2>1. PICK h \in handlers : HandlerStep(h)
    BY <1>1 DEF Next, Accept, Restart, vars
  <2>2. InitUpsert(h) /\ h.txn = t
    BY <1>1, <2>1, RowsUntouched, RowsWritten
  <2>3. policies'[t].status = "PENDING_ISSUANCE"
    BY <1>1, <2>2, RowsWritten
  <2> QED
    BY <2>2, <2>3 DEF InitUpsert
<1>2. TypeOK /\ [Next]_vars =>
          [\A t \in Txn :
              policies[t].status = "ACTIVE" /\ policies'[t].status # "ACTIVE" =>
                  /\ policies'[t].status = "PENDING_ISSUANCE"
                  /\ \E h \in handlers : h.op = "init" /\ h.txn = t]_vars
  BY <1>1
<1> QED
  BY <1>2, TypeCorrect, PTL DEF Spec, CoverEndsOnlyByInit

--------------------------------------------------------------------------------
(* Refinement of CoverContract *)

\* The abstract variables as this module's state functions.
Known == {t \in Txn : policies[t].status # "NONE"}
Held == {t \in Txn : policies[t].paid}
Covered == {t \in Txn : policies[t].number # 0}
InForce == {t \in Txn : policies[t].status = "ACTIVE"}
Inits == UnderWay("init", {"start"})
Confirms == UnderWay("confirm", {"start", "count", "issue"})

\* A request under way is told apart from the others by its handler.
OwnIds == \A g, h \in handlers : g.id = h.id => g = h

\* A handler ends or goes on under its identity; it does not come back to the
\* statement it has carried out.
LEMMA HandlerGoesOn ==
    ASSUME TypeOK, NEW h \in handlers, HandlerStep(h)
    PROVE  \E g \in Handler :
               /\ g.id = h.id /\ g.op = h.op /\ g.txn = h.txn
               /\ handlers' = (handlers \ {h}) \cup {g} \/ handlers' = handlers \ {h}
               /\ g.op = "init" => g.pc # "start"
               /\ g.op = "confirm" /\ g.pc \in {"start", "count", "issue"} =>
                      h.pc \in {"start", "count"}
<1>0. /\ {"PENDING_ISSUANCE", "ACTIVE", "CANCELLED", "PAYMENT_NOT_RECEIVED", "AGREED"} \subseteq Code
      /\ Status \subseteq Code
  BY Zenon
<1> HIDE DEF Code
<1>1. h \in Handler
  BY DEF TypeOK
<1> DEFINE Goal(g) ==
        /\ g.id = h.id /\ g.op = h.op /\ g.txn = h.txn
        /\ handlers' = (handlers \ {h}) \cup {g} \/ handlers' = handlers \ {h}
        /\ g.op = "init" => g.pc # "start"
        /\ g.op = "confirm" /\ g.pc \in {"start", "count", "issue"} =>
               h.pc \in {"start", "count"}
<1>2. ASSUME handlers' = handlers \ {h}
      PROVE  \E g \in Handler : Goal(g)
  <2> DEFINE g == [h EXCEPT !.pc = "reply"]
  <2>1. g \in Handler /\ g.id = h.id /\ g.op = h.op /\ g.txn = h.txn /\ g.pc = "reply"
    BY <1>1
  <2> HIDE DEF g
  <2> QED
    BY <1>2, <2>1
<1>3. ASSUME NEW pc \in Pc, NEW code \in Code, NEW n \in Nat,
             handlers' = (handlers \ {h}) \cup
                 {[h EXCEPT !.pc = pc, !.code = code, !.number = n]},
             h.op = "init" => pc # "start",
             h.op = "confirm" /\ pc \in {"start", "count", "issue"} => h.pc \in {"start", "count"}
      PROVE  \E g \in Handler : Goal(g)
  <2> DEFINE g == [h EXCEPT !.pc = pc, !.code = code, !.number = n]
  <2>1. g \in Handler /\ g.id = h.id /\ g.op = h.op /\ g.txn = h.txn /\ g.pc = pc
    BY <1>1
  <2>2. handlers' = (handlers \ {h}) \cup {g}
    BY <1>3
  <2> HIDE DEF g
  <2> QED
    BY <1>3, <2>1, <2>2
<1>4. /\ h.code \in Code /\ h.number \in Nat /\ h.txn \in Txn
      /\ "PENDING_ISSUANCE" \in Code /\ "ACTIVE" \in Code /\ "CANCELLED" \in Code
      /\ "PAYMENT_NOT_RECEIVED" \in Code /\ "AGREED" \in Code
  BY <1>0, <1>1
<1>5. /\ policies[h.txn].status \in Code /\ policies[h.txn].number \in Nat
      /\ Cardinality(ActiveTxns) + 1 \in Nat /\ 0 + 1 \in Nat
  BY <1>0, <1>4, ActiveCount DEF TypeOK
<1> DEFINE With(pc, code, n) == [h EXCEPT !.pc = pc, !.code = code, !.number = n]
<1>6. /\ \A pc \in Pc : [h EXCEPT !.pc = pc] = With(pc, h.code, h.number)
      /\ \A pc \in Pc, code \in Code :
             [h EXCEPT !.pc = pc, !.code = code] = With(pc, code, h.number)
      /\ \A pc \in Pc, n \in Nat : [h EXCEPT !.pc = pc, !.number = n] = With(pc, h.code, n)
  BY <1>1
<1> SUFFICES \E g \in Handler : Goal(g)
  OBVIOUS
<1> HIDE DEF Goal
<1>7. CASE InitUpsert(h)
  <2>1. handlers' = (handlers \ {h}) \cup {With("reply", "PENDING_ISSUANCE", h.number)}
    BY <1>6, <1>7 DEF InitUpsert
  <2> QED
    BY <1>3, <1>4, <2>1
<1>8. CASE ConfirmAgain(h)
  <2>1. handlers' = (handlers \ {h}) \cup {With("reply", "ACTIVE", policies[h.txn].number)}
    BY <1>8 DEF ConfirmAgain
  <2> QED
    BY <1>3, <1>4, <1>5, <2>1
<1>9. CASE ConfirmUnpaid(h)
  <2>1. handlers' = (handlers \ {h}) \cup {With("reply", "PAYMENT_NOT_RECEIVED", h.number)}
    BY <1>6, <1>9 DEF ConfirmUnpaid
  <2> QED
    BY <1>3, <1>4, <2>1
<1>10. CASE ConfirmPaid(h)
  <2>1. handlers' = (handlers \ {h}) \cup {With("count", h.code, h.number)}
    BY <1>6, <1>10 DEF ConfirmPaid
  <2>2. h.pc \in {"start", "count"}
    BY <1>10 DEF ConfirmPaid
  <2>3. h.op # "init"
    BY <1>10 DEF ConfirmPaid
  <2> QED
    BY <1>3, <1>4, <2>1, <2>2, <2>3
<1>11. CASE ConfirmCount(h)
  <2>1. PICK n \in {Cardinality(ActiveTxns), 0} :
            handlers' = (handlers \ {h}) \cup {[h EXCEPT !.pc = "issue", !.number = n + 1]}
    BY <1>11 DEF ConfirmCount
  <2>2. n + 1 \in Nat
    BY <1>5
  <2>3. handlers' = (handlers \ {h}) \cup {With("issue", h.code, n + 1)}
    BY <1>6, <2>1, <2>2
  <2>4. h.pc \in {"start", "count"} /\ h.op # "init"
    BY <1>11 DEF ConfirmCount
  <2> HIDE DEF With
  <2> QED
    BY <1>3, <1>4, <2>2, <2>3, <2>4 DEF With
<1>12. CASE ConfirmIssue(h)
  <2>1. handlers' = (handlers \ {h}) \cup {With("ledger", "ACTIVE", h.number)}
    BY <1>6, <1>12 DEF ConfirmIssue
  <2> QED
    BY <1>3, <1>4, <2>1
<1>13. CASE ConfirmLedger(h)
  <2>1. handlers' = (handlers \ {h}) \cup {With("reply", h.code, h.number)}
    BY <1>6, <1>13 DEF ConfirmLedger
  <2> QED
    BY <1>3, <1>4, <2>1
<1>14. CASE PaymentRead(h)
  <2>1. handlers' = (handlers \ {h}) \cup {With("hold", h.code, h.number)}
    BY <1>6, <1>14 DEF PaymentRead
  <2> QED
    BY <1>3, <1>4, <2>1
<1>15. CASE PaymentHold(h)
  <2>1. handlers' = (handlers \ {h}) \cup {With("ledger", h.code, h.number)}
    BY <1>6, <1>15 DEF PaymentHold
  <2> QED
    BY <1>3, <1>4, <2>1
<1>16. CASE CancelUpdate(h)
  <2>1. handlers' = (handlers \ {h}) \cup {With("reply", "CANCELLED", h.number)}
    BY <1>6, <1>16 DEF CancelUpdate
  <2> QED
    BY <1>3, <1>4, <2>1
<1>17. CASE ReconcileRelease(h)
  <2>1. handlers' = (handlers \ {h}) \cup {With("settle", h.code, h.number)}
    BY <1>6, <1>17 DEF ReconcileRelease
  <2> QED
    BY <1>3, <1>4, <2>1
<1>18. CASE ReconcileSettle(h)
  <2>1. handlers' = (handlers \ {h}) \cup {With("reply", "AGREED", h.number)}
    BY <1>6, <1>18 DEF ReconcileSettle
  <2> QED
    BY <1>3, <1>4, <2>1
<1>19. CASE StatusRead(h)
  <2>1. handlers' = (handlers \ {h}) \cup
            {With("reply", policies[h.txn].status, policies[h.txn].number)}
    BY <1>19 DEF StatusRead
  <2> QED
    BY <1>3, <1>4, <1>5, <2>1
<1>20. CASE \/ InitBadNik(h) \/ ConfirmUnknown(h) \/ PaymentIgnored(h)
            \/ PaymentLedger(h) \/ SendReply(h) \/ StatementFails(h)
  BY <1>2, <1>20 DEF InitBadNik, ConfirmUnknown, PaymentIgnored, PaymentLedger, SendReply,
                     StatementFails
<1> QED
  BY <1>7, <1>8, <1>9, <1>10, <1>11, <1>12, <1>13, <1>14, <1>15, <1>16, <1>17, <1>18, <1>19,
     <1>20 DEF HandlerStep

\* An identity is given to a new handler only when no handler has it.
LEMMA IdsStayOwn == Spec => []OwnIds
<1>1. Init => OwnIds
  BY DEF Init, OwnIds
<1>2. ASSUME TypeOK, OwnIds, [Next]_vars
      PROVE  OwnIds'
  <2>1. ASSUME NEW id \in Goroutine, NEW op \in Op, NEW t \in Txn, Accept(id, op, t)
        PROVE  OwnIds'
    <3> DEFINE g == [id |-> id, op |-> op, txn |-> t, pc |-> "start", code |-> "", number |-> 0]
    <3>1. g.id = id /\ \A k \in handlers : k.id # id
      BY Zenon, <2>1 DEF Accept
    <3>2. handlers' = handlers \cup {g}
      BY Zenon, <2>1 DEF Accept
    <3> HIDE DEF g
    <3> QED
      BY <1>2, <3>1, <3>2 DEF OwnIds
  <2>2. ASSUME NEW h \in handlers, HandlerStep(h)
        PROVE  OwnIds'
    <3> HIDE DEF Handler
    <3>1. PICK g \in Handler :
              /\ g.id = h.id
              /\ handlers' = (handlers \ {h}) \cup {g} \/ handlers' = handlers \ {h}
      BY <1>2, <2>2, HandlerGoesOn
    <3> QED
      BY <1>2, <3>1 DEF OwnIds
  <2>3. CASE Restart \/ UNCHANGED vars
    BY <1>2, <2>3 DEF Restart, vars, OwnIds
  <2> QED
    BY <1>2, <2>1, <2>2, <2>3 DEF Next
<1> QED
  BY <1>1, <1>2, TypeCorrect, PTL DEF Spec

\* A handler adds no request, and when it is an init or a confirm that has carried
\* out its last statement but the answer, it is a request no more.
LEMMA RequestsUsed ==
    ASSUME TypeOK, OwnIds, NEW h \in handlers, HandlerStep(h)
    PROVE  /\ Inits' \in SUBSET Inits /\ Confirms' \in SUBSET Confirms
           /\ h.op # "confirm" => Confirms' = Confirms
           /\ h.op # "init" => Inits' = Inits
           /\ InitUpsert(h) =>
                  <<h.id, h.txn>> \in Inits /\ Inits' = Inits \ {<<h.id, h.txn>>}
           /\ ConfirmIssue(h) =>
                  <<h.id, h.txn>> \in Confirms /\ Confirms' = Confirms \ {<<h.id, h.txn>>}
<1> HIDE DEF Handler
<1>1. PICK g \in Handler :
          /\ g.id = h.id /\ g.op = h.op /\ g.txn = h.txn
          /\ handlers' = (handlers \ {h}) \cup {g} \/ handlers' = handlers \ {h}
          /\ g.op = "init" => g.pc # "start"
          /\ g.op = "confirm" /\ g.pc \in {"start", "count", "issue"} =>
                 h.pc \in {"start", "count"}
  BY HandlerGoesOn
<1>2. h.id \in Goroutine /\ h.txn \in Txn
  BY DEF TypeOK, Handler
<1> DEFINE InitsOf(r) == \E k \in handlers : k.op = "init" /\ k.pc \in {"start"}
                                             /\ k.id = r[1] /\ k.txn = r[2]
           ConfirmsOf(r) == \E k \in handlers : k.op = "confirm"
                                /\ k.pc \in {"start", "count", "issue"}
                                /\ k.id = r[1] /\ k.txn = r[2]
           own == <<h.id, h.txn>>
<1>3. own \in Goroutine \X Txn /\ own[1] = h.id /\ own[2] = h.txn
  BY <1>2
<1>4. \A r \in Goroutine \X Txn : r[1] = h.id /\ r[2] = h.txn => r = own
  OBVIOUS
<1>5. \A r : r \in Inits <=> r \in Goroutine \X Txn /\ InitsOf(r)
  BY DEF Inits, UnderWay
<1>6. \A r : r \in Confirms <=> r \in Goroutine \X Txn /\ ConfirmsOf(r)
  BY DEF Confirms, UnderWay
<1>7. \A r : r \in Inits' <=> r \in Goroutine \X Txn /\ InitsOf(r)'
  BY DEF Inits, UnderWay
<1>8. \A r : r \in Confirms' <=> r \in Goroutine \X Txn /\ ConfirmsOf(r)'
  BY DEF Confirms, UnderWay
<1> HIDE DEF own
<1>9. ASSUME NEW r \in Goroutine \X Txn
      PROVE  /\ InitsOf(r)' => InitsOf(r)
             /\ InitsOf(r) /\ ~ InitsOf(r)' => h.op = "init" /\ r = own
             /\ h.op = "init" /\ r = own => ~ InitsOf(r)'
  BY <1>1, <1>3, <1>4 DEF OwnIds
<1>10. ASSUME NEW r \in Goroutine \X Txn
       PROVE  /\ ConfirmsOf(r)' => ConfirmsOf(r)
              /\ ConfirmsOf(r) /\ ~ ConfirmsOf(r)' => h.op = "confirm" /\ r = own
              /\ h.pc = "issue" /\ h.op = "confirm" /\ r = own => ~ ConfirmsOf(r)'
  BY <1>1, <1>3, <1>4 DEF OwnIds
<1>11. h.op = "init" /\ h.pc = "start" => InitsOf(own)
  BY <1>3
<1>12. h.op = "confirm" /\ h.pc = "issue" => ConfirmsOf(own)
  BY <1>3
<1>13. InitUpsert(h) => h.op = "init" /\ h.pc = "start"
  BY DEF InitUpsert
<1>14. ConfirmIssue(h) => h.op = "confirm" /\ h.pc = "issue"
  BY DEF ConfirmIssue
<1> HIDE DEF InitsOf, ConfirmsOf
<1>15. /\ Inits' \in SUBSET Inits
       /\ h.op # "init" => Inits' = Inits
       /\ h.op = "init" /\ h.pc = "start" => own \in Inits /\ Inits' = Inits \ {own}
  BY <1>3, <1>5, <1>7, <1>9, <1>11
<1>16. /\ Confirms' \in SUBSET Confirms
       /\ h.op # "confirm" => Confirms' = Confirms
       /\ h.op = "confirm" /\ h.pc = "issue" => own \in Confirms /\ Confirms' = Confirms \ {own}
  BY <1>3, <1>6, <1>8, <1>10, <1>12
<1> QED
  BY <1>13, <1>14, <1>15, <1>16 DEF own

\* A write to a row that keeps payment, number and cover is a stutter of the contract.
LEMMA StutterStep ==
    ASSUME IInv, NEW h \in handlers, CancelUpdate(h) \/ ReconcileSettle(h)
    PROVE  Known' = Known /\ Held' = Held /\ Covered' = Covered /\ InForce' = InForce
<1>1. TypeOK /\ h.txn \in Txn /\ policies[h.txn] \in Policy
  BY DEF IInv, TypeOK
<1>2. /\ policies'[h.txn].paid = policies[h.txn].paid
      /\ policies'[h.txn].number = policies[h.txn].number
      /\ \A t \in Txn \ {h.txn} : policies'[t] = policies[t]
  BY <1>1, RowsWritten
<1>3. /\ policies'[h.txn].status = "NONE" <=> policies[h.txn].status = "NONE"
      /\ policies'[h.txn].status = "ACTIVE" <=> policies[h.txn].status = "ACTIVE"
  <2>1. CASE ReconcileSettle(h)
    BY <1>1, <2>1, RowsWritten
  <2>2. CASE CancelUpdate(h) /\ policies[h.txn].status = "PENDING_ISSUANCE"
    <3>1. policies' = policies \/
              policies' = [policies EXCEPT ![h.txn].status = "CANCELLED"]
      BY <2>2 DEF CancelUpdate
    <3>2. policies'[h.txn].status \in {"PENDING_ISSUANCE", "CANCELLED"}
      <4>1. CASE policies' = policies
        BY <2>2, <4>1
      <4>2. CASE policies' = [policies EXCEPT ![h.txn].status = "CANCELLED"]
        <5>1. policies'[h.txn] = [policies[h.txn] EXCEPT !.status = "CANCELLED"]
          BY <1>1, <4>2 DEF TypeOK
        <5> QED
          BY <1>1, <5>1
      <4> QED
        BY <3>1, <4>1, <4>2
    <3> QED
      BY <2>2, <3>2
  <2>3. CASE CancelUpdate(h) /\ policies[h.txn].status # "PENDING_ISSUANCE"
    BY <2>3 DEF CancelUpdate
  <2> QED
    BY <2>1, <2>2, <2>3
<1> QED
  BY <1>2, <1>3 DEF Known, Held, Covered, InForce

\* An init is Request of the contract: the row is there, any cover ends, and a
\* payment and a number stay where they were.
LEMMA RequestStep ==
    ASSUME IInv, NEW h \in handlers, InitUpsert(h)
    PROVE  /\ Known' = Known \cup {h.txn} /\ InForce' = InForce \ {h.txn}
           /\ Held' = Held /\ Covered' = Covered
<1>1. TypeOK /\ h.txn \in Txn /\ RowSound(h.txn)
  BY DEF IInv, TypeOK
<1>2. policies[h.txn].status = "NONE" =>
          policies[h.txn].paid = FALSE /\ policies[h.txn].number = 0
  BY <1>1 DEF RowSound
<1>3. /\ policies'[h.txn].status = "PENDING_ISSUANCE"
      /\ policies'[h.txn].paid = policies[h.txn].paid
      /\ policies'[h.txn].number = policies[h.txn].number
      /\ \A t \in Txn \ {h.txn} : policies'[t] = policies[t]
  BY <1>1, <1>2, RowsWritten
<1> QED
  BY <1>1, <1>3 DEF Known, Held, Covered, InForce

\* Recording a payment is Hold of the contract: the row was there when the
\* handler read it and is there still.
LEMMA HoldStep ==
    ASSUME IInv, NEW h \in handlers, PaymentHold(h)
    PROVE  /\ h.txn \in Known /\ Held' = Held \cup {h.txn}
           /\ Known' = Known /\ Covered' = Covered /\ InForce' = InForce
<1>1. TypeOK /\ h.txn \in Txn
  BY DEF IInv, TypeOK
<1>2. policies[h.txn].status # "NONE"
  BY DEF IInv, StillTrue, PaymentHold
<1>3. /\ policies'[h.txn].paid = TRUE
      /\ policies'[h.txn].status = policies[h.txn].status
      /\ policies'[h.txn].number = policies[h.txn].number
      /\ \A t \in Txn \ {h.txn} : policies'[t] = policies[t]
  BY <1>1, RowsWritten
<1> QED
  BY <1>1, <1>2, <1>3 DEF Known, Held, Covered, InForce

\* Issuing is Issue of the contract: the row is paid and the number is not 0.
LEMMA IssueStep ==
    ASSUME IInv, NEW h \in handlers, ConfirmIssue(h)
    PROVE  /\ h.txn \in Held
           /\ Covered' = Covered \cup {h.txn} /\ InForce' = InForce \cup {h.txn}
           /\ Known' = Known /\ Held' = Held
<1>1. TypeOK /\ h.txn \in Txn /\ RowSound(h.txn)
  BY DEF IInv, TypeOK
<1>2. h.number # 0 /\ policies[h.txn].paid
  BY DEF IInv, StillTrue, ConfirmIssue
<1>3. policies[h.txn].status # "NONE"
  BY <1>1, <1>2 DEF RowSound
<1>4. /\ policies'[h.txn].status = "ACTIVE"
      /\ policies'[h.txn].paid = policies[h.txn].paid
      /\ policies'[h.txn].number = h.number
      /\ \A t \in Txn \ {h.txn} : policies'[t] = policies[t]
  BY <1>1, RowsWritten
<1> QED
  BY <1>1, <1>2, <1>3, <1>4 DEF Known, Held, Covered, InForce

\* A webhook that comes is Come of the contract when it is an init or a confirm,
\* else a stutter.
LEMMA AcceptStep ==
    ASSUME NEW id \in Goroutine, NEW op \in Op, NEW t \in Txn, Accept(id, op, t)
    PROVE  /\ \A u \in Txn : <<id, u>> \notin Inits \cup Confirms
           /\ Inits' = IF op = "init" THEN Inits \cup {<<id, t>>} ELSE Inits
           /\ Confirms' = IF op = "confirm" THEN Confirms \cup {<<id, t>>} ELSE Confirms
<1> DEFINE g == [id |-> id, op |-> op, txn |-> t, pc |-> "start", code |-> "", number |-> 0]
<1>1. g.id = id /\ g.op = op /\ g.txn = t /\ g.pc = "start"
  BY Zenon
<1>2. handlers' = handlers \cup {g} /\ \A k \in handlers : k.id # id
  BY Zenon DEF Accept
<1> HIDE DEF g
<1> DEFINE own == <<id, t>>
<1>3. own \in Goroutine \X Txn /\ own[1] = id /\ own[2] = t
  OBVIOUS
<1>4. \A r \in Goroutine \X Txn : r[1] = id /\ r[2] = t => r = own
  OBVIOUS
<1>5. \A u \in Txn : <<id, u>>[1] = id
  OBVIOUS
<1> HIDE DEF own
<1>6. \A r : r \in Inits <=> r \in Goroutine \X Txn /\
          \E k \in handlers : k.op = "init" /\ k.pc \in {"start"} /\ k.id = r[1] /\ k.txn = r[2]
  BY DEF Inits, UnderWay
<1>7. \A r : r \in Confirms <=> r \in Goroutine \X Txn /\
          \E k \in handlers : k.op = "confirm" /\ k.pc \in {"start", "count", "issue"}
                              /\ k.id = r[1] /\ k.txn = r[2]
  BY DEF Confirms, UnderWay
<1>8. \A r : r \in Inits' <=> r \in Goroutine \X Txn /\
          \E k \in handlers' : k.op = "init" /\ k.pc \in {"start"} /\ k.id = r[1] /\ k.txn = r[2]
  BY DEF Inits, UnderWay
<1>9. \A r : r \in Confirms' <=> r \in Goroutine \X Txn /\
          \E k \in handlers' : k.op = "confirm" /\ k.pc \in {"start", "count", "issue"}
                               /\ k.id = r[1] /\ k.txn = r[2]
  BY DEF Confirms, UnderWay
<1>10. \A u \in Txn : <<id, u>> \notin Inits \cup Confirms
  BY <1>2, <1>5, <1>6, <1>7
<1>11. Inits' = IF op = "init" THEN Inits \cup {own} ELSE Inits
  BY <1>1, <1>2, <1>3, <1>4, <1>6, <1>8
<1>12. Confirms' = IF op = "confirm" THEN Confirms \cup {own} ELSE Confirms
  <2>1. ASSUME NEW r \in Goroutine \X Txn
        PROVE  r \in Confirms' <=> r \in Confirms \/ (op = "confirm" /\ r = own)
    BY <1>1, <1>2, <1>3, <1>4, <1>7, <1>9
  <2>2. \A r : r \in Confirms' \cup Confirms => r \in Goroutine \X Txn
    BY <1>7, <1>9
  <2> QED
    BY <1>3, <2>1, <2>2
<1> QED
  BY <1>10, <1>11, <1>12 DEF own

\* The handlers implement the contract: no interleaving of confirms, second
\* inits, duplicate notifications, cancels and restarts gives cover without money
\* or without a confirm under way, ends it but by an init under way, uses one of
\* them twice, or takes a premium or a number back.
THEOREM Refinement == Spec => ImplementsCover
<1>1. Init => COVER!Init
  BY DEF Init, COVER!Init, UnderWay
<1>2. IInv /\ OwnIds /\ [Next]_vars => [COVER!Next]_(COVER!vars)
  <2> SUFFICES ASSUME IInv, OwnIds, [Next]_vars PROVE [COVER!Next]_(COVER!vars)
    OBVIOUS
  <2> HIDE DEF Handler
  <2> USE DEF Known, Held, Covered, InForce, Inits, Confirms
  <2>1. ASSUME NEW id \in Goroutine, NEW op \in Op, NEW t \in Txn, Accept(id, op, t)
        PROVE  [COVER!Next]_(COVER!vars)
    <3>1. UNCHANGED policies
      BY <2>1 DEF Accept
    <3>2. CASE op \in {"init", "confirm"}
      <4>1. COVER!Come(id, t)
        BY <2>1, <3>1, <3>2, AcceptStep DEF COVER!Come
      <4> QED
        BY <4>1 DEF COVER!Next
    <3>3. CASE op \notin {"init", "confirm"}
      BY <2>1, <3>1, <3>3, AcceptStep DEF COVER!vars
    <3> QED
      BY <3>2, <3>3
  <2>2. ASSUME NEW h \in handlers, HandlerStep(h)
        PROVE  [COVER!Next]_(COVER!vars)
    <3> DEFINE own == <<h.id, h.txn>>
    <3>1. h.id \in Goroutine /\ h.txn \in Txn /\ TypeOK
      BY DEF IInv, TypeOK, Handler
    <3>2. /\ Inits' \in SUBSET Inits /\ Confirms' \in SUBSET Confirms
          /\ h.op # "confirm" => Confirms' = Confirms
          /\ h.op # "init" => Inits' = Inits
          /\ InitUpsert(h) => own \in Inits /\ Inits' = Inits \ {own}
          /\ ConfirmIssue(h) => own \in Confirms /\ Confirms' = Confirms \ {own}
      BY <2>2, <3>1, RequestsUsed
    <3> HIDE DEF Inits, Confirms
    <3>3. CASE UNCHANGED policies
      <4>1. COVER!Fail
        BY <3>2, <3>3 DEF COVER!Fail, Inits, Confirms
      <4> QED
        BY <4>1 DEF COVER!Next
    <3>4. CASE CancelUpdate(h) \/ ReconcileSettle(h)
      <4>1. Known' = Known /\ Held' = Held /\ Covered' = Covered /\ InForce' = InForce
        BY <3>4, StutterStep
      <4>2. COVER!Fail
        BY <3>2, <4>1 DEF COVER!Fail, Inits, Confirms
      <4> QED
        BY <4>2 DEF COVER!Next
    <3>5. CASE InitUpsert(h)
      <4>1. h.op # "confirm"
        BY <3>5 DEF InitUpsert
      <4>2. COVER!Request(h.id, h.txn)
        BY <3>2, <3>5, <4>1, RequestStep DEF COVER!Request, Inits, Confirms
      <4> QED
        BY <3>1, <4>2 DEF COVER!Next
    <3>6. CASE PaymentHold(h)
      <4>1. h.op \notin {"init", "confirm"}
        BY <3>6 DEF PaymentHold
      <4>2. COVER!Hold(h.txn)
        BY <3>2, <3>6, <4>1, HoldStep DEF COVER!Hold, Inits, Confirms
      <4> QED
        BY <3>1, <4>2 DEF COVER!Next
    <3>7. CASE ConfirmIssue(h)
      <4>1. h.op # "init"
        BY <3>7 DEF ConfirmIssue
      <4>2. COVER!Issue(h.id, h.txn)
        BY <3>2, <3>7, <4>1, IssueStep DEF COVER!Issue, Inits, Confirms
      <4> QED
        BY <3>1, <4>2 DEF COVER!Next
    <3> QED
      BY <2>2, <3>3, <3>4, <3>5, <3>6, <3>7, RowsUntouched
  <2>3. CASE Restart
    <3>1. Inits' = {} /\ Confirms' = {} /\ UNCHANGED policies
      BY <2>3 DEF Restart, UnderWay
    <3>2. COVER!Fail
      BY <3>1 DEF COVER!Fail
    <3> QED
      BY <3>2 DEF COVER!Next
  <2>4. CASE UNCHANGED vars
    BY <2>4 DEF vars, COVER!vars, UnderWay
  <2> QED
    BY <2>1, <2>2, <2>3, <2>4 DEF Next
<1> QED
  BY <1>1, <1>2, Invariance, IdsStayOwn, PTL DEF Spec, ImplementsCover, COVER!Spec

================================================================================
