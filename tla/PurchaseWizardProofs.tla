-------------------------- MODULE PurchaseWizardProofs --------------------------
(***************************************************************************)
(* Theorems about PurchaseWizard and the TransactionService below it, for  *)
(* any transactions, slots, tabs and bounds.  They use no fairness.        *)
(***************************************************************************)
EXTENDS PurchaseWizard, TLAPS

(***************************************************************************)
(* The strengthening, first for the backend.  A trip is live until it is   *)
(* over.  The handlers write the status without looking at it; that it     *)
(* runs forward rests on how many live trips a transaction has: one, while *)
(* nothing was asked for twice, and it knows the status.  What the insurer *)
(* was told is never untold.                                               *)
(***************************************************************************)
Live(c) == Under(c) /\ trips[c].at # "over"

\* A transaction that a page may know.
Quoted(t) == row[t].status \notin {"none", "SELECT_SENT"}

ConfirmedOn == {"CONFIRMED", "RECONCILING", "SETTLED"}

\* The status a live trip has left behind.
StatusOf(op, at) ==
    CASE op = "select" -> "SELECT_SENT"
      [] op = "init" -> IF at = "checkout" THEN "INIT_RECEIVED" ELSE "INIT_SENT"
      [] op = "confirm" -> "CONFIRM_SENT"
      [] op = "reconcile" -> IF at = "posted" THEN "CONFIRMED" ELSE "RECONCILING"

RowSound(t) ==
    /\ row[t].asked # {} \/ row[t].again \/ row[t].checkout => Quoted(t)
    /\ "confirm" \in row[t].asked \/ row[t].checkout => "init" \in row[t].asked
    /\ ~ row[t].again =>
           /\ "init" \notin row[t].asked =>
                  row[t].status \in {"none", "SELECT_SENT", "QUOTE_RECEIVED"}
           /\ "confirm" \notin row[t].asked =>
                  /\ row[t].status \notin {"CONFIRM_SENT"} \cup ConfirmedOn
                  /\ row[t].onAction \notin {"on_confirm", "on_reconcile"}
           /\ "confirm" \in row[t].asked => row[t].status \in {"CONFIRM_SENT"} \cup ConfirmedOn
    /\ row[t].status \in ConfirmedOn => pol[t].issued /\ pol[t].paid
    /\ pol[t].paid => t \in doku
    /\ t \in doku => row[t].checkout

\* With a payment recorded the insurer refuses no confirm.
TripSound(c) ==
    LET trip == trips[c]
        r == row[trip.txn]
        q == pol[trip.txn] IN
    Under(c) =>
        /\ trip.at # "refused"
        /\ trip.at = "posted" => trip.op = "reconcile"
        /\ trip.at = "checkout" => trip.op = "init"
        /\ trip.op # "select" => Quoted(trip.txn)
        /\ trip.op = "init" => "init" \in r.asked
        /\ trip.op \in {"confirm", "reconcile"} => "confirm" \in r.asked /\ q.paid
        /\ trip.op = "reconcile" \/ (trip.op = "confirm" /\ trip.at = "back") => q.issued
        /\ trip.at # "over" /\ (trip.op = "select" \/ ~ r.again) =>
               r.status = StatusOf(trip.op, trip.at)
        /\ trip.at # "over" /\ trip.op = "init" => r.again \/ ~ r.checkout

OneLive ==
    \A c, d \in Trip :
        /\ Live(c) /\ Live(d) /\ trips[c].txn = trips[d].txn /\ ~ row[trips[c].txn].again
        => c = d

ServiceInv ==
    /\ ServiceTypes
    /\ doku \subseteq Txn
    /\ \A t \in Txn : RowSound(t)
    /\ \A c \in Trip : TripSound(c)
    /\ OneLive

(***************************************************************************)
(* For the pages.  A step knows the transaction it was given, an answer to *)
(* a step that is still there is about that transaction, and what a poll   *)
(* said of a payment stays true.                                           *)
(***************************************************************************)
CallSound(c) ==
    LET trip == trips[c]
        page == pages[trip.caller] IN
    Under(c) /\ trip.caller # None =>
        /\ trip.op # "reconcile"
        /\ page.open
        /\ trip.op # "select" => page.txn # None
        /\ trip.panel =>
               /\ trip.op = "select" => page.shown = 1
               /\ trip.op = "init" => page.shown = 3 /\ trip.txn = page.prop
               /\ trip.op = "confirm" => page.shown = 4 /\ trip.txn = page.prop

PageSound(p) ==
    LET page == pages[p] IN
    /\ ~ page.open => page = ClosedPage
    /\ page.step > 1 \/ page.shown > 1 => page.txn # None
    /\ page.shown > 1 => page.prop # None
    /\ page.txn # None => Quoted(page.txn)
    /\ page.prop # None => Quoted(page.prop)
    /\ page.paid \/ "paid" \in page.polls => page.prop # None /\ pol[page.prop].paid
    /\ page.quote # None => page.quote = page.txn
    /\ page.open /\ ~ page.stray =>
           /\ page.step = page.shown => page.prop = page.txn
           /\ page.step = 4 => page.linked \/ page.init = page.txn
           /\ page.step = 5 => page.confirm = page.txn

PagesInv ==
    /\ pages \in [Page -> PageState]
    /\ \A c \in Trip : CallSound(c)
    /\ \A p \in Page : PageSound(p)

IInv ==
    /\ ServiceInv
    /\ PagesInv
    /\ posts \in 0..MaxPosts

USE NoneAssumption

--------------------------------------------------------------------------------
(* What no step takes back, and the trips a step leaves alone *)

RowsKept ==
    \A t \in Txn :
        /\ Quoted(t) => Quoted(t)'
        /\ row[t].asked \subseteq row'[t].asked
        /\ row[t].again => row'[t].again
        /\ pol[t].paid => pol'[t].paid
        /\ pol[t].issued => pol'[t].issued

\* The trip goes on as it was, or ends.
Weakened(c) ==
    trips'[c] # None =>
        /\ Under(c)
        /\ trips'[c].op = trips[c].op /\ trips'[c].txn = trips[c].txn
        /\ trips'[c].at \in {trips[c].at, "over"}

\* No other transaction's row is touched.
Touches(t) == \A u \in Txn \ {t} : row'[u] = row[u]

LEMMA TripTyped ==
    ASSUME ServiceTypes, NEW c \in Trip, Under(c)
    PROVE  trips[c] \in TripRecord /\ trips[c].txn \in Txn
BY DEF ServiceTypes, TripState, TripRecord, Under

\* A live trip is the only one of its transaction, unless something was asked for
\* again, and always if it is a select.
LEMMA OnlyLive ==
    ASSUME ServiceInv, NEW c \in Trip, NEW d \in Trip, Live(c), Live(d),
           trips[c].txn = trips[d].txn,
           trips[d].op = "select" \/ ~ row[trips[d].txn].again
    PROVE  c = d
<1>1. trips[d].txn \in Txn
    BY TripTyped DEF ServiceInv, Live
<1>2. CASE trips[d].op = "select"
    <2>1. row[trips[d].txn].status = "SELECT_SENT"
        BY <1>2 DEF ServiceInv, TripSound, StatusOf, Live
    <2>2. ~ row[trips[d].txn].again
        BY <1>1, <2>1 DEF ServiceInv, RowSound, Quoted
    <2>3. QED
        BY <2>2 DEF ServiceInv, OneLive
<1>3. CASE ~ row[trips[d].txn].again
    BY <1>3 DEF ServiceInv, OneLive
<1>4. QED
    BY <1>2, <1>3

LEMMA OtherTrip ==
    ASSUME ServiceInv, ServiceTypes', RowsKept, NEW d \in Trip, Weakened(d),
           NEW t \in Txn, Touches(t),
           Live(d) /\ trips[d].txn = t =>
               row'[t] = row[t] \/ (row'[t].again /\ trips[d].op # "select")
    PROVE  TripSound(d)'
<1>1. SUFFICES ASSUME trips'[d] # None
      PROVE  TripSound(d)'
    BY DEF TripSound, Under
<1>2. Under(d) /\ TripSound(d) /\ trips[d] \in TripRecord
    BY <1>1, TripTyped DEF Weakened, ServiceInv
<1>3. PICK u \in Txn : u = trips[d].txn
    BY <1>2, TripTyped DEF ServiceInv
<1>4. /\ trips'[d].op = trips[d].op /\ trips'[d].txn = u
      /\ trips'[d].at \in {trips[d].at, "over"}
    BY <1>1, <1>3 DEF Weakened
<1>5. /\ Quoted(u) => Quoted(u)'
      /\ row[u].asked \subseteq row'[u].asked
      /\ pol[u].paid => pol'[u].paid
      /\ pol[u].issued => pol'[u].issued
    BY DEF RowsKept
<1>6. CASE trips'[d].at = "over"
    BY <1>2, <1>3, <1>4, <1>5, <1>6 DEF TripSound, Under
<1>7. CASE trips'[d].at # "over"
    <2>1. Live(d)
        BY <1>2, <1>4, <1>7 DEF Live
    <2>2. row'[u] = row[u] \/ (row'[u].again /\ trips[d].op # "select")
        BY <1>3, <2>1 DEF Touches
    <2>3. CASE row'[u] = row[u]
        BY <1>2, <1>3, <1>4, <1>5, <1>7, <2>3 DEF TripSound, Under
    <2>4. CASE row'[u].again /\ trips[d].op # "select"
        BY <1>2, <1>3, <1>4, <1>5, <1>7, <2>4 DEF TripSound, Under
    <2>5. QED
        BY <2>2, <2>3, <2>4
<1>8. QED
    BY <1>6, <1>7

\* Where no trip comes to life, one is still the most.
LEMMA OneLiveKept ==
    ASSUME ServiceInv, RowsKept,
           \A c \in Trip : Live(c)' => Live(c) /\ trips'[c].txn = trips[c].txn
    PROVE  OneLive'
<1>1. SUFFICES ASSUME NEW c \in Trip, NEW d \in Trip, Live(c)', Live(d)',
                      trips'[c].txn = trips'[d].txn, ~ row'[trips'[c].txn].again
      PROVE  c = d
    BY DEF OneLive
<1>2. /\ Live(c) /\ Live(d) /\ trips[c].txn = trips[d].txn
      /\ trips[c].txn = trips'[c].txn
    BY <1>1
<1>3. trips[c].txn \in Txn
    BY <1>2, TripTyped DEF ServiceInv, Live
<1>4. ~ row[trips[c].txn].again
    BY <1>1, <1>2, <1>3 DEF RowsKept
<1>5. QED
    BY <1>2, <1>4 DEF ServiceInv, OneLive

--------------------------------------------------------------------------------
(* The status only runs forward *)

Forward(t) == row'[t].again \/ Rank(row[t].status) <= Rank(row'[t].status)

LEMMA RankValues ==
    /\ Rank("none") = 1 /\ Rank("SELECT_SENT") = 2 /\ Rank("QUOTE_RECEIVED") = 3
    /\ Rank("INIT_SENT") = 4 /\ Rank("INIT_RECEIVED") = 5 /\ Rank("CONFIRM_SENT") = 6
    /\ Rank("CONFIRMED") = 7 /\ Rank("RECONCILING") = 8 /\ Rank("SETTLED") = 9
BY DEF Rank

\* What the steps are shown to do.
ServiceStep == ServiceInv' /\ RowsKept /\ \A t \in Txn : Forward(t)

\* Steps that change neither database.
LEMMA TripsOnly ==
    ASSUME ServiceInv, UNCHANGED <<row, pol, doku>>, trips' \in [Trip -> TripState],
           \A c \in Trip : Weakened(c)
    PROVE  ServiceStep
<1>1. RowsKept
    BY DEF RowsKept, Quoted
<1>2. ServiceTypes'
    BY DEF ServiceInv, ServiceTypes
<1>3. ASSUME NEW t \in Txn
      PROVE  RowSound(t)' /\ Forward(t)
    <2>1. RowSound(t)'
        BY DEF ServiceInv, RowSound, Quoted
    <2>2. row[t].status \in Status
        BY DEF ServiceInv, ServiceTypes, Row
    <2>3. QED
        BY <2>1, <2>2, RankValues DEF Forward, Status
<1>4. ASSUME NEW c \in Trip
      PROVE  TripSound(c)'
    <2>1. CASE trips'[c] = None
        BY <2>1 DEF TripSound, Under
    <2>2. CASE trips'[c] # None
        <3>1. PICK t \in Txn : t = trips[c].txn
            BY <2>2, TripTyped DEF Weakened, ServiceInv
        <3>2. QED
            BY <1>1, <1>2, OtherTrip DEF Touches
    <2>3. QED
        BY <2>1, <2>2
<1>5. OneLive'
    BY <1>1, OneLiveKept DEF Weakened, Live, Under
<1>6. QED
    BY <1>1, <1>2, <1>3, <1>4, <1>5 DEF ServiceStep, ServiceInv

\* Steps of the backend for trip c, which may go on in another slot.
LEMMA RowStep ==
    ASSUME ServiceInv, ServiceTypes', RowsKept, UNCHANGED <<pol, doku>>,
           NEW c \in Trip, NEW e \in Trip, NEW t \in Txn, Live(c), t = trips[c].txn,
           Touches(t), RowSound(t)', Forward(t),
           \A d \in Trip \ {c, e} : Weakened(d),
           TripSound(c)', TripSound(e)',
           e # c => ~ Under(e) /\ ~ Live(c)',
           \A d \in {c, e} : Live(d)' => trips'[d].txn = t
    PROVE  ServiceStep
<1>1. ASSUME NEW u \in Txn
      PROVE  RowSound(u)' /\ Forward(u)
    <2>1. CASE u = t
        BY <2>1
    <2>2. CASE u # t
        <3>1. row'[u] = row[u]
            BY <2>2 DEF Touches
        <3>2. row[u].status \in Status
            BY DEF ServiceInv, ServiceTypes, Row
        <3>3. RowSound(u)
            BY DEF ServiceInv
        <3>4. RowSound(u)'
            BY <3>1, <3>3 DEF RowSound, Quoted
        <3>5. QED
            BY <3>1, <3>2, <3>4, RankValues DEF Forward, Status
    <2>3. QED
        BY <2>1, <2>2
<1>2. ASSUME NEW d \in Trip \ {c, e}, Live(d), trips[d].txn = t
      PROVE  row'[t].again /\ trips[d].op # "select"
    BY <1>2, OnlyLive DEF RowsKept
<1>3. ASSUME NEW d \in Trip
      PROVE  TripSound(d)'
    <2>1. CASE d \in {c, e}
        BY <2>1
    <2>2. CASE d \notin {c, e}
        BY <1>2, <2>2, OtherTrip
    <2>3. QED
        BY <2>1, <2>2
<1>4. OneLive'
    <2>1. SUFFICES ASSUME NEW d \in Trip, NEW f \in Trip, Live(d)', Live(f)',
                          trips'[d].txn = trips'[f].txn, ~ row'[trips'[d].txn].again
          PROVE  d = f
        BY DEF OneLive
    <2>2. ASSUME NEW g \in Trip \ {c, e}, Live(g)'
          PROVE  Live(g) /\ trips[g].txn = trips'[g].txn /\ trips[g].txn \in Txn
        BY <2>2, TripTyped DEF Weakened, Live, Under, ServiceInv
    <2>3. ASSUME NEW g \in Trip \ {c, e}, Live(g)', trips'[g].txn = t
          PROVE  row'[t].again
        BY <1>2, <2>2, <2>3
    <2>4. CASE d \in {c, e} /\ f \in {c, e}
        BY <2>1, <2>4
    <2>5. CASE d \in {c, e} /\ f \notin {c, e}
        BY <2>1, <2>3, <2>5
    <2>6. CASE d \notin {c, e} /\ f \in {c, e}
        BY <2>1, <2>3, <2>6
    <2>7. CASE d \notin {c, e} /\ f \notin {c, e}
        <3>1. Live(d) /\ Live(f) /\ trips[d].txn = trips[f].txn
            BY <2>1, <2>2, <2>7
        <3>2. ~ row[trips[d].txn].again
            BY <2>1, <2>2, <2>7 DEF RowsKept
        <3>3. QED
            BY <3>1, <3>2 DEF ServiceInv, OneLive
    <2>8. QED
        BY <2>4, <2>5, <2>6, <2>7
<1>5. QED
    BY <1>1, <1>3, <1>4 DEF ServiceStep, ServiceInv

--------------------------------------------------------------------------------
(* Trips that are answered *)

\* Whoever still waits is who waited, and the step that asked is there or not as
\* before.
CallerKept(c) ==
    trips'[c] # None /\ trips'[c].caller # None =>
        /\ Under(c)
        /\ trips'[c].op = trips[c].op /\ trips'[c].txn = trips[c].txn
        /\ trips'[c].caller = trips[c].caller
        /\ trips'[c].panel => trips[c].panel

LEMMA ReleasedFacts ==
    ASSUME ServiceTypes, NEW S, \A c \in Trip : c \in S => Under(c)
    PROVE  /\ Released(S) \in [Trip -> TripState]
           /\ \A c \in Trip :
                  LET new == Released(S)[c] IN
                  new # None =>
                      /\ Under(c)
                      /\ new.op = trips[c].op /\ new.txn = trips[c].txn
                      /\ new.at = trips[c].at /\ new.panel = trips[c].panel
                      /\ new.caller = IF c \in S THEN None ELSE trips[c].caller
<1>1. ASSUME NEW c \in Trip
      PROVE  LET new == Released(S)[c] IN
             /\ new \in TripState
             /\ new # None =>
                    /\ Under(c)
                    /\ new.op = trips[c].op /\ new.txn = trips[c].txn
                    /\ new.at = trips[c].at /\ new.panel = trips[c].panel
                    /\ new.caller = IF c \in S THEN None ELSE trips[c].caller
    <2>1. CASE c \in S
        <3>1. PICK x \in TripRecord : x = trips[c]
            BY <2>1, TripTyped
        <3>2. [x EXCEPT !.caller = None] \in TripRecord
            BY DEF TripRecord
        <3>3. Released(S)[c] = Cleared([x EXCEPT !.caller = None])
            BY <2>1, <3>1 DEF Released
        <3>4. Released(S)[c] \in {None, [x EXCEPT !.caller = None]}
            BY <3>3 DEF Cleared
        <3>5. QED
            BY <2>1, <3>1, <3>2, <3>4 DEF TripRecord, TripState
    <2>2. CASE c \notin S
        BY <2>2 DEF Released, ServiceTypes, Under
    <2>3. QED
        BY <2>1, <2>2
<1>2. Released(S) \in [Trip -> TripState]
    BY <1>1 DEF Released
<1>3. QED
    BY <1>1, <1>2

LEMMA PublishedFacts ==
    ASSUME ServiceTypes, NEW c \in Trip, Under(c), NEW S \in SUBSET Waiting(c)
    PROVE  /\ Published(c, S) \in [Trip -> TripState]
           /\ \A d \in Trip :
                  LET new == Published(c, S)[d] IN
                  new # None =>
                      /\ Under(d)
                      /\ new.op = trips[d].op /\ new.txn = trips[d].txn
                      /\ new.at = IF d = c THEN "over" ELSE trips[d].at
                      /\ new.panel = trips[d].panel
                      /\ new.caller = IF d \in S THEN None ELSE trips[d].caller
<1>1. \A d \in Trip : d \in S => Under(d)
    BY DEF Waiting
<1>2. PICK x \in TripRecord : x = trips[c]
    BY TripTyped
<1> DEFINE caller == IF c \in S THEN None ELSE x.caller
           y == [x EXCEPT !.at = "over", !.caller = caller]
<1>3. /\ y \in TripRecord
      /\ y.op = x.op /\ y.txn = x.txn /\ y.at = "over" /\ y.panel = x.panel
      /\ y.caller = caller
    BY DEF TripRecord
<1>4. Published(c, S) = [Released(S) EXCEPT ![c] = Cleared(y)]
    BY <1>2 DEF Published
<1> HIDE DEF y
<1>5. Cleared(y) \in {None, y}
    BY DEF Cleared
<1>6. Cleared(y) \in TripState
    BY <1>3, <1>5 DEF TripRecord, TripState
<1>7. Published(c, S) \in [Trip -> TripState]
    BY <1>1, <1>4, <1>6, ReleasedFacts
<1>8. Published(c, S)[c] \in {None, y}
    BY <1>1, <1>4, <1>5, ReleasedFacts
<1>9. \A d \in Trip \ {c} : Published(c, S)[d] = Released(S)[d]
    BY <1>1, <1>4, ReleasedFacts
<1>10. QED
    BY <1>1, <1>2, <1>3, <1>7, <1>8, <1>9, ReleasedFacts

--------------------------------------------------------------------------------
(* The backend's own steps *)

LEMMA SendReconcileStep ==
    ASSUME ServiceInv, NEW c \in Trip, SendReconcile(c), UNCHANGED doku
    PROVE  ServiceStep /\ \A d \in Trip : CallerKept(d)
<1>1. PICK x \in TripRecord : x = trips[c]
    BY TripTyped DEF SendReconcile, ServiceInv
<1>2. PICK t \in Txn : t = x.txn
    BY DEF TripRecord
<1>3. /\ Live(c) /\ x.at = "posted" /\ x.op = "reconcile"
      /\ "confirm" \in row[t].asked /\ pol[t].paid /\ pol[t].issued /\ Quoted(t)
      /\ row[t].again \/ row[t].status = "CONFIRMED"
    BY <1>1, <1>2 DEF SendReconcile, ServiceInv, TripSound, Live, StatusOf
<1>4. PICK r \in Row : r = row[t]
    BY DEF ServiceInv, ServiceTypes
<1>5. /\ [r EXCEPT !.status = "RECONCILING"] \in Row
      /\ [x EXCEPT !.at = "sent"] \in TripRecord
    BY DEF Row, Status, TripRecord
<1>6. /\ row' = [row EXCEPT ![t] = [r EXCEPT !.status = "RECONCILING"]]
      /\ trips' = [trips EXCEPT ![c] = [x EXCEPT !.at = "sent"]]
      /\ pol' = pol
    BY <1>1, <1>2, <1>4 DEF SendReconcile
<1>7. /\ row'[t].status = "RECONCILING" /\ row'[t].asked = row[t].asked
      /\ row'[t].again = row[t].again /\ row'[t].checkout = row[t].checkout
      /\ row'[t].onAction = row[t].onAction /\ Touches(t)
    BY <1>4, <1>6 DEF ServiceInv, ServiceTypes, Row, Touches
<1>8. /\ trips'[c].op = "reconcile" /\ trips'[c].txn = t /\ trips'[c].at = "sent"
      /\ trips'[c].caller = x.caller /\ trips'[c].panel = x.panel
      /\ \A d \in Trip \ {c} : trips'[d] = trips[d]
    BY <1>2, <1>3, <1>6 DEF ServiceInv, ServiceTypes, TripRecord
<1>9. ServiceTypes'
    BY <1>5, <1>6 DEF ServiceInv, ServiceTypes, TripRecord, TripState
<1>10. RowsKept
    <2>1. Quoted(t)'
        BY <1>7 DEF Quoted
    <2>2. QED
        BY <1>6, <1>7, <2>1 DEF RowsKept, Touches, Quoted
<1>11. RowSound(t)'
    BY <1>3, <1>6, <1>7 DEF ServiceInv, RowSound, Quoted, ConfirmedOn
<1>12. Forward(t)
    BY <1>3, <1>7, RankValues DEF Forward
<1>13. TripSound(c)'
    BY <1>3, <1>6, <1>7, <1>8 DEF TripSound, StatusOf, Quoted
<1>14. \A d \in Trip : CallerKept(d)
    BY <1>1, <1>3, <1>8, <1>2 DEF CallerKept, Live, Under
<1>15. \A d \in Trip \ {c} : Weakened(d)
    BY <1>8 DEF Weakened, Under
<1>16. QED
    BY <1>1, <1>2, <1>3, <1>6, <1>7, <1>8, <1>9, <1>10, <1>11, <1>12, <1>13, <1>14, <1>15,
       RowStep

LEMMA OnInitStep ==
    ASSUME ServiceInv, NEW c \in Trip, OnInit(c), UNCHANGED doku
    PROVE  ServiceStep /\ \A d \in Trip : CallerKept(d)
<1>1. PICK x \in TripRecord : x = trips[c]
    BY TripTyped DEF OnInit, ServiceInv
<1>2. PICK t \in Txn : t = x.txn
    BY DEF TripRecord
<1>3. /\ Live(c) /\ x.at = "back" /\ x.op = "init"
      /\ "init" \in row[t].asked /\ Quoted(t)
      /\ row[t].again \/ (row[t].status = "INIT_SENT" /\ ~ row[t].checkout)
    BY <1>1, <1>2 DEF OnInit, ServiceInv, TripSound, Live, StatusOf
<1>4. PICK r \in Row : r = row[t]
    BY DEF ServiceInv, ServiceTypes
<1>5. /\ [r EXCEPT !.status = "INIT_RECEIVED"] \in Row
      /\ [x EXCEPT !.at = "checkout"] \in TripRecord
    BY DEF Row, Status, TripRecord
<1>6. /\ row' = [row EXCEPT ![t] = [r EXCEPT !.status = "INIT_RECEIVED"]]
      /\ trips' = [trips EXCEPT ![c] = [x EXCEPT !.at = "checkout"]]
      /\ pol' = pol
    BY <1>1, <1>2, <1>4 DEF OnInit
<1>7. /\ row'[t].status = "INIT_RECEIVED" /\ row'[t].asked = row[t].asked
      /\ row'[t].again = row[t].again /\ row'[t].checkout = row[t].checkout
      /\ row'[t].onAction = row[t].onAction /\ Touches(t)
    BY <1>4, <1>6 DEF ServiceInv, ServiceTypes, Row, Touches
<1>8. /\ trips'[c].op = "init" /\ trips'[c].txn = t /\ trips'[c].at = "checkout"
      /\ trips'[c].caller = x.caller /\ trips'[c].panel = x.panel
      /\ \A d \in Trip \ {c} : trips'[d] = trips[d]
    BY <1>2, <1>3, <1>6 DEF ServiceInv, ServiceTypes, TripRecord
<1>9. ServiceTypes'
    BY <1>5, <1>6 DEF ServiceInv, ServiceTypes, TripRecord, TripState
<1>10. RowsKept
    <2>1. Quoted(t)'
        BY <1>7 DEF Quoted
    <2>2. QED
        BY <1>6, <1>7, <2>1 DEF RowsKept, Touches, Quoted
<1>11. RowSound(t)'
    BY <1>3, <1>6, <1>7 DEF ServiceInv, RowSound, Quoted, ConfirmedOn
<1>12. Forward(t)
    BY <1>3, <1>7, RankValues DEF Forward
<1>13. TripSound(c)'
    BY <1>3, <1>6, <1>7, <1>8 DEF TripSound, StatusOf, Quoted
<1>14. \A d \in Trip : CallerKept(d)
    BY <1>1, <1>3, <1>8, <1>2 DEF CallerKept, Live, Under
<1>15. \A d \in Trip \ {c} : Weakened(d)
    BY <1>8 DEF Weakened, Under
<1>16. QED
    BY <1>1, <1>2, <1>3, <1>6, <1>7, <1>8, <1>9, <1>10, <1>11, <1>12, <1>13, <1>14, <1>15,
       RowStep

LEMMA OnReconcileStep ==
    ASSUME ServiceInv, NEW c \in Trip, OnReconcile(c), UNCHANGED doku
    PROVE  ServiceStep /\ \A d \in Trip : CallerKept(d)
<1>1. PICK x \in TripRecord : x = trips[c]
    BY TripTyped DEF OnReconcile, ServiceInv
<1>2. PICK t \in Txn : t = x.txn
    BY DEF TripRecord
<1>3. /\ Live(c) /\ x.at = "back" /\ x.op = "reconcile"
      /\ "confirm" \in row[t].asked /\ pol[t].paid /\ pol[t].issued /\ Quoted(t)
    BY <1>1, <1>2 DEF OnReconcile, ServiceInv, TripSound, Live
<1>4. PICK r \in Row : r = row[t]
    BY DEF ServiceInv, ServiceTypes
<1>5. [r EXCEPT !.status = "SETTLED", !.onAction = "on_reconcile"] \in Row
    BY DEF Row, Status, OnAction
<1>6. /\ row' = [row EXCEPT ![t] = [r EXCEPT !.status = "SETTLED", !.onAction = "on_reconcile"]]
      /\ trips' = [trips EXCEPT ![c] = None]
      /\ pol' = pol
    BY <1>1, <1>2, <1>4 DEF OnReconcile, ServiceInv, ServiceTypes
<1>7. /\ row'[t].status = "SETTLED" /\ row'[t].asked = row[t].asked
      /\ row'[t].again = row[t].again /\ row'[t].checkout = row[t].checkout
      /\ row'[t].onAction = "on_reconcile" /\ Touches(t)
    BY <1>4, <1>6 DEF ServiceInv, ServiceTypes, Row, Touches
<1>8. trips'[c] = None /\ \A d \in Trip \ {c} : trips'[d] = trips[d]
    BY <1>6 DEF ServiceInv, ServiceTypes
<1>9. ServiceTypes'
    BY <1>5, <1>6 DEF ServiceInv, ServiceTypes, TripState
<1>10. RowsKept
    <2>1. Quoted(t)'
        BY <1>7 DEF Quoted
    <2>2. QED
        BY <1>6, <1>7, <2>1 DEF RowsKept, Touches, Quoted
<1>11. RowSound(t)'
    BY <1>3, <1>6, <1>7 DEF ServiceInv, RowSound, Quoted, ConfirmedOn
<1>12. Forward(t)
    BY <1>4, <1>7, RankValues DEF Forward, Row, Status
<1>13. TripSound(c)'
    BY <1>8 DEF TripSound, Under
<1>14. \A d \in Trip : CallerKept(d)
    BY <1>8 DEF CallerKept, Under
<1>15. \A d \in Trip \ {c} : Weakened(d)
    BY <1>8 DEF Weakened, Under
<1>16. ~ Live(c)'
    BY <1>8 DEF Live, Under
<1>17. QED
    BY <1>1, <1>2, <1>3, <1>6, <1>7, <1>9, <1>10, <1>11, <1>12, <1>13, <1>14, <1>15, <1>16,
       RowStep

LEMMA LoseStep ==
    ASSUME ServiceInv, NEW c \in Trip, Lose(c), UNCHANGED doku
    PROVE  ServiceStep /\ \A d \in Trip : CallerKept(d)
<1>1. PICK x \in TripRecord : x = trips[c]
    BY TripTyped DEF Lose, ServiceInv
<1> DEFINE y == [x EXCEPT !.at = "over"]
<1>2. /\ y \in TripRecord /\ y.op = x.op /\ y.txn = x.txn /\ y.at = "over"
      /\ y.caller = x.caller /\ y.panel = x.panel
    BY DEF TripRecord
<1>3. trips' = [trips EXCEPT ![c] = Cleared(y)]
    BY <1>1 DEF Lose
<1>4. Cleared(y) \in {None, y}
    BY DEF Cleared
<1> HIDE DEF y
<1>5. /\ trips'[c] \in {None, y} /\ \A d \in Trip \ {c} : trips'[d] = trips[d]
      /\ trips' \in [Trip -> TripState]
    BY <1>2, <1>3, <1>4 DEF ServiceInv, ServiceTypes, TripRecord, TripState
<1>6. Under(c)
    BY DEF Lose
<1>7. \A d \in Trip : Weakened(d)
    BY <1>1, <1>2, <1>5, <1>6 DEF Weakened, Under
<1>8. \A d \in Trip : CallerKept(d)
    BY <1>1, <1>2, <1>5, <1>6 DEF CallerKept, Under
<1>9. QED
    BY <1>5, <1>7, <1>8, TripsOnly DEF Lose

LEMMA InsurerAnswersStep ==
    ASSUME ServiceInv, NEW c \in Trip, InsurerAnswers(c), UNCHANGED doku
    PROVE  ServiceStep /\ \A d \in Trip : CallerKept(d)
<1>1. PICK x \in TripRecord : x = trips[c]
    BY TripTyped DEF InsurerAnswers, ServiceInv
<1>2. PICK t \in Txn : t = x.txn
    BY DEF TripRecord
<1>3. Live(c) /\ x.at = "sent" /\ TripSound(c) /\ Under(c)
    BY <1>1 DEF InsurerAnswers, ServiceInv, Live
<1>4. x.op = "confirm" => pol[t].paid
    BY <1>1, <1>2, <1>3 DEF TripSound
<1>5. PICK q \in Policy : q = pol[t]
    BY DEF ServiceInv, ServiceTypes
<1> DEFINE known == q.known \/ x.op = "init"
           active == (q.active /\ x.op # "init") \/ x.op = "confirm"
           issued == q.issued \/ x.op = "confirm"
           p == [q EXCEPT !.known = known, !.active = active, !.issued = issued]
<1>6. /\ p \in Policy /\ p.paid = q.paid /\ p.issued = issued
    BY DEF Policy
<1>7. /\ pol' = [pol EXCEPT ![t] = p] /\ row' = row
      /\ trips' = [trips EXCEPT ![c] = [x EXCEPT !.at = "back"]]
    BY <1>1, <1>2, <1>4, <1>5 DEF InsurerAnswers
<1> HIDE DEF p
<1>8. /\ row' = row
      /\ \A u \in Txn : pol'[u].paid = pol[u].paid /\ (pol[u].issued => pol'[u].issued)
      /\ x.op = "confirm" => pol'[t].issued
    <2>1. pol'[t] = p /\ \A u \in Txn \ {t} : pol'[u] = pol[u]
        BY <1>7 DEF ServiceInv, ServiceTypes
    <2>2. QED
        BY <1>5, <1>6, <1>7, <2>1
<1>9. /\ [x EXCEPT !.at = "back"] \in TripRecord
      /\ trips'[c].op = x.op /\ trips'[c].txn = t /\ trips'[c].at = "back"
      /\ trips'[c].caller = x.caller /\ trips'[c].panel = x.panel
      /\ \A d \in Trip \ {c} : trips'[d] = trips[d]
    BY <1>2, <1>7 DEF ServiceInv, ServiceTypes, TripRecord
<1>10. ServiceTypes'
    BY <1>6, <1>7, <1>9 DEF ServiceInv, ServiceTypes, TripRecord, TripState
<1>11. RowsKept
    BY <1>8 DEF RowsKept, Quoted
<1>12. ASSUME NEW u \in Txn
       PROVE  RowSound(u)' /\ Forward(u)
    <2>1. RowSound(u) /\ row[u].status \in Status
        BY DEF ServiceInv, ServiceTypes, Row
    <2>2. RowSound(u)'
        BY <1>8, <2>1 DEF RowSound, Quoted
    <2>3. QED
        BY <1>8, <2>1, <2>2, RankValues DEF Forward, Status
<1>13. ASSUME NEW d \in Trip
       PROVE  TripSound(d)'
    <2>1. CASE d = c
        <3>1. \A op \in Op : StatusOf(op, "back") = StatusOf(op, "sent")
            BY DEF StatusOf, Op
        <3>2. x.op \in Op
            BY DEF TripRecord
        <3>3. Quoted(t)' <=> Quoted(t)
            BY <1>8 DEF Quoted
        <3>4. QED
            BY <1>1, <1>2, <1>3, <1>8, <1>9, <2>1, <3>1, <3>2, <3>3 DEF TripSound, Under
    <2>2. CASE d # c
        <3>1. Weakened(d)
            BY <1>9, <2>2 DEF Weakened, Under
        <3>2. QED
            BY <1>8, <1>10, <1>11, <3>1, OtherTrip DEF Touches
    <2>3. QED
        BY <2>1, <2>2
<1>14. OneLive'
    BY <1>1, <1>2, <1>3, <1>9, <1>11, OneLiveKept DEF Live, Under
<1>15. \A d \in Trip : CallerKept(d)
    BY <1>1, <1>2, <1>3, <1>9 DEF CallerKept, Under
<1>16. QED
    BY <1>10, <1>11, <1>12, <1>13, <1>14, <1>15 DEF ServiceStep, ServiceInv

--------------------------------------------------------------------------------
(* Answers *)

\* What becomes of the trips when the answer to c is published.
Heard(c, S) ==
    \A d \in Trip :
        /\ Weakened(d) /\ CallerKept(d)
        /\ d = c => ~ Live(d)'
        /\ trips'[d] # None /\ d \in S => trips'[d].caller = None

LEMMA PublishedHeard ==
    ASSUME ServiceInv, NEW c \in Trip, Under(c), NEW S \in SUBSET Waiting(c),
           trips' = Published(c, S)
    PROVE  Heard(c, S) /\ trips' \in [Trip -> TripState]
<1>1. ServiceTypes
    BY DEF ServiceInv
<1>2. trips' \in [Trip -> TripState]
    BY <1>1, PublishedFacts
<1>3. ASSUME NEW d \in Trip
      PROVE  trips'[d] # None =>
                      /\ Under(d)
                      /\ trips'[d].op = trips[d].op /\ trips'[d].txn = trips[d].txn
                      /\ trips'[d].at = IF d = c THEN "over" ELSE trips[d].at
                      /\ trips'[d].panel = trips[d].panel
                      /\ trips'[d].caller = IF d \in S THEN None ELSE trips[d].caller
    BY <1>1, PublishedFacts
<1>4. ASSUME NEW d \in Trip
      PROVE  Weakened(d) /\ CallerKept(d)
    BY <1>3 DEF Weakened, CallerKept
<1>5. ~ Live(c)'
    BY <1>3 DEF Live, Under
<1>6. QED
    BY <1>2, <1>3, <1>4, <1>5 DEF Heard

\* A trip that is over asks little of its transaction.
LEMMA OverSound ==
    ASSUME ServiceInv, ServiceTypes', RowsKept, NEW c \in Trip, Weakened(c), ~ Live(c)'
    PROVE  TripSound(c)'
<1>1. CASE trips'[c] = None
    BY <1>1 DEF TripSound, Under
<1>2. CASE trips'[c] # None
    <2>1. Under(c) /\ TripSound(c)
        BY <1>2 DEF Weakened, ServiceInv
    <2>2. PICK t \in Txn : t = trips[c].txn
        BY <2>1, TripTyped DEF ServiceInv
    <2>3. /\ trips'[c].op = trips[c].op /\ trips'[c].txn = t /\ trips'[c].at = "over"
        BY <1>2, <2>2 DEF Weakened, Live, Under
    <2>4. /\ Quoted(t) => Quoted(t)'
          /\ row[t].asked \subseteq row'[t].asked
          /\ pol[t].paid => pol'[t].paid
          /\ pol[t].issued => pol'[t].issued
        BY DEF RowsKept
    <2>5. QED
        BY <1>2, <2>1, <2>2, <2>3, <2>4 DEF TripSound, Under
<1>3. QED
    BY <1>1, <1>2

LEMMA OnSelectStep ==
    ASSUME ServiceInv, NEW c \in Trip, Under(c), NEW S \in SUBSET Waiting(c),
           OnSelect(c, S), UNCHANGED doku
    PROVE  ServiceStep /\ Heard(c, S) /\ \A t \in Txn : t = trips[c].txn => Quoted(t)'
<1>1. PICK x \in TripRecord : x = trips[c]
    BY TripTyped DEF ServiceInv
<1>2. PICK t \in Txn : t = x.txn
    BY DEF TripRecord
<1>3. /\ Live(c) /\ row[t].status = "SELECT_SENT" /\ ~ Quoted(t) /\ RowSound(t)
    BY <1>1, <1>2 DEF OnSelect, ServiceInv, TripSound, Live, StatusOf, Quoted
<1>4. PICK r \in Row : r = row[t]
    BY DEF ServiceInv, ServiceTypes
<1> DEFINE n == [r EXCEPT !.status = "QUOTE_RECEIVED", !.onAction = "on_select"]
<1>5. /\ n \in Row /\ n.status = "QUOTE_RECEIVED" /\ n.onAction = "on_select"
      /\ n.asked = r.asked /\ n.again = r.again /\ n.checkout = r.checkout
    BY DEF Row, Status, OnAction
<1>6. row' = [row EXCEPT ![t] = n] /\ pol' = pol
    BY <1>1, <1>2, <1>4 DEF OnSelect, ServiceInv, ServiceTypes
<1> HIDE DEF n
<1>7. row' \in [Txn -> Row] /\ row'[t] = n /\ Touches(t)
    BY <1>5, <1>6 DEF ServiceInv, ServiceTypes, Touches
<1>8. Heard(c, S) /\ trips' \in [Trip -> TripState]
    BY PublishedHeard DEF OnSelect
<1>9. ServiceTypes'
    BY <1>6, <1>7, <1>8 DEF ServiceInv, ServiceTypes
<1>10. Quoted(t)'
    BY <1>5, <1>7 DEF Quoted
<1>11. RowsKept
    BY <1>4, <1>5, <1>6, <1>7, <1>10 DEF RowsKept, Touches, Quoted
<1>12. RowSound(t)'
    BY <1>3, <1>4, <1>5, <1>6, <1>7, <1>10 DEF RowSound, ConfirmedOn
<1>13. Forward(t)
    BY <1>3, <1>5, <1>7, RankValues DEF Forward
<1>14. TripSound(c)' /\ ~ Live(c)'
    BY <1>8, <1>9, <1>11, OverSound DEF Heard
<1>15. ServiceStep
    BY <1>1, <1>2, <1>3, <1>6, <1>7, <1>8, <1>9, <1>11, <1>12, <1>13, <1>14, RowStep DEF Heard
<1>16. QED
    BY <1>1, <1>2, <1>8, <1>10, <1>15

LEMMA OnInitDoneStep ==
    ASSUME ServiceInv, NEW c \in Trip, Under(c), NEW S \in SUBSET Waiting(c),
           OnInitDone(c, S), UNCHANGED doku
    PROVE  ServiceStep /\ Heard(c, S)
<1>1. PICK x \in TripRecord : x = trips[c]
    BY TripTyped DEF ServiceInv
<1>2. PICK t \in Txn : t = x.txn
    BY DEF TripRecord
<1>3. /\ Live(c) /\ RowSound(t) /\ "init" \in row[t].asked /\ Quoted(t)
      /\ row[t].again \/ row[t].status = "INIT_RECEIVED"
    BY <1>1, <1>2 DEF OnInitDone, ServiceInv, TripSound, Live, StatusOf
<1>4. PICK r \in Row : r = row[t]
    BY DEF ServiceInv, ServiceTypes
<1>5. PICK made \in BOOLEAN :
          row' = [row EXCEPT ![x.txn].status = "INIT_RECEIVED",
                             ![x.txn].onAction = "on_init",
                             ![x.txn].checkout = @ \/ made]
    BY <1>1 DEF OnInitDone
<1> DEFINE link == r.checkout \/ made
           n == [r EXCEPT !.status = "INIT_RECEIVED", !.onAction = "on_init",
                          !.checkout = link]
<1>6. /\ n \in Row /\ n.status = "INIT_RECEIVED" /\ n.onAction = "on_init"
      /\ n.asked = r.asked /\ n.again = r.again /\ n.checkout = link
    BY DEF Row, Status, OnAction
<1>7. row' = [row EXCEPT ![t] = n] /\ pol' = pol
    BY <1>1, <1>2, <1>4, <1>5 DEF OnInitDone, ServiceInv, ServiceTypes
<1> HIDE DEF n
<1>8. row' \in [Txn -> Row] /\ row'[t] = n /\ Touches(t)
    BY <1>6, <1>7 DEF ServiceInv, ServiceTypes, Touches
<1>9. Heard(c, S) /\ trips' \in [Trip -> TripState]
    BY PublishedHeard DEF OnInitDone
<1>10. ServiceTypes'
    BY <1>7, <1>8, <1>9 DEF ServiceInv, ServiceTypes
<1>11. Quoted(t)'
    BY <1>6, <1>8 DEF Quoted
<1>12. RowsKept
    BY <1>4, <1>6, <1>7, <1>8, <1>11 DEF RowsKept, Touches, Quoted
<1>13. RowSound(t)'
    BY <1>3, <1>4, <1>6, <1>7, <1>8, <1>11 DEF RowSound, ConfirmedOn
<1>14. Forward(t)
    BY <1>3, <1>4, <1>6, <1>8, RankValues DEF Forward
<1>15. TripSound(c)' /\ ~ Live(c)'
    BY <1>9, <1>10, <1>12, OverSound DEF Heard
<1>16. ServiceStep
    BY <1>1, <1>2, <1>3, <1>7, <1>8, <1>9, <1>10, <1>12, <1>13, <1>14, <1>15, RowStep DEF Heard
<1>17. QED
    BY <1>9, <1>16

LEMMA OnConfirmStep ==
    ASSUME ServiceInv, NEW c \in Trip, Under(c), NEW S \in SUBSET Waiting(c),
           OnConfirm(c, S), UNCHANGED doku
    PROVE  /\ ServiceStep
           /\ \A d \in Trip : CallerKept(d)
           /\ trips[c].at = "back"
           /\ \A d \in S : trips'[d] # None => trips'[d].caller = None
<1>1. PICK x \in TripRecord : x = trips[c]
    BY TripTyped DEF ServiceInv
<1>2. PICK t \in Txn : t = x.txn
    BY DEF TripRecord
<1>3. /\ Live(c) /\ RowSound(t) /\ x.at = "back" /\ x.op = "confirm"
      /\ "confirm" \in row[t].asked /\ Quoted(t) /\ pol[t].paid /\ pol[t].issued
      /\ row[t].again \/ row[t].status = "CONFIRM_SENT"
    BY <1>1, <1>2 DEF OnConfirm, ServiceInv, TripSound, Live, StatusOf
<1>4. PICK r \in Row : r = row[t]
    BY DEF ServiceInv, ServiceTypes
<1> DEFINE n == [r EXCEPT !.status = "CONFIRMED", !.onAction = "on_confirm"]
           done == Published(c, S)
           next == [op |-> "reconcile", txn |-> t, at |-> "posted",
                    caller |-> None, panel |-> FALSE]
<1>5. /\ n \in Row /\ n.status = "CONFIRMED" /\ n.onAction = "on_confirm"
      /\ n.asked = r.asked /\ n.again = r.again /\ n.checkout = r.checkout
    BY DEF Row, Status, OnAction
<1>6. row' = [row EXCEPT ![t] = n] /\ pol' = pol
    BY <1>1, <1>2, <1>3, <1>4 DEF OnConfirm, ServiceInv, ServiceTypes
<1>7. PICK e \in Trip :
          /\ IF done[c] = None THEN e = c ELSE Free(e)
          /\ trips' = [done EXCEPT ![e] = next]
    BY <1>1, <1>2, <1>3 DEF OnConfirm
<1>8. /\ next \in TripRecord /\ next.op = "reconcile" /\ next.txn = t /\ next.at = "posted"
      /\ next.caller = None /\ next.panel = FALSE
    BY DEF TripRecord, Op
<1>9. /\ done \in [Trip -> TripState]
      /\ \A d \in Trip :
             done[d] # None =>
                 /\ Under(d)
                 /\ done[d].op = trips[d].op /\ done[d].txn = trips[d].txn
                 /\ done[d].at = IF d = c THEN "over" ELSE trips[d].at
                 /\ done[d].panel = trips[d].panel
                 /\ done[d].caller = IF d \in S THEN None ELSE trips[d].caller
    BY PublishedFacts DEF ServiceInv
<1> HIDE DEF n, done, next
<1>10. /\ row' \in [Txn -> Row] /\ row'[t] = n /\ Touches(t)
    BY <1>5, <1>6 DEF ServiceInv, ServiceTypes, Touches
<1>11. /\ trips' \in [Trip -> TripState] /\ trips'[e] = next
       /\ \A d \in Trip \ {e} : trips'[d] = done[d]
    BY <1>7, <1>8, <1>9 DEF TripRecord, TripState
<1>12. ServiceTypes'
    BY <1>6, <1>10, <1>11 DEF ServiceInv, ServiceTypes
<1>13. Quoted(t)'
    BY <1>5, <1>10 DEF Quoted
<1>14. RowsKept
    BY <1>4, <1>5, <1>6, <1>10, <1>13 DEF RowsKept, Touches, Quoted
<1>15. RowSound(t)'
    BY <1>3, <1>4, <1>5, <1>6, <1>10, <1>13 DEF RowSound, ConfirmedOn
<1>16. Forward(t)
    BY <1>3, <1>4, <1>5, <1>10, RankValues DEF Forward
<1>17. \A d \in Trip \ {e} : Weakened(d) /\ CallerKept(d)
    BY <1>9, <1>11 DEF Weakened, CallerKept
<1>18. CallerKept(e)
    BY <1>8, <1>11 DEF CallerKept
<1>19. TripSound(e)'
    BY <1>3, <1>4, <1>5, <1>6, <1>8, <1>10, <1>11, <1>13 DEF TripSound, StatusOf
<1>20. e # c => ~ Under(e) /\ ~ Live(c)'
    <2>1. SUFFICES ASSUME e # c
          PROVE  ~ Under(e) /\ ~ Live(c)'
        OBVIOUS
    <2>2. ~ Under(e)
        BY <1>7, <2>1 DEF Free
    <2>3. trips'[c] # None => trips'[c].at = "over"
        BY <1>9, <1>11, <2>1
    <2>4. QED
        BY <2>2, <2>3 DEF Live, Under
<1>21. TripSound(c)'
    <2>1. CASE e = c
        BY <1>19, <2>1
    <2>2. CASE e # c
        BY <1>12, <1>14, <1>17, <1>20, <2>2, OverSound
    <2>3. QED
        BY <2>1, <2>2
<1>22. \A d \in {c, e} : Live(d)' => trips'[d].txn = t
    BY <1>8, <1>11, <1>20
<1>23. ServiceStep
    BY <1>1, <1>2, <1>3, <1>6, <1>10, <1>12, <1>14, <1>15, <1>16, <1>17, <1>19, <1>20, <1>21,
       <1>22, RowStep
<1>24. \A d \in S : trips'[d] # None => trips'[d].caller = None
    <2>1. S \subseteq Trip
        BY DEF Waiting
    <2>2. QED
        BY <1>8, <1>9, <1>11, <2>1
<1>25. QED
    BY <1>1, <1>3, <1>17, <1>18, <1>23, <1>24

--------------------------------------------------------------------------------
(* Requests and payments *)

\* Trip c is new, of page p.
Requested(c, op, t, p) ==
    /\ ~ Under(c) /\ c \in Trip
    /\ trips' = [trips EXCEPT ![c] =
           [op |-> op, txn |-> t, at |-> "sent", caller |-> p, panel |-> TRUE]]

LEMMA RequestStep ==
    ASSUME ServiceInv, NEW op, op \in {"select", "init", "confirm"}, NEW t \in Txn,
           NEW p \in Page, Request(op, t, p), UNCHANGED doku,
           op = "select" => Unused(t),
           op # "select" => Quoted(t),
           op = "confirm" => pol[t].paid
    PROVE  ServiceStep /\ \E c \in Trip : Requested(c, op, t, p)
<1>1. PICK c \in Trip : Free(c) /\ Requested(c, op, t, p)
    BY DEF Request, Requested, Free
<1>2. PICK r \in Row : r = row[t]
    BY DEF ServiceInv, ServiceTypes
<1> DEFINE again == r.again \/ op \in r.asked
           asked == r.asked \cup ({op} \ {"select"})
           n == [r EXCEPT !.status = SentStatus(op), !.again = again, !.asked = asked]
           new == [op |-> op, txn |-> t, at |-> "sent", caller |-> p, panel |-> TRUE]
<1>3. /\ SentStatus(op) = StatusOf(op, "sent") /\ SentStatus(op) \in Status
      /\ SentStatus(op) \in {"SELECT_SENT", "INIT_SENT", "CONFIRM_SENT"}
      /\ op = "select" <=> SentStatus(op) = "SELECT_SENT"
      /\ op = "confirm" <=> SentStatus(op) = "CONFIRM_SENT"
    BY DEF SentStatus, StatusOf, Status
<1>4. asked \in SUBSET {"init", "confirm"} /\ again \in BOOLEAN
    BY DEF Row
<1> HIDE DEF asked, again
<1>5. /\ n \in Row /\ n.status = SentStatus(op) /\ n.onAction = r.onAction
      /\ n.asked = asked /\ n.again = again /\ n.checkout = r.checkout
    BY <1>3, <1>4 DEF Row
<1>6. row' = [row EXCEPT ![t] = n] /\ pol' = pol
    BY <1>2 DEF Request, ServiceInv, ServiceTypes, again, asked
<1>7. /\ new \in TripRecord /\ new.op = op /\ new.txn = t /\ new.at = "sent"
    BY DEF TripRecord, Op
<1>8. trips' = [trips EXCEPT ![c] = new]
    BY <1>1 DEF Requested
<1> HIDE DEF n, new
<1>9. row' \in [Txn -> Row] /\ row'[t] = n /\ Touches(t)
    BY <1>5, <1>6 DEF ServiceInv, ServiceTypes, Touches
<1>10. /\ trips' \in [Trip -> TripState] /\ trips'[c] = new
       /\ \A d \in Trip \ {c} : trips'[d] = trips[d]
    BY <1>7, <1>8 DEF ServiceInv, ServiceTypes, TripRecord, TripState
<1>11. ServiceTypes'
    BY <1>6, <1>9, <1>10 DEF ServiceInv, ServiceTypes
<1>12. /\ RowSound(t)
       /\ op = "select" => ~ Quoted(t) /\ row[t].status = "none"
    BY DEF ServiceInv, Unused, Quoted
<1>13. Quoted(t)' <=> op # "select"
    BY <1>3, <1>5, <1>9 DEF Quoted
<1>14. RowsKept
    BY <1>2, <1>5, <1>6, <1>9, <1>12, <1>13 DEF RowsKept, Touches, Quoted, asked, again
<1>15. op = "confirm" => "init" \in row[t].asked /\ row[t].checkout
    BY <1>12 DEF RowSound
<1>16. op = "select" => asked = {} /\ ~ again /\ ~ r.checkout
    BY <1>2, <1>12 DEF RowSound, asked, again
<1>17. RowSound(t)'
    <2>1. CASE op = "select"
        BY <1>2, <1>3, <1>5, <1>6, <1>9, <1>12, <1>16, <2>1 DEF RowSound, ConfirmedOn
    <2>2. CASE op = "init"
        BY <1>2, <1>3, <1>5, <1>6, <1>9, <1>12, <1>13, <2>2 DEF RowSound, ConfirmedOn, asked, again
    <2>3. CASE op = "confirm"
        BY <1>2, <1>3, <1>5, <1>6, <1>9, <1>12, <1>13, <1>15, <2>3
           DEF RowSound, ConfirmedOn, asked, again
    <2>4. QED
        BY <2>1, <2>2, <2>3
<1>18. Forward(t)
    <2>1. CASE op = "select"
        BY <1>3, <1>5, <1>9, <1>12, <2>1, RankValues DEF Forward
    <2>2. CASE op = "init"
        <3>1. again \/ row[t].status \in {"none", "SELECT_SENT", "QUOTE_RECEIVED"}
            BY <1>2, <1>12, <2>2 DEF RowSound, again
        <3>2. SentStatus(op) = "INIT_SENT"
            BY <2>2 DEF SentStatus
        <3>3. QED
            BY <1>5, <1>9, <3>1, <3>2, RankValues DEF Forward
    <2>3. CASE op = "confirm"
        <3>1. again \/ row[t].status \in Status \ ({"CONFIRM_SENT"} \cup ConfirmedOn)
            BY <1>2, <1>12, <2>3 DEF RowSound, again, Row
        <3>2. SentStatus(op) = "CONFIRM_SENT"
            BY <2>3 DEF SentStatus
        <3>3. QED
            BY <1>5, <1>9, <3>1, <3>2, RankValues DEF Forward, Status, ConfirmedOn
    <2>4. QED
        BY <2>1, <2>2, <2>3
<1>19. ASSUME NEW u \in Txn \ {t}
       PROVE  RowSound(u)' /\ Forward(u)
    <2>1. row'[u] = row[u] /\ RowSound(u) /\ row[u].status \in Status
        BY <1>9 DEF Touches, ServiceInv, ServiceTypes, Row
    <2>2. RowSound(u)'
        BY <1>6, <2>1 DEF RowSound, Quoted
    <2>3. QED
        BY <2>1, <2>2, RankValues DEF Forward, Status
\* Whoever is under way for the transaction was asked for before.
<1>20. ASSUME NEW d \in Trip, Live(d), trips[d].txn = t
       PROVE  again /\ trips[d].op # "select"
    <2>1. TripSound(d) /\ Under(d) /\ trips[d].at # "over"
        BY <1>20 DEF ServiceInv, Live
    <2>2. trips[d] \in TripRecord
        BY <2>1, TripTyped DEF ServiceInv
    <2>3. trips[d].op # "select" /\ op # "select"
        BY <1>12, <1>20, <2>1 DEF TripSound, StatusOf, Quoted
    <2>4. CASE op = "init"
        BY <1>2, <1>12, <1>20, <2>1, <2>2, <2>3, <2>4
           DEF TripSound, RowSound, TripRecord, Op, again
    <2>5. CASE op = "confirm"
        BY <1>2, <1>12, <1>15, <1>20, <2>1, <2>2, <2>3, <2>5
           DEF TripSound, RowSound, TripRecord, Op, again
    <2>6. QED
        BY <2>3, <2>4, <2>5
<1>21. ASSUME NEW d \in Trip
       PROVE  TripSound(d)'
    <2>1. CASE d = c
        <3>1. op # "select" => op \in asked
            BY DEF asked
        <3>2. op = "confirm" => "init" \in asked /\ pol'[t].paid
            BY <1>2, <1>6, <1>15 DEF asked
        <3>3. op = "init" => again \/ ~ r.checkout
            BY <1>2, <1>12 DEF RowSound, again
        <3>4. QED
            BY <1>3, <1>5, <1>7, <1>9, <1>10, <1>13, <2>1, <3>1, <3>2, <3>3 DEF TripSound
    <2>2. CASE d # c
        <3>1. Weakened(d)
            BY <1>10, <2>2 DEF Weakened, Under
        <3>2. QED
            BY <1>5, <1>9, <1>11, <1>14, <1>20, <3>1, OtherTrip
    <2>3. QED
        BY <2>1, <2>2
<1>22. OneLive'
    <2>1. SUFFICES ASSUME NEW d \in Trip, NEW f \in Trip, Live(d)', Live(f)',
                          trips'[d].txn = trips'[f].txn, ~ row'[trips'[d].txn].again
          PROVE  d = f
        BY DEF OneLive
    <2>2. ASSUME NEW g \in Trip \ {c}, Live(g)'
          PROVE  Live(g) /\ trips[g].txn = trips'[g].txn /\ trips[g].txn \in Txn
        BY <1>10, <2>2, TripTyped DEF Live, Under, ServiceInv
    <2>3. ASSUME NEW g \in Trip \ {c}, Live(g)', trips'[g].txn = t
          PROVE  row'[t].again
        BY <1>5, <1>9, <1>20, <2>2, <2>3
    <2>4. trips'[c].txn = t
        BY <1>7, <1>10
    <2>5. CASE d # c /\ f # c
        <3>1. Live(d) /\ Live(f) /\ trips[d].txn = trips[f].txn
            BY <2>1, <2>2, <2>5
        <3>2. ~ row[trips[d].txn].again
            BY <1>14, <2>1, <2>2, <2>5 DEF RowsKept
        <3>3. QED
            BY <3>1, <3>2 DEF ServiceInv, OneLive
    <2>6. QED
        BY <2>1, <2>3, <2>4, <2>5
<1>23. QED
    BY <1>1, <1>11, <1>14, <1>17, <1>18, <1>19, <1>21, <1>22 DEF ServiceStep, ServiceInv

LEMMA NotifiedStep ==
    ASSUME ServiceInv, NEW t \in Txn, Notified(t)
    PROVE  ServiceStep /\ \A d \in Trip : CallerKept(d)
<1>1. PICK q \in Policy : q = pol[t]
    BY DEF ServiceInv, ServiceTypes
<1>2. /\ [q EXCEPT !.paid = TRUE] \in Policy /\ [q EXCEPT !.paid = TRUE].paid
      /\ [q EXCEPT !.paid = TRUE].issued = q.issued
    BY DEF Policy
<1>3. /\ pol' = [pol EXCEPT ![t] = [q EXCEPT !.paid = TRUE]]
      /\ row' = row /\ trips' = trips /\ doku' = doku /\ t \in doku
    BY <1>1 DEF Notified, PaymentReceived
<1>4. /\ pol' \in [Txn -> Policy]
      /\ \A u \in Txn : (pol[u].paid => pol'[u].paid) /\ pol'[u].issued = pol[u].issued
      /\ \A u \in Txn \ {t} : pol'[u].paid = pol[u].paid
    BY <1>1, <1>2, <1>3 DEF ServiceInv, ServiceTypes
<1>5. ServiceTypes'
    BY <1>3, <1>4 DEF ServiceInv, ServiceTypes
<1>6. RowsKept
    BY <1>3, <1>4 DEF RowsKept, Quoted
<1>7. ASSUME NEW u \in Txn
      PROVE  RowSound(u)' /\ Forward(u)
    <2>1. RowSound(u) /\ row[u].status \in Status
        BY DEF ServiceInv, ServiceTypes, Row
    <2>2. RowSound(u)'
        BY <1>3, <1>4, <2>1 DEF RowSound, Quoted
    <2>3. QED
        BY <1>3, <2>1, <2>2, RankValues DEF Forward, Status
<1>8. ASSUME NEW d \in Trip
      PROVE  Weakened(d) /\ CallerKept(d) /\ TripSound(d)'
    <2>1. Weakened(d) /\ CallerKept(d)
        BY <1>3 DEF Weakened, CallerKept, Under
    <2>2. QED
        BY <1>3, <1>5, <1>6, <2>1, OtherTrip DEF Touches
<1>9. OneLive'
    BY <1>3, <1>6, OneLiveKept DEF Live, Under
<1>10. QED
    BY <1>3, <1>5, <1>6, <1>7, <1>8, <1>9 DEF ServiceStep, ServiceInv

\* Only what has a checkout can be paid.
LEMMA PaidStep ==
    ASSUME ServiceInv, NEW t \in Txn, row[t].checkout, doku' = doku \cup {t},
           UNCHANGED <<row, pol, trips>>
    PROVE  ServiceStep /\ \A d \in Trip : CallerKept(d)
<1>1. ServiceTypes' /\ doku' \subseteq Txn
    BY DEF ServiceInv, ServiceTypes
<1>2. RowsKept
    BY DEF RowsKept, Quoted
<1>3. ASSUME NEW u \in Txn
      PROVE  RowSound(u)' /\ Forward(u)
    <2>1. RowSound(u) /\ row[u].status \in Status
        BY DEF ServiceInv, ServiceTypes, Row
    <2>2. RowSound(u)'
        BY <2>1 DEF RowSound, Quoted
    <2>3. QED
        BY <2>1, <2>2, RankValues DEF Forward, Status
<1>4. ASSUME NEW d \in Trip
      PROVE  CallerKept(d) /\ TripSound(d)'
    <2>1. Weakened(d) /\ CallerKept(d)
        BY DEF Weakened, CallerKept, Under
    <2>2. QED
        BY <1>1, <1>2, <2>1, OtherTrip DEF Touches
<1>5. OneLive'
    BY <1>2, OneLiveKept DEF Live, Under
<1>6. QED
    BY <1>1, <1>2, <1>3, <1>4, <1>5 DEF ServiceStep, ServiceInv

--------------------------------------------------------------------------------
(* Pages *)

LEMMA PageStays ==
    ASSUME PagesInv, RowsKept, NEW p \in Page, pages'[p] = pages[p]
    PROVE  PageSound(p)'
<1>1. PICK g \in PageState : g = pages[p]
    BY DEF PagesInv
<1>2. PageSound(p)
    BY DEF PagesInv
<1>3. /\ g.txn \in Txn \cup {None} /\ g.prop \in Txn \cup {None}
      /\ pages'[p] = g
    BY <1>1 DEF PageState
<1>4. \A u \in Txn : (Quoted(u) => Quoted(u)') /\ (pol[u].paid => pol'[u].paid)
    BY DEF RowsKept
<1>5. QED
    BY <1>1, <1>2, <1>3, <1>4 DEF PageSound, ClosedPage, Quoted

LEMMA CallStays ==
    ASSUME ServiceInv, PagesInv, NEW c \in Trip, CallerKept(c),
           \A p \in Page :
               trips'[c] # None /\ trips[c].caller = p =>
                   /\ pages'[p].open
                   /\ pages[p].txn # None => pages'[p].txn # None
                   /\ trips'[c].panel => /\ pages'[p].shown = pages[p].shown
                                         /\ pages'[p].prop = pages[p].prop
    PROVE  CallSound(c)'
<1>1. SUFFICES ASSUME trips'[c] # None, trips'[c].caller # None
      PROVE  CallSound(c)'
    BY DEF CallSound, Under
<1>2. /\ Under(c) /\ CallSound(c)
      /\ trips'[c].op = trips[c].op /\ trips'[c].txn = trips[c].txn
      /\ trips'[c].caller = trips[c].caller
      /\ trips'[c].panel => trips[c].panel
    BY <1>1 DEF CallerKept, PagesInv
<1>3. PICK p \in Page : p = trips[c].caller
    BY <1>1, <1>2, TripTyped DEF ServiceInv, TripRecord
<1>4. /\ pages'[p].open
      /\ pages[p].txn # None => pages'[p].txn # None
      /\ trips'[c].panel => /\ pages'[p].shown = pages[p].shown
                            /\ pages'[p].prop = pages[p].prop
    BY <1>1, <1>3
<1>5. QED
    BY <1>1, <1>2, <1>3, <1>4 DEF CallSound, Under

\* Steps the pages take no notice of.
LEMMA PagesStay ==
    ASSUME ServiceInv, PagesInv, RowsKept, UNCHANGED pages, \A c \in Trip : CallerKept(c)
    PROVE  PagesInv'
<1>1. \A p \in Page : PageSound(p)'
    BY PageStays
<1>2. ASSUME NEW c \in Trip
      PROVE  CallSound(c)'
    <2>1. CASE trips'[c] # None /\ trips'[c].caller # None
        <3>1. CallSound(c) /\ Under(c) /\ trips[c].caller # None
            BY <2>1 DEF CallerKept, PagesInv
        <3>2. pages[trips[c].caller].open
            BY <3>1 DEF CallSound
        <3>3. QED
            BY <3>2, CallStays
    <2>2. CASE ~ (trips'[c] # None /\ trips'[c].caller # None)
        BY <2>2 DEF CallSound, Under
    <2>3. QED
        BY <2>1, <2>2
<1>3. QED
    BY <1>1, <1>2 DEF PagesInv

\* Steps of one page.
LEMMA OnePage ==
    ASSUME ServiceInv, PagesInv, RowsKept, NEW p \in Page, NEW n \in PageState,
           pages' = [pages EXCEPT ![p] = n], PageSound(p)',
           \A c \in Trip :
               \/ CallSound(c)'
               \/ /\ CallerKept(c)
                  /\ trips'[c] # None /\ trips'[c].caller = p =>
                         /\ n.open
                         /\ pages[p].txn # None => n.txn # None
                         /\ trips'[c].panel => n.shown = pages[p].shown /\ n.prop = pages[p].prop
    PROVE  PagesInv'
<1>1. pages' \in [Page -> PageState] /\ pages'[p] = n
    BY DEF PagesInv
<1>2. \A q \in Page \ {p} : pages'[q] = pages[q]
    BY DEF PagesInv
<1>3. \A q \in Page : PageSound(q)'
    BY <1>2, PageStays
<1>4. ASSUME NEW c \in Trip
      PROVE  CallSound(c)'
    <2>1. CASE ~ CallSound(c)' /\ trips'[c] # None /\ trips'[c].caller # None
        <3>1. /\ CallerKept(c)
              /\ trips'[c].caller = p =>
                         /\ n.open
                         /\ pages[p].txn # None => n.txn # None
                         /\ trips'[c].panel => n.shown = pages[p].shown /\ n.prop = pages[p].prop
            BY <2>1
        <3>2. CallSound(c) /\ Under(c) /\ trips[c].caller = trips'[c].caller
            BY <2>1, <3>1 DEF CallerKept, PagesInv
        <3>3. pages[trips[c].caller].open
            BY <2>1, <3>2 DEF CallSound
        <3>4. QED
            BY <1>1, <1>2, <3>1, <3>2, <3>3, CallStays
    <2>2. CASE ~ (trips'[c] # None /\ trips'[c].caller # None)
        BY <2>2 DEF CallSound, Under
    <2>3. QED
        BY <2>1, <2>2
<1>5. QED
    BY <1>1, <1>3, <1>4 DEF PagesInv

\* Nobody waits on a closed page.
LEMMA NoCaller ==
    ASSUME PagesInv, NEW p \in Page, ~ pages[p].open, NEW c \in Trip, Under(c)
    PROVE  trips[c].caller # p
BY DEF PagesInv, CallSound

\* One field at a time.
LEMMA PageEdits ==
    ASSUME NEW g \in PageState
    PROVE  /\ [g EXCEPT !.open = TRUE] \in PageState
           /\ [g EXCEPT !.linked = TRUE] \in PageState
           /\ [g EXCEPT !.step = 2] \in PageState
           /\ [g EXCEPT !.step = 4] \in PageState
           /\ [g EXCEPT !.step = 5] \in PageState
           /\ \A t \in Txn : /\ [g EXCEPT !.txn = t] \in PageState
                             /\ [g EXCEPT !.quote = t] \in PageState
                             /\ [g EXCEPT !.init = t] \in PageState
                             /\ [g EXCEPT !.confirm = t] \in PageState
<1>1. [g EXCEPT !.open = TRUE] \in PageState
    BY DEF PageState
<1>2. [g EXCEPT !.linked = TRUE] \in PageState
    BY DEF PageState
<1>3. /\ [g EXCEPT !.step = 2] \in PageState
      /\ [g EXCEPT !.step = 4] \in PageState
      /\ [g EXCEPT !.step = 5] \in PageState
    BY DEF PageState
<1>4. ASSUME NEW t \in Txn \cup {None}
      PROVE  [g EXCEPT !.txn = t] \in PageState
    BY DEF PageState
<1>5. ASSUME NEW t \in Txn \cup {None}
      PROVE  [g EXCEPT !.quote = t] \in PageState
    BY DEF PageState
<1>6. ASSUME NEW t \in Txn \cup {None}
      PROVE  [g EXCEPT !.init = t] \in PageState
    BY DEF PageState
<1>7. ASSUME NEW t \in Txn \cup {None}
      PROVE  [g EXCEPT !.confirm = t] \in PageState
    BY DEF PageState
<1>8. QED
    BY <1>1, <1>2, <1>3, <1>4, <1>5, <1>6, <1>7

\* Only the spinner and the polls have changed.
SamePage(n, g) ==
    /\ n.open = g.open /\ n.step = g.step /\ n.shown = g.shown /\ n.prop = g.prop
    /\ n.txn = g.txn /\ n.quote = g.quote /\ n.init = g.init /\ n.confirm = g.confirm
    /\ n.linked = g.linked /\ n.stray = g.stray

LEMMA SamePageSound ==
    ASSUME PagesInv, RowsKept, NEW p \in Page, NEW n \in PageState, pages'[p] = n,
           SamePage(n, pages[p]), n.open,
           n.paid \/ "paid" \in n.polls =>
               \/ pages[p].paid \/ "paid" \in pages[p].polls
               \/ n.prop # None /\ pol[n.prop].paid
    PROVE  PageSound(p)'
<1>1. PICK g \in PageState : g = pages[p]
    BY DEF PagesInv
<1>2. PageSound(p)
    BY DEF PagesInv
<1>3. /\ n.txn \in Txn \cup {None} /\ n.prop \in Txn \cup {None}
    BY DEF PageState
<1>4. \A u \in Txn : (Quoted(u) => Quoted(u)') /\ (pol[u].paid => pol'[u].paid)
    BY DEF RowsKept
<1>5. /\ n.step > 1 \/ n.shown > 1 => n.txn # None
      /\ n.shown > 1 => n.prop # None
      /\ n.quote # None => n.quote = n.txn
    BY <1>1, <1>2 DEF PageSound, SamePage
<1>6. /\ n.txn # None => Quoted(n.txn)'
      /\ n.prop # None => Quoted(n.prop)'
    <2>1. /\ n.txn # None => Quoted(n.txn)
          /\ n.prop # None => Quoted(n.prop)
        BY <1>1, <1>2 DEF PageSound, SamePage
    <2>2. QED
        BY <1>3, <1>4, <2>1
<1>7. n.paid \/ "paid" \in n.polls => n.prop # None /\ pol'[n.prop].paid
    <2>1. n.paid \/ "paid" \in n.polls => n.prop # None /\ pol[n.prop].paid
        BY <1>1, <1>2 DEF PageSound, SamePage
    <2>2. QED
        BY <1>3, <1>4, <2>1
<1>8. n.open /\ ~ n.stray =>
          /\ n.step = n.shown => n.prop = n.txn
          /\ n.step = 4 => n.linked \/ n.init = n.txn
          /\ n.step = 5 => n.confirm = n.txn
    BY <1>1, <1>2 DEF PageSound, SamePage
<1>9. QED
    BY <1>5, <1>6, <1>7, <1>8 DEF PageSound

LEMMA ClosedPageFacts ==
    /\ ClosedPage \in PageState
    /\ ~ ClosedPage.open /\ ClosedPage.step = 1 /\ ClosedPage.shown = 1
    /\ ClosedPage.txn = None /\ ClosedPage.prop = None /\ ClosedPage.quote = None
    /\ ~ ClosedPage.paid /\ ClosedPage.polls = {}
<1>1. "policy_issued" \in Stages
    BY DEF Stages, SeamStages
<1>2. QED
    BY <1>1 DEF ClosedPage, PageState

LEMMA OpenFlowStep ==
    ASSUME ServiceInv, PagesInv, NEW p \in Page, OpenFlow(p)
    PROVE  ServiceStep /\ PagesInv'
<1>1. ServiceStep /\ \A c \in Trip : CallerKept(c)
    BY TripsOnly DEF OpenFlow, ServiceInv, ServiceTypes, Weakened, CallerKept, Under
<1>2. pages[p] = ClosedPage
    BY DEF PagesInv, PageSound, OpenFlow
<1> DEFINE n == [ClosedPage EXCEPT !.open = TRUE]
<1>3. /\ n \in PageState
      /\ n.open /\ n.step = 1 /\ n.shown = 1 /\ n.txn = None /\ n.prop = None
      /\ n.quote = None /\ ~ n.paid /\ n.polls = {}
    BY ClosedPageFacts DEF PageState
<1>4. pages' = [pages EXCEPT ![p] = n]
    BY <1>2 DEF OpenFlow
<1> HIDE DEF n
<1>5. pages'[p] = n
    BY <1>4 DEF PagesInv
<1>6. PageSound(p)'
    BY <1>3, <1>5 DEF PageSound
<1>7. \A c \in Trip : trips'[c] # None => trips'[c].caller # p
    BY NoCaller DEF OpenFlow, Under
<1>8. QED
    BY <1>1, <1>3, <1>4, <1>6, <1>7, OnePage DEF ServiceStep

LEMMA OpenLinkStep ==
    ASSUME ServiceInv, PagesInv, NEW p \in Page, NEW t \in Txn, OpenLink(p, t)
    PROVE  ServiceStep /\ PagesInv'
<1>1. ServiceStep /\ \A c \in Trip : CallerKept(c)
    BY TripsOnly DEF OpenLink, ServiceInv, ServiceTypes, Weakened, CallerKept, Under
<1>2. PICK g \in PageState : g = ClosedPage /\ g = pages[p]
    BY ClosedPageFacts DEF PagesInv, PageSound, OpenLink
<1> DEFINE n == [g EXCEPT !.open = TRUE, !.step = 4, !.txn = t, !.linked = TRUE]
<1>3. /\ n \in PageState
      /\ n.open /\ n.step = 4 /\ n.shown = 1 /\ n.txn = t /\ n.prop = None
      /\ n.quote = None /\ ~ n.paid /\ n.polls = {} /\ n.linked
    <2>1. n \in PageState
        <3>1. PICK x \in PageState : x = [g EXCEPT !.open = TRUE]
            BY PageEdits
        <3>2. PICK y \in PageState : y = [x EXCEPT !.step = 4]
            BY PageEdits
        <3>3. PICK z \in PageState : z = [y EXCEPT !.txn = t]
            BY PageEdits
        <3>4. PICK v \in PageState : v = [z EXCEPT !.linked = TRUE]
            BY PageEdits
        <3>5. n = v
            BY <3>1, <3>2, <3>3, <3>4
        <3>6. QED
            BY <3>5
    <2>2. n.shown = g.shown /\ n.prop = g.prop /\ n.quote = g.quote /\ n.paid = g.paid
          /\ n.polls = g.polls
        BY DEF PageState
    <2>3. n.open /\ n.step = 4 /\ n.txn = t /\ n.linked
        BY DEF PageState
    <2>4. QED
        BY <1>2, <2>1, <2>2, <2>3, ClosedPageFacts
<1>4. pages' = [pages EXCEPT ![p] = n]
    BY <1>2 DEF OpenLink
<1> HIDE DEF n
<1>5. pages'[p] = n
    BY <1>4 DEF PagesInv
<1>6. Quoted(t)' /\ t # None
    BY DEF OpenLink, ServiceInv, RowSound, Quoted
<1>7. PageSound(p)'
    BY <1>3, <1>5, <1>6 DEF PageSound
<1>8. \A c \in Trip : trips'[c] # None => trips'[c].caller # p
    BY NoCaller DEF OpenLink, Under
<1>9. QED
    BY <1>1, <1>3, <1>4, <1>7, <1>8, OnePage DEF ServiceStep

LEMMA PayStep ==
    ASSUME ServiceInv, PagesInv, NEW p \in Page, Pay(p)
    PROVE  ServiceStep /\ PagesInv'
<1>1. PICK t \in Txn : t = pages[p].init
    BY DEF Pay, PagesInv, PageState
<1>2. ServiceStep /\ \A d \in Trip : CallerKept(d)
    BY <1>1, PaidStep DEF Pay
<1>3. QED
    BY <1>2, PagesStay DEF Pay, ServiceStep

LEMMA NotifiedPages ==
    ASSUME ServiceInv, PagesInv, NEW t \in Txn, Notified(t)
    PROVE  ServiceStep /\ PagesInv'
BY NotifiedStep, PagesStay DEF Notified, ServiceStep

LEMMA BackendStep ==
    ASSUME ServiceInv, PagesInv, NEW c \in Trip, Backend(c)
    PROVE  ServiceStep /\ PagesInv'
<1>1. ServiceStep /\ \A d \in Trip : CallerKept(d)
    BY SendReconcileStep, LoseStep, InsurerAnswersStep, OnInitStep, OnReconcileStep DEF Backend
<1>2. QED
    BY <1>1, PagesStay DEF Backend, ServiceStep

\* Those who are released wait no more.
LEMMA ReleasedStep ==
    ASSUME ServiceInv, NEW S, \A c \in Trip : c \in S => Under(c),
           trips' = Released(S), UNCHANGED <<row, pol, doku>>
    PROVE  /\ ServiceStep
           /\ \A c \in Trip : /\ CallerKept(c)
                              /\ trips'[c] # None /\ c \in S => trips'[c].caller = None
<1>1. ServiceTypes
    BY DEF ServiceInv
<1>2. trips' \in [Trip -> TripState]
    BY <1>1, ReleasedFacts
<1>3. ASSUME NEW c \in Trip
      PROVE  trips'[c] # None =>
                      /\ Under(c)
                      /\ trips'[c].op = trips[c].op /\ trips'[c].txn = trips[c].txn
                      /\ trips'[c].at = trips[c].at /\ trips'[c].panel = trips[c].panel
                      /\ trips'[c].caller = IF c \in S THEN None ELSE trips[c].caller
    BY <1>1, ReleasedFacts
<1>4. \A c \in Trip : Weakened(c) /\ CallerKept(c)
    BY <1>3 DEF Weakened, CallerKept
<1>5. ServiceStep
    BY <1>2, <1>4, TripsOnly
<1>6. QED
    BY <1>3, <1>4, <1>5

LEMMA LeaveStep ==
    ASSUME ServiceInv, PagesInv, NEW p \in Page, Leave(p)
    PROVE  ServiceStep /\ PagesInv'
<1>1. /\ ServiceStep
      /\ \A c \in Trip : /\ CallerKept(c)
                         /\ trips'[c] # None /\ c \in CallsOf(p) => trips'[c].caller = None
    BY ReleasedStep DEF Leave, CallsOf
<1>2. \A c \in Trip : trips'[c] # None => trips'[c].caller # p
    BY <1>1 DEF CallerKept, CallsOf
<1>3. pages'[p] = ClosedPage
    BY DEF Leave, PagesInv
<1>4. PageSound(p)'
    BY <1>3, ClosedPageFacts DEF PageSound
<1>5. QED
    BY <1>1, <1>2, <1>4, ClosedPageFacts, OnePage DEF Leave, ServiceStep

LEMMA SettleStep ==
    ASSUME ServiceInv, PagesInv, NEW p \in Page, Settle(p)
    PROVE  ServiceStep /\ PagesInv'
<1>1. ASSUME NEW c \in Trip
      PROVE  /\ trips'[c] \in TripState
             /\ Weakened(c) /\ CallerKept(c)
             /\ trips'[c] # None /\ trips'[c].caller = p => ~ trips'[c].panel
    <2>1. CASE c \in CallsOf(p)
        <3>1. PICK x \in TripRecord : x = trips[c]
            BY <2>1, TripTyped DEF CallsOf, ServiceInv
        <3>2. trips'[c] = [x EXCEPT !.panel = FALSE]
            BY <2>1, <3>1 DEF Settle
        <3>3. /\ trips'[c] \in TripRecord /\ ~ trips'[c].panel
              /\ trips'[c].op = x.op /\ trips'[c].txn = x.txn /\ trips'[c].at = x.at
              /\ trips'[c].caller = x.caller
            BY <3>2 DEF TripRecord
        <3>4. QED
            BY <2>1, <3>1, <3>3 DEF Weakened, CallerKept, CallsOf, TripState, TripRecord
    <2>2. CASE c \notin CallsOf(p)
        <3>1. trips'[c] = trips[c]
            BY <2>2 DEF Settle
        <3>2. QED
            BY <2>2, <3>1
               DEF Weakened, CallerKept, CallsOf, Under, ServiceInv, ServiceTypes
    <2>3. QED
        BY <2>1, <2>2
<1>2. trips' \in [Trip -> TripState]
    BY <1>1 DEF Settle
<1>3. ServiceStep
    BY <1>1, <1>2, TripsOnly DEF Settle
<1>4. PICK g \in PageState : g = pages[p]
    BY DEF PagesInv
<1> DEFINE linked == g.linked /\ g.step = 4
           f == [g EXCEPT !.busy = FALSE, !.paid = FALSE, !.stage = "policy_issued"]
           n == [g EXCEPT !.shown = g.step, !.prop = g.txn, !.busy = FALSE, !.paid = FALSE,
                          !.stage = "policy_issued", !.polls = {}, !.linked = linked]
<1>5. n \in PageState
    <2>1. /\ "policy_issued" \in Stages /\ g.step \in 1..5 /\ g.txn \in Txn \cup {None}
          /\ linked \in BOOLEAN
        BY DEF Stages, SeamStages, PageState
    <2> HIDE DEF linked
    <2>2. QED
        BY <2>1 DEF PageState
<1>6. /\ n.open = g.open /\ n.step = g.step /\ n.shown = g.step /\ n.prop = g.txn
      /\ ~ n.paid /\ n.polls = {} /\ n.txn = g.txn /\ n.quote = g.quote /\ n.init = g.init
      /\ n.confirm = g.confirm /\ n.stray = g.stray /\ n.linked = linked
    BY DEF PageState
<1>7. pages' = [pages EXCEPT ![p] = n]
    BY <1>4 DEF Settle
<1> HIDE DEF n
<1>8. pages'[p] = n /\ g.open
    BY <1>4, <1>7 DEF PagesInv, Settle
<1>9. PageSound(p)'
    <2>1. PageSound(p) /\ g.txn \in Txn \cup {None}
        BY DEF PagesInv, PageState
    <2>2. \A u \in Txn : Quoted(u) => Quoted(u)'
        BY <1>3 DEF ServiceStep, RowsKept
    <2>3. QED
        BY <1>4, <1>6, <1>8, <2>1, <2>2 DEF PageSound
<1>10. ASSUME NEW c \in Trip, trips'[c] # None, trips'[c].caller = p
       PROVE  /\ n.open
              /\ pages[p].txn # None => n.txn # None
              /\ ~ trips'[c].panel
    BY <1>1, <1>4, <1>6, <1>8, <1>10
<1>11. QED
    BY <1>1, <1>3, <1>5, <1>7, <1>9, <1>10, OnePage DEF ServiceStep

--------------------------------------------------------------------------------
(* The steps of the page *)

LEMMA GoToStep ==
    ASSUME ServiceInv, PagesInv, NEW p \in Page, NEW s \in 1..3, GoTo(p, s),
           pages[p].shown > 1, s # pages[p].shown
    PROVE  ServiceStep /\ PagesInv'
<1>1. ServiceStep /\ \A c \in Trip : CallerKept(c)
    BY TripsOnly DEF GoTo, ServiceInv, ServiceTypes, Weakened, CallerKept, Under
<1>2. PICK g \in PageState : g = pages[p]
    BY DEF PagesInv
<1> DEFINE n == [g EXCEPT !.step = s]
<1>3. /\ n \in PageState
      /\ n.open = g.open /\ n.step = s /\ n.shown = g.shown /\ n.prop = g.prop
      /\ n.paid = g.paid /\ n.polls = g.polls /\ n.txn = g.txn /\ n.quote = g.quote
    BY DEF PageState
<1>4. pages' = [pages EXCEPT ![p] = n]
    BY <1>2 DEF GoTo
<1> HIDE DEF n
<1>5. pages'[p] = n
    BY <1>4 DEF PagesInv
<1>6. PageSound(p) /\ g.open
    <2>1. PageSound(p)
        BY DEF PagesInv
    <2>2. QED
        BY <1>2, <2>1, ClosedPageFacts DEF PageSound
<1>7. PageSound(p)'
    <2>1. g.txn \in Txn \cup {None} /\ g.prop \in Txn \cup {None} /\ s # 4 /\ s # 5
        BY DEF PageState
    <2>2. \A u \in Txn : (Quoted(u) => Quoted(u)') /\ (pol[u].paid => pol'[u].paid)
        BY <1>1 DEF ServiceStep, RowsKept
    <2>3. QED
        BY <1>2, <1>3, <1>5, <1>6, <2>1, <2>2 DEF PageSound
<1>8. QED
    BY <1>1, <1>2, <1>3, <1>4, <1>6, <1>7, OnePage DEF ServiceStep

LEMMA PostStep ==
    ASSUME ServiceInv, PagesInv, NEW p \in Page, NEW op, op \in {"select", "init", "confirm"},
           NEW t \in Txn, Post(p, op, t), pages[p].open,
           op = "select" => Unused(t) /\ pages[p].shown = 1,
           op = "init" => pages[p].shown = 3 /\ t = pages[p].prop,
           op = "confirm" => pages[p].shown = 4 /\ t = pages[p].prop /\ pages[p].paid
    PROVE  ServiceStep /\ PagesInv'
<1>1. PICK g \in PageState : g = pages[p]
    BY DEF PagesInv
<1>2. PageSound(p)
    BY DEF PagesInv
<1>3. /\ op # "select" => Quoted(t) /\ g.txn # None
      /\ op = "confirm" => pol[t].paid
    BY <1>1, <1>2 DEF PageSound
<1>4. ServiceStep /\ \E c \in Trip : Requested(c, op, t, p)
    BY <1>3, RequestStep DEF Post
<1>5. PICK c \in Trip : Requested(c, op, t, p)
    BY <1>4
<1> DEFINE n == [g EXCEPT !.busy = TRUE]
           new == [op |-> op, txn |-> t, at |-> "sent", caller |-> p, panel |-> TRUE]
<1>6. /\ n \in PageState
      /\ n.open = g.open /\ n.step = g.step /\ n.shown = g.shown /\ n.prop = g.prop
      /\ n.paid = g.paid /\ n.polls = g.polls /\ n.txn = g.txn /\ n.quote = g.quote
      /\ n.init = g.init /\ n.confirm = g.confirm /\ n.linked = g.linked /\ n.stray = g.stray
    BY DEF PageState
<1>7. pages' = [pages EXCEPT ![p] = n]
    BY <1>1 DEF Post
<1>8. new.op = op /\ new.txn = t /\ new.caller = p
    OBVIOUS
<1>9. trips' = [trips EXCEPT ![c] = new]
    BY <1>5 DEF Requested
<1> HIDE DEF n, new
<1>10. pages'[p] = n /\ g.open
    BY <1>1, <1>7 DEF PagesInv
<1>11. trips'[c] = new /\ \A d \in Trip \ {c} : trips'[d] = trips[d]
    BY <1>9 DEF ServiceInv, ServiceTypes
<1>12. CallSound(c)'
    BY <1>1, <1>3, <1>6, <1>8, <1>10, <1>11 DEF CallSound
<1>13. \A d \in Trip \ {c} : CallerKept(d)
    BY <1>11 DEF CallerKept, Under
<1>14. PageSound(p)'
    BY <1>1, <1>4, <1>6, <1>10, SamePageSound DEF SamePage, ServiceStep
<1>15. QED
    BY <1>1, <1>4, <1>6, <1>7, <1>10, <1>12, <1>13, <1>14, OnePage DEF ServiceStep

\* A field of the step shown that only Failed and the polls write.
LEMMA BusyPage ==
    ASSUME NEW g \in PageState, NEW busy \in BOOLEAN
    PROVE  LET n == [g EXCEPT !.busy = busy] IN
           /\ n \in PageState
           /\ n.open = g.open /\ n.step = g.step /\ n.shown = g.shown /\ n.prop = g.prop
           /\ n.paid = g.paid /\ n.polls = g.polls /\ n.txn = g.txn /\ n.quote = g.quote
           /\ n.init = g.init /\ n.confirm = g.confirm /\ n.linked = g.linked
           /\ n.stray = g.stray
BY DEF PageState

LEMMA GiveUpStep ==
    ASSUME ServiceInv, PagesInv, NEW c \in Trip, GiveUp(c)
    PROVE  ServiceStep /\ PagesInv'
<1>1. /\ ServiceStep
      /\ \A d \in Trip : CallerKept(d)
    BY ReleasedStep DEF GiveUp
<1>2. PICK p \in Page : p = trips[c].caller
    BY TripTyped DEF GiveUp, ServiceInv, TripRecord
<1>3. PICK g \in PageState : g = pages[p]
    BY DEF PagesInv
<1>4. g.open /\ PageSound(p)
    BY <1>2, <1>3 DEF PagesInv, CallSound, GiveUp
<1> DEFINE busy == g.busy /\ \A d \in {c} \cap CallsOf(p) : ~ trips[d].panel
           n == [g EXCEPT !.busy = busy]
<1>5. busy \in BOOLEAN
    OBVIOUS
<1>6. pages' = [pages EXCEPT ![p] = n]
    BY <1>2, <1>3 DEF GiveUp, Failed
<1> HIDE DEF busy
<1>7. /\ n \in PageState
      /\ n.open = g.open /\ n.step = g.step /\ n.shown = g.shown /\ n.prop = g.prop
      /\ n.paid = g.paid /\ n.polls = g.polls /\ n.txn = g.txn /\ n.quote = g.quote
      /\ n.init = g.init /\ n.confirm = g.confirm /\ n.linked = g.linked
      /\ n.stray = g.stray
    BY <1>5, BusyPage
<1> HIDE DEF n
<1>8. pages'[p] = n
    BY <1>6 DEF PagesInv
<1>9. PageSound(p)'
    BY <1>1, <1>3, <1>4, <1>7, <1>8, SamePageSound DEF SamePage, ServiceStep
<1>10. QED
    BY <1>1, <1>3, <1>4, <1>6, <1>7, <1>9, OnePage DEF ServiceStep

\* What a page makes of an answer, first whatever the operation.
LEMMA AnsweredPage ==
    ASSUME PagesInv, NEW p \in Page, NEW S, NEW op, op \in {"select", "init", "confirm"},
           NEW t \in Txn
    PROVE  LET n == Answered(p, S, op, t)
               g == pages[p]
               asking == \E c \in S \cap CallsOf(p) : trips[c].panel IN
           /\ n \in PageState
           /\ n.open = g.open /\ n.shown = g.shown /\ n.prop = g.prop
           /\ n.paid = g.paid /\ n.polls = g.polls /\ n.linked = g.linked
           /\ n.stray <=> g.stray \/ ~ asking \/ g.step # g.shown
           /\ op = "select" => n.quote = t /\ n.txn = t /\ n.step = 2
           /\ op # "select" => n.quote = g.quote /\ n.txn = g.txn
           /\ op = "init" => n.init = t /\ n.step = 4
           /\ op = "confirm" => n.confirm = t /\ n.step = 5
<1>1. PICK g \in PageState : g = pages[p]
    BY DEF PagesInv
<1> DEFINE asking == \E c \in S \cap CallsOf(p) : trips[c].panel
           o == OnNext(g, op, t)
           stray == o.stray \/ ~ asking \/ g.step # g.shown
           n == [o EXCEPT !.stray = stray]
<1>2. Answered(p, S, op, t) = n
    BY <1>1 DEF Answered
<1>3. /\ o \in PageState
      /\ o.open = g.open /\ o.shown = g.shown /\ o.prop = g.prop
      /\ o.paid = g.paid /\ o.polls = g.polls /\ o.linked = g.linked /\ o.stray = g.stray
      /\ op = "select" => o.quote = t /\ o.txn = t /\ o.step = 2
      /\ op # "select" => o.quote = g.quote /\ o.txn = g.txn
      /\ op = "init" => o.init = t /\ o.step = 4
      /\ op = "confirm" => o.confirm = t /\ o.step = 5
    <2>1. CASE op = "select"
        <3>1. PICK x \in PageState : x = [g EXCEPT !.quote = t]
            BY PageEdits
        <3>2. PICK y \in PageState : y = [x EXCEPT !.txn = t]
            BY PageEdits
        <3>3. PICK v \in PageState : v = [y EXCEPT !.step = 2]
            BY PageEdits
        <3>4. o = v
            BY <2>1, <3>1, <3>2, <3>3 DEF OnNext
        <3>5. /\ x.quote = t
              /\ x.open = g.open /\ x.shown = g.shown /\ x.prop = g.prop /\ x.paid = g.paid /\ x.polls = g.polls
              /\ x.linked = g.linked /\ x.stray = g.stray
            BY <3>1 DEF PageState
        <3>6. /\ y.txn = t
              /\ y.open = x.open /\ y.shown = x.shown /\ y.prop = x.prop /\ y.paid = x.paid /\ y.polls = x.polls
              /\ y.linked = x.linked /\ y.stray = x.stray /\ y.quote = x.quote
            BY <3>2 DEF PageState
        <3>7. /\ v.step = 2
              /\ v.open = y.open /\ v.shown = y.shown /\ v.prop = y.prop /\ v.paid = y.paid /\ v.polls = y.polls
              /\ v.linked = y.linked /\ v.stray = y.stray /\ v.quote = y.quote /\ v.txn = y.txn
            BY <3>3 DEF PageState
        <3> HIDE DEF o
        <3>8. QED
            BY <2>1, <3>4, <3>5, <3>6, <3>7
    <2>2. CASE op = "init"
        <3>1. PICK x \in PageState : x = [g EXCEPT !.init = t]
            BY PageEdits
        <3>2. PICK v \in PageState : v = [x EXCEPT !.step = 4]
            BY PageEdits
        <3>3. o = v
            BY <2>2, <3>1, <3>2 DEF OnNext
        <3>4. /\ x.init = t
              /\ x.open = g.open /\ x.shown = g.shown /\ x.prop = g.prop /\ x.paid = g.paid /\ x.polls = g.polls
              /\ x.linked = g.linked /\ x.stray = g.stray /\ x.quote = g.quote /\ x.txn = g.txn
            BY <3>1 DEF PageState
        <3>5. /\ v.step = 4
              /\ v.open = x.open /\ v.shown = x.shown /\ v.prop = x.prop /\ v.paid = x.paid /\ v.polls = x.polls
              /\ v.linked = x.linked /\ v.stray = x.stray /\ v.quote = x.quote /\ v.txn = x.txn /\ v.init = x.init
            BY <3>2 DEF PageState
        <3> HIDE DEF o
        <3>6. QED
            BY <2>2, <3>3, <3>4, <3>5
    <2>3. CASE op = "confirm"
        <3>1. PICK x \in PageState : x = [g EXCEPT !.confirm = t]
            BY PageEdits
        <3>2. PICK v \in PageState : v = [x EXCEPT !.step = 5]
            BY PageEdits
        <3>3. o = v
            BY <2>3, <3>1, <3>2 DEF OnNext
        <3>4. /\ x.confirm = t
              /\ x.open = g.open /\ x.shown = g.shown /\ x.prop = g.prop /\ x.paid = g.paid /\ x.polls = g.polls
              /\ x.linked = g.linked /\ x.stray = g.stray /\ x.quote = g.quote /\ x.txn = g.txn
            BY <3>1 DEF PageState
        <3>5. /\ v.step = 5
              /\ v.open = x.open /\ v.shown = x.shown /\ v.prop = x.prop /\ v.paid = x.paid /\ v.polls = x.polls
              /\ v.linked = x.linked /\ v.stray = x.stray /\ v.quote = x.quote /\ v.txn = x.txn /\ v.confirm = x.confirm
            BY <3>2 DEF PageState
        <3> HIDE DEF o
        <3>6. QED
            BY <2>3, <3>3, <3>4, <3>5
    <2>4. QED
        BY <2>1, <2>2, <2>3
<1> HIDE DEF o, asking
<1>4. stray \in BOOLEAN
    OBVIOUS
<1>5. /\ n \in PageState /\ n.stray = stray
      /\ n.open = o.open /\ n.step = o.step /\ n.shown = o.shown /\ n.prop = o.prop
      /\ n.paid = o.paid /\ n.polls = o.polls /\ n.txn = o.txn /\ n.quote = o.quote
      /\ n.init = o.init /\ n.confirm = o.confirm /\ n.linked = o.linked
    <2> HIDE DEF stray
    <2>1. QED
        BY <1>3, <1>4 DEF PageState
<1> HIDE DEF n
<1>6. QED
    BY <1>1, <1>2, <1>3, <1>5 DEF asking

LEMMA AnswerStep ==
    ASSUME ServiceInv, PagesInv, NEW c \in Trip, Under(c), Answer(c)
    PROVE  ServiceStep /\ PagesInv'
<1>1. PICK S \in SUBSET Waiting(c) :
          /\ OnSelect(c, S) \/ OnInitDone(c, S) \/ OnConfirm(c, S)
          /\ pages' = [p \in Page |->
                 IF S \cap CallsOf(p) = {} THEN pages[p]
                 ELSE IF trips[c].at = "refused" THEN Failed(p, S)
                 ELSE Answered(p, S, trips[c].op, trips[c].txn)]
          /\ doku' = doku
    BY DEF Answer
<1>2. PICK t \in Txn : t = trips[c].txn
    BY TripTyped DEF ServiceInv
<1>3. PICK op \in Op : op = trips[c].op
    BY TripTyped DEF ServiceInv, TripRecord
<1>4. TripSound(c) /\ trips[c].at # "refused"
    BY DEF ServiceInv, TripSound
<1>5. /\ ServiceStep /\ \A d \in Trip : CallerKept(d)
      /\ op \in {"select", "init", "confirm"}
      /\ Quoted(t)'
    <2>1. CASE OnSelect(c, S)
        BY <1>1, <1>2, <1>3, <2>1, OnSelectStep DEF Heard, OnSelect
    <2>2. CASE OnInitDone(c, S)
        <3>1. ServiceStep /\ Heard(c, S)
            BY <1>1, <2>2, OnInitDoneStep
        <3>2. op = "init" /\ Quoted(t)
            BY <1>2, <1>3, <1>4, <2>2 DEF OnInitDone, TripSound
        <3>3. QED
            BY <3>1, <3>2 DEF Heard, ServiceStep, RowsKept
    <2>3. CASE OnConfirm(c, S)
        <3>1. ServiceStep /\ \A d \in Trip : CallerKept(d)
            BY <1>1, <2>3, OnConfirmStep
        <3>2. op = "confirm" /\ Quoted(t)
            BY <1>2, <1>3, <1>4, <2>3 DEF OnConfirm, TripSound
        <3>3. QED
            BY <3>1, <3>2 DEF ServiceStep, RowsKept
    <2>4. QED
        BY <1>1, <2>1, <2>2, <2>3
<1>6. ASSUME NEW p \in Page
      PROVE  pages'[p] = IF S \cap CallsOf(p) = {} THEN pages[p] ELSE Answered(p, S, op, t)
    BY <1>1, <1>2, <1>3, <1>4
\* The page hears of a call of its own.
<1>7. ASSUME NEW p \in Page, NEW d \in S \cap CallsOf(p)
      PROVE  /\ pages[p].open
             /\ op # "select" => pages[p].txn # None
             /\ trips[d].panel =>
                    /\ op = "select" => pages[p].shown = 1
                    /\ op = "init" => pages[p].shown = 3 /\ t = pages[p].prop
                    /\ op = "confirm" => pages[p].shown = 4 /\ t = pages[p].prop
    <2>1. d \in Trip /\ Under(d) /\ trips[d].op = op /\ trips[d].txn = t /\ trips[d].caller = p
        BY <1>2, <1>3 DEF Waiting, CallsOf
    <2>2. CallSound(d)
        BY <2>1 DEF PagesInv
    <2>3. QED
        BY <2>1, <2>2 DEF CallSound
<1>8. ASSUME NEW p \in Page
      PROVE  /\ pages'[p] \in PageState
             /\ PageSound(p)'
             /\ pages'[p].open = pages[p].open
             /\ pages[p].txn # None => pages'[p].txn # None
             /\ pages'[p].shown = pages[p].shown /\ pages'[p].prop = pages[p].prop
    <2>1. CASE S \cap CallsOf(p) = {}
        <3>1. pages'[p] = pages[p]
            BY <1>6, <2>1
        <3>2. PageSound(p)'
            BY <1>5, <3>1, PageStays DEF ServiceStep
        <3>3. QED
            BY <3>1, <3>2 DEF PagesInv
    <2>2. CASE S \cap CallsOf(p) # {}
        <3>1. PICK g \in PageState : g = pages[p]
            BY DEF PagesInv
        <3> DEFINE asking == \E d \in S \cap CallsOf(p) : trips[d].panel
        <3>2. PICK n \in PageState :
                  /\ n = Answered(p, S, op, t)
                  /\ n.open = g.open /\ n.shown = g.shown /\ n.prop = g.prop
                  /\ n.paid = g.paid /\ n.polls = g.polls /\ n.linked = g.linked
                  /\ n.stray <=> g.stray \/ ~ asking \/ g.step # g.shown
                  /\ op = "select" => n.quote = t /\ n.txn = t /\ n.step = 2
                  /\ op # "select" => n.quote = g.quote /\ n.txn = g.txn
                  /\ op = "init" => n.init = t /\ n.step = 4
                  /\ op = "confirm" => n.confirm = t /\ n.step = 5
            BY <1>5, <3>1, AnsweredPage
        <3>3. pages'[p] = n
            BY <1>6, <2>2, <3>2
        <3>4. /\ g.open
              /\ op # "select" => g.txn # None
              /\ asking => /\ op = "select" => g.shown = 1
                           /\ op = "init" => g.shown = 3 /\ t = g.prop
                           /\ op = "confirm" => g.shown = 4 /\ t = g.prop
            BY <1>7, <2>2, <3>1
        <3> HIDE DEF asking
        <3>5. PageSound(p) /\ t # None
            BY DEF PagesInv
        <3>6. g.txn \in Txn \cup {None} /\ g.prop \in Txn \cup {None}
            BY DEF PageState
        <3>7. \A u \in Txn : (Quoted(u) => Quoted(u)') /\ (pol[u].paid => pol'[u].paid)
            BY <1>5 DEF ServiceStep, RowsKept
        <3>8. PageSound(p)'
            <4>1. /\ n.txn # None /\ Quoted(n.txn)'
                  /\ n.quote # None => n.quote = n.txn
                <5>1. CASE op = "select"
                    BY <1>5, <3>2, <3>5, <5>1
                <5>2. CASE op # "select"
                    <6>1. Quoted(g.txn) /\ (g.quote # None => g.quote = g.txn)
                        BY <3>1, <3>4, <3>5, <5>2 DEF PageSound
                    <6>2. QED
                        BY <3>2, <3>4, <3>6, <3>7, <5>2, <6>1
                <5>3. QED
                    BY <5>1, <5>2
            <4>2. /\ n.prop # None => Quoted(n.prop)'
                  /\ n.shown > 1 => n.prop # None
                  /\ n.paid \/ "paid" \in n.polls => n.prop # None /\ pol'[n.prop].paid
                BY <3>1, <3>2, <3>5, <3>6, <3>7 DEF PageSound
            <4>3. ASSUME ~ n.stray
                  PROVE  /\ n.step # n.shown
                         /\ n.step = 4 => n.init = n.txn
                         /\ n.step = 5 => n.confirm = n.txn
                <5>1. asking /\ g.step = g.shown /\ g.prop = g.txn
                    BY <3>1, <3>2, <3>4, <3>5, <4>3 DEF PageSound
                <5>2. QED
                    BY <1>5, <3>2, <3>4, <5>1
            <4>4. n.open
                BY <3>2, <3>4
            <4>5. QED
                BY <3>3, <4>1, <4>2, <4>3, <4>4 DEF PageSound
        <3>9. QED
            BY <1>5, <3>1, <3>2, <3>3, <3>5, <3>8
    <2>3. QED
        BY <2>1, <2>2
<1>9. ASSUME NEW d \in Trip
      PROVE  CallSound(d)'
    <2>1. CASE trips'[d] # None /\ trips'[d].caller # None
        <3>1. CallSound(d) /\ Under(d) /\ trips[d].caller # None
            BY <1>5, <2>1 DEF CallerKept, PagesInv
        <3>2. pages[trips[d].caller].open
            BY <3>1 DEF CallSound
        <3>3. QED
            BY <1>5, <1>8, <3>2, CallStays
    <2>2. CASE ~ (trips'[d] # None /\ trips'[d].caller # None)
        BY <2>2 DEF CallSound, Under
    <2>3. QED
        BY <2>1, <2>2
<1>10. pages' \in [Page -> PageState]
    BY <1>1, <1>8
<1>11. QED
    BY <1>5, <1>8, <1>9, <1>10 DEF PagesInv

--------------------------------------------------------------------------------
(* Polls *)

LEMMA StagesAre == Stages = {"policy_issued", "reconciling", "settled"}
<1>1. /\ SeamStages[3] = "policy_issued" /\ SeamStages[4] = "reconciling"
      /\ SeamStages[5] = "settled"
    BY DEF SeamStages
<1>2. 3..5 = {3, 4, 5}
    OBVIOUS
<1>3. QED
    BY <1>1, <1>2 DEF Stages

\* A poll tells of a payment only what is true.
LEMMA AsksStep ==
    ASSUME ServiceInv, PagesInv, NEW p \in Page, NEW v,
           v \in PaidAnswer \cup Stages \cup {"same"}, Asks(p, v), pages[p].shown > 1,
           v = "paid" => pol[pages[p].prop].paid
    PROVE  ServiceStep /\ PagesInv'
<1>1. ServiceStep /\ \A c \in Trip : CallerKept(c)
    BY TripsOnly DEF Asks, ServiceInv, ServiceTypes, Weakened, CallerKept, Under
<1>2. PICK g \in PageState : g = pages[p]
    BY DEF PagesInv
<1> DEFINE polls == g.polls \cup {v}
           n == [g EXCEPT !.polls = polls]
<1>3. pages' = [pages EXCEPT ![p] = n]
    BY <1>2 DEF Asks
<1>4. polls \in SUBSET (PaidAnswer \cup Stages \cup {"same"})
    BY DEF PageState
<1> HIDE DEF polls
<1>5. /\ n \in PageState
      /\ n.open = g.open /\ n.step = g.step /\ n.shown = g.shown /\ n.prop = g.prop
      /\ n.paid = g.paid /\ n.polls = polls /\ n.txn = g.txn /\ n.quote = g.quote
      /\ n.init = g.init /\ n.confirm = g.confirm /\ n.linked = g.linked
      /\ n.stray = g.stray
    BY <1>4 DEF PageState
<1> HIDE DEF n
<1>6. pages'[p] = n
    BY <1>3 DEF PagesInv
<1>7. PageSound(p) /\ g.open
    <2>1. PageSound(p)
        BY DEF PagesInv
    <2>2. QED
        BY <1>2, <2>1, ClosedPageFacts DEF PageSound
<1>8. g.prop # None /\ ("paid" \in polls => "paid" \in g.polls \/ pol[g.prop].paid)
    BY <1>2, <1>7 DEF PageSound, polls
<1>9. PageSound(p)'
    BY <1>1, <1>2, <1>5, <1>6, <1>7, <1>8, SamePageSound DEF SamePage, ServiceStep
<1>10. QED
    BY <1>1, <1>2, <1>3, <1>5, <1>7, <1>9, OnePage DEF ServiceStep

LEMMA PollPaymentStep ==
    ASSUME ServiceInv, PagesInv, NEW p \in Page, PollPayment(p)
    PROVE  ServiceStep /\ PagesInv'
<1>1. CASE pol[pages[p].prop].paid
    BY <1>1, AsksStep DEF PollPayment, PaidAnswer
<1>2. CASE ~ pol[pages[p].prop].paid
    BY <1>2, AsksStep DEF PollPayment, PaidAnswer
<1>3. QED
    BY <1>1, <1>2

LEMMA PollStageStep ==
    ASSUME ServiceInv, PagesInv, NEW p \in Page, PollStage(p)
    PROVE  ServiceStep /\ PagesInv'
<1>1. PICK v : v = StageOf(pages[p].prop)
    OBVIOUS
<1>2. v \in Stages \cup {"same"} /\ v # "paid"
    BY <1>1, StagesAre DEF StageOf
<1>3. QED
    BY <1>1, <1>2, AsksStep DEF PollStage

LEMMA PollAnsweredStep ==
    ASSUME ServiceInv, PagesInv, NEW p \in Page, PollAnswered(p)
    PROVE  ServiceStep /\ PagesInv'
<1>1. ServiceStep /\ \A c \in Trip : CallerKept(c)
    BY TripsOnly DEF PollAnswered, ServiceInv, ServiceTypes, Weakened, CallerKept, Under
<1>2. PICK g \in PageState : g = pages[p]
    BY DEF PagesInv
<1>3. PICK v \in g.polls :
          pages' = [pages EXCEPT ![p] =
              [g EXCEPT !.polls = @ \ {v}, !.paid = v = "paid",
                        !.stage = IF v \in Stages THEN v ELSE @]]
    BY <1>2 DEF PollAnswered
<1> DEFINE polls == g.polls \ {v}
           paid == v = "paid"
           stage == IF v \in Stages THEN v ELSE g.stage
           n == [g EXCEPT !.polls = polls, !.paid = paid, !.stage = stage]
<1>4. pages' = [pages EXCEPT ![p] = n]
    BY <1>2, <1>3 DEF PagesInv, PageState
<1>5. /\ polls \in SUBSET (PaidAnswer \cup Stages \cup {"same"})
      /\ paid \in BOOLEAN /\ stage \in Stages
    BY DEF PageState
<1>6. /\ "paid" \in polls => "paid" \in g.polls
      /\ paid => "paid" \in g.polls
    OBVIOUS
<1> HIDE DEF polls, paid, stage
<1>7. /\ n \in PageState
      /\ n.open = g.open /\ n.step = g.step /\ n.shown = g.shown /\ n.prop = g.prop
      /\ n.paid = paid /\ n.polls = polls /\ n.txn = g.txn /\ n.quote = g.quote
      /\ n.init = g.init /\ n.confirm = g.confirm /\ n.linked = g.linked
      /\ n.stray = g.stray
    BY <1>5 DEF PageState
<1> HIDE DEF n
<1>8. pages'[p] = n
    BY <1>4 DEF PagesInv
<1>9. PageSound(p) /\ g.open
    <2>1. PageSound(p)
        BY DEF PagesInv
    <2>2. g.polls # {}
        BY <1>3
    <2>3. QED
        BY <1>2, <2>1, <2>2, ClosedPageFacts DEF PageSound
<1>10. PageSound(p)'
    BY <1>1, <1>2, <1>6, <1>7, <1>8, <1>9, SamePageSound DEF SamePage, ServiceStep
<1>11. QED
    BY <1>1, <1>2, <1>4, <1>7, <1>9, <1>10, OnePage DEF ServiceStep

--------------------------------------------------------------------------------
(* All together *)

LEMMA Start == Init => IInv
<1> SUFFICES ASSUME Init PROVE IInv
    OBVIOUS
<1>1. ServiceTypes
    BY DEF Init, ServiceInit, ServiceTypes, Row, Status, OnAction, Policy, TripState, NewRow,
           NewPolicy
<1>2. \A t \in Txn : row[t] = NewRow /\ pol[t] = NewPolicy
    BY DEF Init, ServiceInit
<1>3. \A c \in Trip : ~ Under(c)
    BY DEF Init, ServiceInit, Under
<1>4. \A t \in Txn : RowSound(t)
    BY <1>2 DEF Init, RowSound, Quoted, ConfirmedOn, NewRow, NewPolicy
<1>5. ServiceInv
    BY <1>1, <1>3, <1>4 DEF ServiceInv, TripSound, OneLive, Live, Init
<1>6. \A p \in Page : pages[p] = ClosedPage
    BY DEF Init
<1>7. \A p \in Page : PageSound(p)
    BY <1>6, ClosedPageFacts DEF PageSound
<1>8. PagesInv
    BY <1>3, <1>7, ClosedPageFacts DEF PagesInv, CallSound, Init
<1>9. posts \in 0..MaxPosts
    BY BoundsAssumption DEF Init
<1>10. QED
    BY <1>5, <1>8, <1>9 DEF IInv

LEMMA Step ==
    ASSUME IInv, [Next]_vars
    PROVE  ServiceStep /\ PagesInv' /\ posts' \in 0..MaxPosts
<1> USE DEF IInv
<1>1. posts' \in 0..MaxPosts
    <2>1. posts' = posts \/ (posts < MaxPosts /\ posts' = posts + 1)
        BY DEF Next, vars, Backend, Answer, GiveUp, Notified, OpenFlow, OpenLink, Leave, Settle,
               VehicleDetailsStep, QuoteStep, KYCStep, PaymentStep, Post, GoTo, Pay,
               PollPayment, PollStage, PollAnswered, Asks
    <2>2. QED
        BY <2>1, BoundsAssumption
<1>2. CASE UNCHANGED vars
    <2>1. ServiceStep /\ \A c \in Trip : CallerKept(c)
        BY <1>2, TripsOnly
           DEF vars, ServiceInv, ServiceTypes, Weakened, CallerKept, Under
    <2>2. QED
        BY <1>1, <1>2, <2>1, PagesStay DEF vars, ServiceStep
<1>3. ASSUME NEW c \in Trip, Backend(c) \/ (Under(c) /\ Answer(c)) \/ GiveUp(c)
      PROVE  ServiceStep /\ PagesInv'
    BY <1>3, BackendStep, AnswerStep, GiveUpStep
<1>4. ASSUME NEW t \in Txn, Notified(t)
      PROVE  ServiceStep /\ PagesInv'
    BY <1>4, NotifiedPages
<1>5. ASSUME NEW p \in Page, VehicleDetailsStep(p)
      PROVE  ServiceStep /\ PagesInv'
    BY <1>5, PostStep DEF VehicleDetailsStep, Shows
<1>6. ASSUME NEW p \in Page, QuoteStep(p)
      PROVE  ServiceStep /\ PagesInv'
    BY <1>6, GoToStep DEF QuoteStep, Shows
\* A step behind the first was given a transaction.
<1>7. ASSUME NEW p \in Page, pages[p].shown > 1
      PROVE  pages[p].prop \in Txn
    <2>1. PICK g \in PageState : g = pages[p]
        BY DEF PagesInv
    <2>2. PageSound(p)
        BY DEF PagesInv
    <2>3. QED
        BY <1>7, <2>1, <2>2 DEF PageSound, PageState
<1>8. ASSUME NEW p \in Page, KYCStep(p)
      PROVE  ServiceStep /\ PagesInv'
    <2>1. pages[p].open /\ pages[p].shown = 3 /\ pages[p].prop \in Txn
        BY <1>7, <1>8 DEF KYCStep, Shows
    <2>2. CASE Post(p, "init", pages[p].prop)
        BY <2>1, <2>2, PostStep
    <2>3. CASE GoTo(p, 2)
        BY <2>1, <2>3, GoToStep
    <2>4. QED
        BY <1>8, <2>2, <2>3 DEF KYCStep
<1>9. ASSUME NEW p \in Page, PaymentStep(p)
      PROVE  ServiceStep /\ PagesInv'
    <2>1. pages[p].open /\ pages[p].shown = 4 /\ pages[p].prop \in Txn
        BY <1>7, <1>9 DEF PaymentStep, Shows
    <2>2. CASE pages[p].paid /\ Post(p, "confirm", pages[p].prop)
        BY <2>1, <2>2, PostStep
    <2>3. CASE GoTo(p, 3)
        BY <2>1, <2>3, GoToStep
    <2>4. QED
        BY <1>9, <2>2, <2>3 DEF PaymentStep
<1>10. ASSUME NEW p \in Page,
              \/ OpenFlow(p) \/ (\E t \in Txn : OpenLink(p, t)) \/ Leave(p) \/ Settle(p)
              \/ Pay(p) \/ PollPayment(p) \/ PollStage(p) \/ PollAnswered(p)
       PROVE  ServiceStep /\ PagesInv'
    BY <1>10, OpenFlowStep, OpenLinkStep, LeaveStep, SettleStep, PayStep, PollPaymentStep,
       PollStageStep, PollAnsweredStep
<1>11. QED
    BY <1>1, <1>2, <1>3, <1>4, <1>5, <1>6, <1>8, <1>9, <1>10 DEF Next

LEMMA Invariance == Spec => []IInv
<1>1. IInv /\ [Next]_vars => IInv'
    BY Step DEF ServiceStep, IInv
<1>2. QED
    BY <1>1, Start, PTL DEF Spec

\* Type correctness of the databases, the trips and the pages.
THEOREM TypeCorrect == Spec => []TypeOK
<1>1. IInv => TypeOK
    BY DEF IInv, ServiceInv, PagesInv, TypeOK
<1>2. QED
    BY <1>1, Invariance, PTL

\* "Confirm Payment" reaches the insurer only for transactions whose payment it
\* has recorded, for any number of tabs, requests and polls.
THEOREM OnlyPaidConfirmed == Spec => []ConfirmOnlyPaid
<1>1. IInv => ConfirmOnlyPaid
    BY DEF IInv, ServiceInv, TripSound, ConfirmOnlyPaid
<1>2. QED
    BY <1>1, Invariance, PTL

\* What a page shows beside a status is of the transaction whose status it is.
THEOREM DataBelongs == Spec => []DataIsOfTransaction
<1>1. ASSUME IInv
      PROVE  DataIsOfTransaction
    <2>1. \A p \in Page : PageSound(p) /\ pages[p] \in PageState
        BY <1>1 DEF IInv, PagesInv
    <2>2. QED
        BY <2>1 DEF DataIsOfTransaction, PageSound
<1>2. QED
    BY <1>1, Invariance, PTL

\* The status of the buyer's backend never runs ahead of the insurer.
THEOREM ConfirmedMeansIssued == Spec => []ConfirmedIsIssued
<1>1. IInv => ConfirmedIsIssued
    BY DEF IInv, ServiceInv, RowSound, ConfirmedIsIssued, ConfirmedOn
<1>2. QED
    BY <1>1, Invariance, PTL

\* The order history and the policy step show the same stage.
THEOREM StagesAgree == Spec => []ViewsAgree
<1>1. ASSUME IInv
      PROVE  ViewsAgree
    <2>1. SUFFICES ASSUME NEW t \in Txn, StageOf(t) # "same", ~ row[t].again
          PROVE  SeamStage(t) = StageOf(t)
        BY DEF ViewsAgree
    <2>2. RowSound(t)
        BY <1>1 DEF IInv, ServiceInv
    <2>3. row[t].status \in Status
        BY <1>1 DEF IInv, ServiceInv, ServiceTypes, Row
    <2>4. CASE row[t].status \in {"SETTLED", "RECONCILING"}
        BY <2>4 DEF StageOf, SeamStage
    <2>5. CASE row[t].status \notin {"SETTLED", "RECONCILING"}
        <3>1. row[t].onAction = "on_confirm" /\ StageOf(t) = "policy_issued"
            BY <2>1, <2>5 DEF StageOf
        <3>2. row[t].status # "INIT_RECEIVED"
            BY <2>1, <2>2, <3>1 DEF RowSound, ConfirmedOn
        <3>3. SeamStage(t) = "policy_issued"
            BY <2>5, <3>1, <3>2 DEF SeamStage
        <3>4. QED
            BY <3>1, <3>3
    <2>6. QED
        BY <2>4, <2>5
<1>2. QED
    BY <1>1, Invariance, PTL

\* The status of a transaction never goes back, unless init or confirm was asked
\* for again, although every writer upserts without looking.
THEOREM RunsForward == Spec => StatusRunsForward
<1>1. IInv /\ [Next]_vars =>
          [\A t \in Txn : row'[t].again \/ Rank(row[t].status) <= Rank(row'[t].status)]_vars
    BY Step DEF ServiceStep, Forward
<1>2. QED
    BY <1>1, Invariance, PTL DEF Spec, StatusRunsForward
--------------------------------------------------------------------------------
(* The spinner *)

(***************************************************************************)
(* The safety core of SpinnerEnds.  A spinner has a cause that ends: the   *)
(* request of the step shown, which its trip will answer or give up, or    *)
(* the animation of a step that is about to leave.  And it is of one       *)
(* request: nothing that a page does or hears lets a step ask twice.       *)
(***************************************************************************)
Asking(p) == {c \in CallsOf(p) : trips[c].panel}

SpinnerSound(p) ==
    /\ Asking(p) # {} => pages[p].busy
    /\ \A c, d \in Asking(p) : c = d
    /\ pages[p].busy /\ ~ pages[p].stray => Asking(p) # {} \/ pages[p].shown # pages[p].step

SpinnerHasOneCause == \A p \in Page : SpinnerSound(p)

\* A call outside S goes on waiting for its caller: the converse of CallerKept.
StillWaits(c) ==
    trips[c] # None /\ trips[c].caller # None =>
        /\ trips'[c] # None
        /\ trips'[c].caller = trips[c].caller /\ trips'[c].panel = trips[c].panel

\* What a step makes of the calls, when those in S are answered.
CallsLess(S) ==
    \A c \in Trip :
        /\ CallerKept(c)
        /\ c \notin S => StillWaits(c)
        /\ c \in S /\ trips'[c] # None => trips'[c].caller = None

LEMMA AskingLess ==
    ASSUME NEW S, CallsLess(S), NEW p \in Page
    PROVE  Asking(p)' = Asking(p) \ S
<1>1. ASSUME NEW c \in Trip
      PROVE  c \in Asking(p)' <=> c \in Asking(p) \ S
    <2>1. /\ c \in Asking(p) <=> trips[c] # None /\ trips[c].caller = p /\ trips[c].panel
          /\ c \in Asking(p)' <=> trips'[c] # None /\ trips'[c].caller = p /\ trips'[c].panel
        BY DEF Asking, CallsOf, Under
    <2>2. CASE c \in S
        BY <2>1, <2>2 DEF CallsLess
    <2>3. CASE c \notin S
        <3>1. c \in Asking(p) => c \in Asking(p)'
            BY <2>1, <2>3 DEF CallsLess, StillWaits
        <3>2. c \in Asking(p)' => c \in Asking(p)
            <4>1. SUFFICES ASSUME c \in Asking(p)'
                  PROVE  c \in Asking(p)
                OBVIOUS
            <4>2. /\ Under(c) /\ trips[c].caller = p
                  /\ trips'[c].panel /\ (trips'[c].panel => trips[c].panel)
                BY <2>1, <4>1 DEF CallsLess, CallerKept
            <4>3. trips[c].panel
                BY <4>2
            <4>4. QED
                BY <2>1, <4>2, <4>3 DEF Under
        <3>3. QED
            BY <2>3, <3>1, <3>2
    <2>4. QED
        BY <2>2, <2>3
<1>2. Asking(p) \subseteq Trip /\ Asking(p)' \subseteq Trip
    BY DEF Asking, CallsOf
<1>3. QED
    BY <1>1, <1>2

\* A page that is as it was as far as the spinner goes.
SameSpinner(n, g) ==
    /\ n.busy = g.busy /\ n.stray = g.stray /\ n.shown = g.shown /\ n.step = g.step

LEMMA SpinnerStays ==
    ASSUME SpinnerHasOneCause, NEW S, CallsLess(S), NEW p \in Page,
           S \cap Asking(p) = {}, SameSpinner(pages'[p], pages[p])
    PROVE  SpinnerSound(p)'
<1>1. Asking(p)' = Asking(p)
    BY AskingLess
<1>2. SpinnerSound(p)
    BY DEF SpinnerHasOneCause
<1>3. QED
    BY <1>1, <1>2 DEF SpinnerSound, SameSpinner

\* No spinner, and nobody asking.
LEMMA NoSpinner ==
    ASSUME NEW p \in Page, ~ pages'[p].busy, Asking(p)' = {}
    PROVE  SpinnerSound(p)'
BY DEF SpinnerSound

LEMMA CallsSame ==
    ASSUME trips' = trips
    PROVE  CallsLess({})
BY DEF CallsLess, CallerKept, StillWaits, Under

LEMMA CallsReleased ==
    ASSUME ServiceInv, NEW S, \A c \in Trip : c \in S => Under(c), trips' = Released(S)
    PROVE  CallsLess(S)
<1>1. ASSUME NEW c \in Trip
      PROVE  /\ CallerKept(c)
             /\ c \in S /\ trips'[c] # None => trips'[c].caller = None
    <2>1. trips'[c] # None =>
                      /\ Under(c)
                      /\ trips'[c].op = trips[c].op /\ trips'[c].txn = trips[c].txn
                      /\ trips'[c].at = trips[c].at /\ trips'[c].panel = trips[c].panel
                      /\ trips'[c].caller = IF c \in S THEN None ELSE trips[c].caller
        BY ReleasedFacts DEF ServiceInv
    <2>2. QED
        BY <2>1 DEF CallerKept
<1>2. ASSUME NEW c \in Trip, c \notin S
      PROVE  StillWaits(c)
    <2>1. trips'[c] = trips[c]
        BY <1>2 DEF Released
    <2>2. QED
        BY <2>1 DEF StillWaits
<1>3. QED
    BY <1>1, <1>2 DEF CallsLess

LEMMA PublishedWaits ==
    ASSUME ServiceInv, NEW c \in Trip, Under(c), NEW S \in SUBSET Waiting(c),
           NEW d \in Trip, d \notin S, trips[d] # None, trips[d].caller # None
    PROVE  /\ Published(c, S)[d] # None
           /\ Published(c, S)[d].caller = trips[d].caller
           /\ Published(c, S)[d].panel = trips[d].panel
<1>1. ServiceTypes /\ \A e \in Trip : e \in S => Under(e)
    BY DEF ServiceInv, Waiting
<1>2. Released(S) \in [Trip -> TripState]
    BY <1>1, ReleasedFacts
<1>3. CASE d # c
    <2>1. Published(c, S)[d] = trips[d]
        BY <1>2, <1>3 DEF Published, Released
    <2>2. QED
        BY <2>1
<1>4. CASE d = c
    <2>1. PICK x \in TripRecord : x = trips[c]
        BY <1>1, TripTyped
    <2> DEFINE y == [x EXCEPT !.at = "over", !.caller = x.caller]
    <2>2. y.caller = x.caller /\ y.panel = x.panel /\ y \in TripRecord
        BY DEF TripRecord
    <2>3. Published(c, S)[c] = Cleared(y)
        BY <1>2, <1>4, <2>1 DEF Published
    <2> HIDE DEF y
    <2>4. Cleared(y) = y
        BY <1>4, <2>1, <2>2 DEF Cleared
    <2>5. y # None
        BY <1>4, <2>1, <2>2, TripAssumption
    <2>6. QED
        BY <1>4, <2>1, <2>2, <2>3, <2>4, <2>5
<1>5. QED
    BY <1>3, <1>4

\* Trip c goes on with its caller, as another record.
LEMMA CallGoesOn ==
    ASSUME NEW c \in Trip, NEW x, trips[c] = x, trips \in [Trip -> TripState], NEW y,
           trips' = [trips EXCEPT ![c] = y],
           x.caller # None => y # None /\ y.caller = x.caller /\ y.panel = x.panel,
           \A d \in Trip : CallerKept(d)
    PROVE  CallsLess({})
<1>1. trips'[c] = y /\ \A d \in Trip \ {c} : trips'[d] = trips[d]
    OBVIOUS
<1>2. \A d \in Trip : StillWaits(d)
    BY <1>1 DEF StillWaits
<1>3. QED
    BY <1>2 DEF CallsLess

LEMMA BackendCalls ==
    ASSUME ServiceInv, PagesInv, NEW c \in Trip, Backend(c)
    PROVE  CallsLess({})
<1>1. \A d \in Trip : CallerKept(d)
    BY SendReconcileStep, LoseStep, InsurerAnswersStep, OnInitStep, OnReconcileStep DEF Backend
<1>2. Under(c)
    BY DEF Backend, SendReconcile, Lose, InsurerAnswers, OnInit, OnReconcile
<1>3. PICK x \in TripRecord : x = trips[c]
    BY <1>2, TripTyped DEF ServiceInv
<1>4. trips \in [Trip -> TripState]
    BY DEF ServiceInv, ServiceTypes
<1>5. ASSUME NEW at \in {"sent", "back", "refused", "checkout", "over"}
      PROVE  LET y == [x EXCEPT !.at = at] IN
             y # None /\ y.caller = x.caller /\ y.panel = x.panel /\ y.at = at
    <2>1. [x EXCEPT !.at = at] \in TripRecord
        BY DEF TripRecord
    <2>2. QED
        BY <2>1, TripAssumption DEF TripRecord
<1>6. ASSUME NEW at \in {"sent", "back", "refused", "checkout"},
             trips' = [trips EXCEPT ![c] = [x EXCEPT !.at = at]]
      PROVE  CallsLess({})
    <2> DEFINE y == [x EXCEPT !.at = at]
    <2>1. y # None /\ y.caller = x.caller /\ y.panel = x.panel
        BY <1>5
    <2>2. trips' = [trips EXCEPT ![c] = y]
        BY <1>6
    <2> HIDE DEF y
    <2>3. QED
        BY <1>1, <1>3, <1>4, <2>1, <2>2, CallGoesOn
<1>7. CASE SendReconcile(c) \/ OnInit(c) \/ InsurerAnswers(c)
    <2>1. trips[c] = x
        BY <1>3
    <2>2. CASE SendReconcile(c)
        BY <1>6, <2>1, <2>2 DEF SendReconcile
    <2>3. CASE OnInit(c)
        BY <1>6, <2>1, <2>3 DEF OnInit
    <2>4. CASE InsurerAnswers(c)
        <3>1. PICK at \in {"refused", "back"} :
                  trips' = [trips EXCEPT ![c] = [x EXCEPT !.at = at]]
            BY <2>1, <2>4 DEF InsurerAnswers
        <3>2. QED
            BY <1>6, <3>1
    <2>5. QED
        BY <1>7, <2>2, <2>3, <2>4
<1>8. CASE Lose(c)
    <2> DEFINE y == [x EXCEPT !.at = "over"]
    <2>1. y # None /\ y.caller = x.caller /\ y.panel = x.panel /\ y.at = "over"
        BY <1>5
    <2>2. trips' = [trips EXCEPT ![c] = Cleared(y)]
        BY <1>3, <1>8 DEF Lose
    <2> HIDE DEF y
    <2>3. x.caller # None => Cleared(y) = y
        BY <2>1 DEF Cleared
    <2>4. QED
        BY <1>1, <1>3, <1>4, <2>1, <2>2, <2>3, CallGoesOn
\* Nobody waits for a reconcile.
<1>9. CASE OnReconcile(c)
    <2>1. x.caller = None
        BY <1>2, <1>3, <1>9 DEF PagesInv, CallSound, OnReconcile
    <2>2. QED
        BY <1>1, <1>3, <1>4, <1>9, <2>1, CallGoesOn DEF OnReconcile
<1>10. QED
    BY <1>7, <1>8, <1>9 DEF Backend

LEMMA AnswerCalls ==
    ASSUME ServiceInv, NEW c \in Trip, Under(c), NEW S \in SUBSET Waiting(c), UNCHANGED doku,
           OnSelect(c, S) \/ OnInitDone(c, S) \/ OnConfirm(c, S)
    PROVE  CallsLess(S)
<1>1. CASE OnSelect(c, S) \/ OnInitDone(c, S)
    <2>1. trips' = Published(c, S)
        BY <1>1 DEF OnSelect, OnInitDone
    <2>2. Heard(c, S)
        BY <2>1, PublishedHeard
    <2>3. \A d \in Trip : d \notin S => StillWaits(d)
        BY <2>1, PublishedWaits DEF StillWaits
    <2>4. QED
        BY <2>2, <2>3 DEF Heard, CallsLess
<1>2. CASE OnConfirm(c, S)
    <2>1. /\ \A d \in Trip : CallerKept(d)
          /\ \A d \in S : trips'[d] # None => trips'[d].caller = None
          /\ trips[c].at = "back"
        BY <1>2, OnConfirmStep
    <2>2. PICK e \in Trip :
              /\ IF Published(c, S)[c] = None THEN e = c ELSE Free(e)
              /\ trips' = [Published(c, S) EXCEPT ![e] =
                     [op |-> "reconcile", txn |-> trips[c].txn, at |-> "posted",
                      caller |-> None, panel |-> FALSE]]
        BY <1>2, <2>1 DEF OnConfirm
    <2>3. ASSUME NEW d \in Trip, d \notin S, trips[d] # None, trips[d].caller # None
          PROVE  StillWaits(d)
        <3>1. /\ Published(c, S)[d] # None
              /\ Published(c, S)[d].caller = trips[d].caller
              /\ Published(c, S)[d].panel = trips[d].panel
            BY <2>3, PublishedWaits
        <3>2. d # e
            BY <2>2, <2>3, <3>1 DEF Free, Under
        <3>3. trips'[d] = Published(c, S)[d]
            BY <2>2, <3>2, PublishedFacts DEF ServiceInv
        <3>4. QED
            BY <3>1, <3>3 DEF StillWaits
    <2>4. \A d \in Trip : d \notin S => StillWaits(d)
        BY <2>3 DEF StillWaits
    <2>5. QED
        BY <2>1, <2>4 DEF CallsLess
<1>3. QED
    BY <1>1, <1>2

\* Of the steps that leave the calls alone: those of other pages, and those whose
\* page keeps what matters or has no spinner.
LEMMA OwnPage ==
    ASSUME PagesInv, SpinnerHasOneCause, NEW S, CallsLess(S), NEW p \in Page, NEW n,
           pages' = [pages EXCEPT ![p] = n],
           S = {} \/ \A q \in Page \ {p} : S \cap Asking(q) = {},
           SpinnerSound(p)'
    PROVE  SpinnerHasOneCause'
<1>1. ASSUME NEW q \in Page \ {p}
      PROVE  SpinnerSound(q)'
    <2>1. pages'[q] = pages[q]
        BY DEF PagesInv
    <2>2. QED
        BY <2>1, SpinnerStays DEF SameSpinner
<1>2. QED
    BY <1>1 DEF SpinnerHasOneCause

LEMMA SameSpinnerStep ==
    ASSUME PagesInv, SpinnerHasOneCause, NEW S, CallsLess(S), S = {}, NEW p \in Page, NEW n,
           pages' = [pages EXCEPT ![p] = n], SameSpinner(n, pages[p])
    PROVE  SpinnerHasOneCause'
<1>1. pages'[p] = n
    BY DEF PagesInv
<1>2. SpinnerSound(p)'
    BY <1>1, SpinnerStays
<1>3. QED
    BY <1>2, OwnPage

LEMMA OpenSpinner ==
    ASSUME ServiceInv, PagesInv, SpinnerHasOneCause, NEW p \in Page,
           OpenFlow(p) \/ \E t \in Txn : OpenLink(p, t)
    PROVE  SpinnerHasOneCause'
<1>1. CallsLess({}) /\ ~ pages[p].open
    BY CallsSame DEF OpenFlow, OpenLink
<1>2. pages[p] = ClosedPage
    BY <1>1 DEF PagesInv, PageSound
<1>3. ~ ClosedPage.busy
    BY DEF ClosedPage
<1>4. PICK g \in PageState : g = pages[p] /\ ~ g.busy
    BY <1>2, <1>3 DEF PagesInv
<1>5. PICK n : pages' = [pages EXCEPT ![p] = n] /\ n.busy = g.busy
    <2>1. CASE OpenFlow(p)
        <3>1. [g EXCEPT !.open = TRUE].busy = g.busy
            BY DEF PageState
        <3>2. QED
            BY <1>4, <2>1, <3>1 DEF OpenFlow
    <2>2. CASE \E t \in Txn : OpenLink(p, t)
        <3>1. PICK t \in Txn : OpenLink(p, t)
            BY <2>2
        <3>2. [g EXCEPT !.open = TRUE, !.step = 4, !.txn = t, !.linked = TRUE].busy = g.busy
            BY DEF PageState
        <3>3. QED
            BY <1>4, <3>1, <3>2 DEF OpenLink
    <2>3. QED
        BY <2>1, <2>2
<1>6. pages'[p] = n
    BY <1>5 DEF PagesInv
<1>7. Asking(p)' = {}
    <2>1. Asking(p) = {}
        BY <1>1, NoCaller DEF Asking, CallsOf
    <2>2. QED
        BY <1>1, <2>1, AskingLess
<1>8. SpinnerSound(p)'
    BY <1>4, <1>5, <1>6, <1>7, NoSpinner
<1>9. QED
    BY <1>1, <1>5, <1>8, OwnPage

LEMMA LeaveSpinner ==
    ASSUME ServiceInv, PagesInv, SpinnerHasOneCause, NEW p \in Page, Leave(p)
    PROVE  SpinnerHasOneCause'
<1>1. CallsLess(CallsOf(p))
    BY CallsReleased DEF Leave, CallsOf
<1>2. pages' = [pages EXCEPT ![p] = ClosedPage] /\ ~ ClosedPage.busy
    BY DEF Leave, ClosedPage
<1>3. pages'[p] = ClosedPage
    BY <1>2 DEF PagesInv
<1>4. Asking(p)' = {}
    BY <1>1, AskingLess DEF Asking
<1>5. SpinnerSound(p)'
    BY <1>2, <1>3, <1>4, NoSpinner
<1>6. \A q \in Page \ {p} : CallsOf(p) \cap Asking(q) = {}
    BY DEF CallsOf, Asking
<1>7. QED
    BY <1>1, <1>2, <1>5, <1>6, OwnPage

LEMMA SettleSpinner ==
    ASSUME ServiceInv, PagesInv, SpinnerHasOneCause, NEW p \in Page, Settle(p)
    PROVE  SpinnerHasOneCause'
<1>1. ASSUME NEW c \in Trip
      PROVE  IF c \in CallsOf(p) THEN trips'[c].caller = p /\ trips'[c].panel = FALSE
                                 ELSE trips'[c] = trips[c]
    <2>1. CASE c \in CallsOf(p)
        <3>1. PICK x \in TripRecord : x = trips[c]
            BY <2>1, TripTyped DEF CallsOf, ServiceInv
        <3>2. trips'[c] = [x EXCEPT !.panel = FALSE]
            BY <2>1, <3>1 DEF Settle
        <3>3. QED
            BY <2>1, <3>1, <3>2 DEF TripRecord, CallsOf
    <2>2. CASE c \notin CallsOf(p)
        BY <2>2 DEF Settle
    <2>3. QED
        BY <2>1, <2>2
<1>2. Asking(p)' = {}
    BY <1>1 DEF Asking, CallsOf, Under
<1>3. ASSUME NEW q \in Page \ {p}
      PROVE  Asking(q)' = Asking(q)
    BY <1>1 DEF Asking, CallsOf, Under
<1>4. PICK g \in PageState : g = pages[p]
    BY DEF PagesInv
<1> DEFINE linked == g.linked /\ g.step = 4
           n == [g EXCEPT !.shown = g.step, !.prop = g.txn, !.busy = FALSE, !.paid = FALSE,
                          !.stage = "policy_issued", !.polls = {}, !.linked = linked]
<1>5. pages' = [pages EXCEPT ![p] = n] /\ n.busy = FALSE
    <2>1. n.busy = FALSE
        BY DEF PageState
    <2>2. pages' = [pages EXCEPT ![p] = n]
        BY <1>4 DEF Settle
    <2>3. QED
        BY <2>1, <2>2
<1> HIDE DEF n
<1>6. pages'[p] = n /\ \A q \in Page \ {p} : pages'[q] = pages[q]
    BY <1>5 DEF PagesInv
<1>7. SpinnerSound(p)'
    BY <1>2, <1>5, <1>6, NoSpinner
<1>8. \A q \in Page \ {p} : SpinnerSound(q)'
    BY <1>3, <1>6 DEF SpinnerHasOneCause, SpinnerSound
<1>9. QED
    BY <1>7, <1>8 DEF SpinnerHasOneCause

LEMMA GoToSpinner ==
    ASSUME PagesInv, SpinnerHasOneCause, NEW p \in Page, NEW s, GoTo(p, s), ~ pages[p].busy
    PROVE  SpinnerHasOneCause'
<1>1. CallsLess({})
    BY CallsSame DEF GoTo
<1>2. PICK g \in PageState : g = pages[p]
    BY DEF PagesInv
<1>3. [g EXCEPT !.step = s].busy = g.busy
    BY DEF PageState
<1>4. pages' = [pages EXCEPT ![p] = [g EXCEPT !.step = s]]
    BY <1>2 DEF GoTo
<1>5. pages'[p] = [g EXCEPT !.step = s]
    BY <1>4 DEF PagesInv
<1>6. Asking(p)' = {}
    <2>1. Asking(p) = {}
        BY DEF SpinnerHasOneCause, SpinnerSound
    <2>2. QED
        BY <1>1, <2>1, AskingLess
<1>7. SpinnerSound(p)'
    BY <1>2, <1>3, <1>5, <1>6, NoSpinner
<1>8. QED
    BY <1>1, <1>4, <1>7, OwnPage

\* A step asks only when it has no spinner, so the new request is its only one.
LEMMA PostSpinner ==
    ASSUME ServiceInv, PagesInv, SpinnerHasOneCause, NEW p \in Page, NEW op \in Op, NEW t \in Txn,
           Post(p, op, t), ~ pages[p].busy
    PROVE  SpinnerHasOneCause'
<1>1. PICK c \in Trip : Requested(c, op, t, p)
    BY DEF Post, Request, Requested, Free
<1> DEFINE new == [op |-> op, txn |-> t, at |-> "sent", caller |-> p, panel |-> TRUE]
<1>2. /\ trips'[c] = new /\ new.caller = p /\ new.panel /\ ~ Under(c)
      /\ \A d \in Trip \ {c} : trips'[d] = trips[d]
    BY <1>1 DEF Requested, ServiceInv, ServiceTypes
<1>3. new # None
    <2>1. new \in TripRecord
        BY DEF TripRecord
    <2>2. QED
        BY <2>1, TripAssumption
<1> HIDE DEF new
<1>4. Asking(p) = {}
    BY DEF SpinnerHasOneCause, SpinnerSound
<1>5. \A d \in Asking(p)' : d = c
    BY <1>2, <1>4 DEF Asking, CallsOf, Under
<1>6. \A q \in Page \ {p} : Asking(q)' = Asking(q)
    BY <1>2 DEF Asking, CallsOf, Under
<1>7. PICK g \in PageState : g = pages[p]
    BY DEF PagesInv
<1>8. [g EXCEPT !.busy = TRUE].busy = TRUE
    BY DEF PageState
<1>9. pages' = [pages EXCEPT ![p] = [g EXCEPT !.busy = TRUE]]
    BY <1>7 DEF Post
<1>10. pages'[p].busy /\ \A q \in Page \ {p} : pages'[q] = pages[q]
    BY <1>8, <1>9 DEF PagesInv
<1>11. trips'[c] # None
    BY <1>2, <1>3
<1>12. c \in Asking(p)'
    BY <1>2, <1>11 DEF Asking, CallsOf, Under
<1>13. SpinnerSound(p)'
    BY <1>5, <1>10, <1>12 DEF SpinnerSound
<1>14. \A q \in Page \ {p} : SpinnerSound(q)'
    BY <1>6, <1>10 DEF SpinnerHasOneCause, SpinnerSound
<1>15. QED
    BY <1>13, <1>14 DEF SpinnerHasOneCause

LEMMA GiveUpSpinner ==
    ASSUME ServiceInv, PagesInv, SpinnerHasOneCause, NEW c \in Trip, GiveUp(c)
    PROVE  SpinnerHasOneCause'
<1>1. CallsLess({c})
    BY CallsReleased DEF GiveUp
<1>2. PICK p \in Page : p = trips[c].caller
    BY TripTyped DEF GiveUp, ServiceInv, TripRecord
<1>3. PICK g \in PageState : g = pages[p]
    BY DEF PagesInv
<1> DEFINE busy == g.busy /\ \A d \in {c} \cap CallsOf(p) : ~ trips[d].panel
           n == [g EXCEPT !.busy = busy]
<1>4. pages' = [pages EXCEPT ![p] = n]
    BY <1>2, <1>3 DEF GiveUp, Failed
<1>5. busy <=> g.busy /\ c \notin Asking(p)
    BY <1>2 DEF GiveUp, Asking, CallsOf
<1> HIDE DEF busy
<1>6. n.busy = busy /\ n.stray = g.stray /\ n.shown = g.shown /\ n.step = g.step
    BY DEF PageState
<1> HIDE DEF n
<1>7. pages'[p] = n
    BY <1>4 DEF PagesInv
<1>8. CASE c \in Asking(p)
    <2>1. Asking(p) \ {c} = {}
        BY <1>8 DEF SpinnerHasOneCause, SpinnerSound
    <2>2. Asking(p)' = {}
        BY <1>1, <2>1, AskingLess
    <2>3. SpinnerSound(p)'
        BY <1>5, <1>6, <1>7, <1>8, <2>2, NoSpinner
    <2>4. \A q \in Page \ {p} : {c} \cap Asking(q) = {}
        BY <1>2 DEF Asking, CallsOf
    <2>5. QED
        BY <1>1, <1>4, <2>3, <2>4, OwnPage
<1>9. CASE c \notin Asking(p)
    <2>1. busy \in BOOLEAN /\ g.busy \in BOOLEAN
        BY DEF busy, PageState
    <2>2. SameSpinner(pages'[p], pages[p])
        BY <1>3, <1>5, <1>6, <1>7, <1>9, <2>1 DEF SameSpinner
    <2>3. SpinnerSound(p)'
        BY <1>1, <1>9, <2>2, SpinnerStays
    <2>4. \A q \in Page \ {p} : {c} \cap Asking(q) = {}
        BY <1>2 DEF Asking, CallsOf
    <2>5. QED
        BY <1>1, <1>4, <2>3, <2>4, OwnPage
<1>10. QED
    BY <1>8, <1>9

\* An answer leaves the spinner where it is: until the step has left, or, when it
\* is not the step's own, until its own comes.
LEMMA AnsweredBusy ==
    ASSUME PagesInv, NEW p \in Page, NEW S, NEW op, op \in {"select", "init", "confirm"},
           NEW t \in Txn
    PROVE  Answered(p, S, op, t).busy = pages[p].busy
<1>1. PICK g \in PageState : g = pages[p]
    BY DEF PagesInv
<1> DEFINE o == OnNext(g, op, t)
<1>2. CASE op = "select"
    <2>1. o = [g EXCEPT !.quote = t, !.txn = t, !.step = 2]
        BY <1>2 DEF OnNext
    <2>2. QED
        BY <1>1, <2>1 DEF Answered, PageState
<1>3. CASE op = "init"
    <2>1. o = [g EXCEPT !.init = t, !.step = 4]
        BY <1>3 DEF OnNext
    <2>2. QED
        BY <1>1, <2>1 DEF Answered, PageState
<1>4. CASE op = "confirm"
    <2>1. o = [g EXCEPT !.confirm = t, !.step = 5]
        BY <1>4 DEF OnNext
    <2>2. QED
        BY <1>1, <2>1 DEF Answered, PageState
<1>5. QED
    BY <1>2, <1>3, <1>4

LEMMA AnswerSpinner ==
    ASSUME ServiceInv, PagesInv, SpinnerHasOneCause, NEW c \in Trip, Under(c), Answer(c)
    PROVE  SpinnerHasOneCause'
<1>1. PICK S \in SUBSET Waiting(c) :
          /\ OnSelect(c, S) \/ OnInitDone(c, S) \/ OnConfirm(c, S)
          /\ pages' = [p \in Page |->
                 IF S \cap CallsOf(p) = {} THEN pages[p]
                 ELSE IF trips[c].at = "refused" THEN Failed(p, S)
                 ELSE Answered(p, S, trips[c].op, trips[c].txn)]
          /\ doku' = doku
    BY DEF Answer
<1>2. PICK t \in Txn : t = trips[c].txn
    BY TripTyped DEF ServiceInv
<1>3. PICK op \in Op : op = trips[c].op
    BY TripTyped DEF ServiceInv, TripRecord
<1>4. trips[c].at # "refused" /\ op \in {"select", "init", "confirm"}
    BY <1>1, <1>3 DEF ServiceInv, TripSound, OnSelect, OnInitDone, OnConfirm
<1>5. CallsLess(S)
    BY <1>1, AnswerCalls
<1>6. ASSUME NEW p \in Page
      PROVE  SpinnerSound(p)'
    <2>1. CASE S \cap CallsOf(p) = {}
        <3>1. pages'[p] = pages[p] /\ S \cap Asking(p) = {}
            BY <1>1, <2>1 DEF Asking
        <3>2. QED
            BY <1>5, <3>1, SpinnerStays DEF SameSpinner
    <2>2. CASE S \cap CallsOf(p) # {}
        <3>1. PICK n : /\ n = pages'[p]
                       /\ n.busy = pages[p].busy /\ n.shown = pages[p].shown
                       /\ n.stray <=> \/ pages[p].stray \/ S \cap Asking(p) = {}
                                      \/ pages[p].step # pages[p].shown
                       /\ op = "select" => n.step = 2
                       /\ op = "init" => n.step = 4
                       /\ op = "confirm" => n.step = 5
            <4>1. pages'[p] = Answered(p, S, op, t)
                BY <1>1, <1>2, <1>3, <1>4, <2>2
            <4>2. (\E d \in S \cap CallsOf(p) : trips[d].panel) <=> S \cap Asking(p) # {}
                BY DEF Asking
            <4>3. QED
                BY <1>4, <4>1, <4>2, AnsweredPage, AnsweredBusy
        <3>2. Asking(p)' = Asking(p) \ S /\ SpinnerSound(p)
            BY <1>5, AskingLess DEF SpinnerHasOneCause
        <3>3. CASE S \cap Asking(p) = {}
            BY <3>1, <3>2, <3>3 DEF SpinnerSound
        <3>4. CASE S \cap Asking(p) # {}
            <4>1. PICK d \in Trip : d \in S /\ d \in Asking(p)
                BY <3>4 DEF Waiting
            <4>2. /\ Under(d) /\ trips[d].op = op /\ trips[d].caller = p /\ trips[d].panel
                BY <1>3, <4>1 DEF Waiting, Asking, CallsOf
            <4>3. CallSound(d)
                BY DEF PagesInv
            <4>4. /\ op = "select" => pages[p].shown = 1
                  /\ op = "init" => pages[p].shown = 3
                  /\ op = "confirm" => pages[p].shown = 4
                BY <4>2, <4>3 DEF CallSound
            <4>5. n.shown # n.step
                BY <1>4, <3>1, <4>4
            <4>6. Asking(p)' = {}
                BY <3>2, <4>1 DEF SpinnerSound
            <4>7. QED
                BY <3>1, <4>5, <4>6 DEF SpinnerSound
        <3>5. QED
            BY <3>3, <3>4
    <2>3. QED
        BY <2>1, <2>2
<1>7. QED
    BY <1>6 DEF SpinnerHasOneCause

LEMMA PollSpinner ==
    ASSUME PagesInv, SpinnerHasOneCause, NEW p \in Page,
           PollPayment(p) \/ PollStage(p) \/ PollAnswered(p)
    PROVE  SpinnerHasOneCause'
<1>1. PICK g \in PageState : g = pages[p]
    BY DEF PagesInv
<1>2. CallsLess({})
    BY CallsSame DEF PollPayment, PollStage, PollAnswered, Asks
<1>3. CASE \E v : Asks(p, v)
    <2>1. PICK v : pages' = [pages EXCEPT ![p] = [g EXCEPT !.polls = g.polls \cup {v}]]
        BY <1>1, <1>3 DEF Asks
    <2>2. SameSpinner([g EXCEPT !.polls = g.polls \cup {v}], g)
        BY DEF SameSpinner, PageState
    <2>3. QED
        BY <1>1, <1>2, <2>1, <2>2, SameSpinnerStep
<1>4. CASE PollAnswered(p)
    <2>1. PICK v \in g.polls :
              pages' = [pages EXCEPT ![p] =
                  [g EXCEPT !.polls = g.polls \ {v}, !.paid = v = "paid",
                            !.stage = IF v \in Stages THEN v ELSE g.stage]]
        BY <1>1, <1>4 DEF PollAnswered
    <2> DEFINE polls == g.polls \ {v}
               paid == v = "paid"
               stage == IF v \in Stages THEN v ELSE g.stage
               n == [g EXCEPT !.polls = polls, !.paid = paid, !.stage = stage]
    <2>2. pages' = [pages EXCEPT ![p] = n]
        BY <2>1
    <2> HIDE DEF polls, paid, stage
    <2>3. SameSpinner(n, g)
        BY DEF SameSpinner, PageState
    <2> HIDE DEF n
    <2>4. QED
        BY <1>1, <1>2, <2>2, <2>3, SameSpinnerStep
<1>5. QED
    BY <1>3, <1>4 DEF PollPayment, PollStage

LEMMA SpinnerStep ==
    ASSUME IInv, SpinnerHasOneCause, [Next]_vars
    PROVE  SpinnerHasOneCause'
<1> USE DEF IInv
<1>1. ASSUME CallsLess({}), UNCHANGED pages
      PROVE  SpinnerHasOneCause'
    BY <1>1, SpinnerStays DEF SpinnerHasOneCause, SameSpinner
<1>2. CASE UNCHANGED vars
    BY <1>1, <1>2, CallsSame DEF vars
<1>3. ASSUME NEW c \in Trip, Backend(c) \/ (Under(c) /\ Answer(c)) \/ GiveUp(c)
      PROVE  SpinnerHasOneCause'
    <2>1. CASE Backend(c)
        BY <1>1, <2>1, BackendCalls DEF Backend
    <2>2. QED
        BY <1>3, <2>1, AnswerSpinner, GiveUpSpinner
<1>4. ASSUME NEW t \in Txn, Notified(t)
      PROVE  SpinnerHasOneCause'
    BY <1>1, <1>4, CallsSame DEF Notified, PaymentReceived
<1>5. ASSUME NEW p \in Page, VehicleDetailsStep(p) \/ KYCStep(p) \/ PaymentStep(p)
      PROVE  SpinnerHasOneCause'
    <2>1. ~ pages[p].busy
        BY <1>5 DEF VehicleDetailsStep, KYCStep, PaymentStep, Shows
    <2>2. CASE \E s \in 1..5 : GoTo(p, s)
        BY <2>1, <2>2, GoToSpinner
    <2>3. CASE \E op \in Op, t \in Txn : Post(p, op, t)
        BY <2>1, <2>3, PostSpinner
    <2>4. pages[p].shown > 1 => pages[p].prop \in Txn
        <3>1. PICK g \in PageState : g = pages[p]
            BY DEF PagesInv
        <3>2. PageSound(p)
            BY DEF PagesInv
        <3>3. QED
            BY <3>1, <3>2 DEF PageSound, PageState
    <2>5. QED
        BY <1>5, <2>2, <2>3, <2>4 DEF VehicleDetailsStep, KYCStep, PaymentStep, Shows, Op
<1>6. ASSUME NEW p \in Page, QuoteStep(p)
      PROVE  SpinnerHasOneCause'
    BY <1>6, GoToSpinner DEF QuoteStep, Shows
<1>7. ASSUME NEW p \in Page, Pay(p)
      PROVE  SpinnerHasOneCause'
    BY <1>1, <1>7, CallsSame DEF Pay
<1>8. ASSUME NEW p \in Page,
             \/ OpenFlow(p) \/ (\E t \in Txn : OpenLink(p, t)) \/ Leave(p) \/ Settle(p)
             \/ PollPayment(p) \/ PollStage(p) \/ PollAnswered(p)
      PROVE  SpinnerHasOneCause'
    BY <1>8, OpenSpinner, LeaveSpinner, SettleSpinner, PollSpinner
<1>9. QED
    BY <1>2, <1>3, <1>4, <1>5, <1>6, <1>7, <1>8 DEF Next

\* A spinner on a page that has not strayed has exactly one cause: the one request
\* of the step shown, whose wait ends, or the animation of a step about to leave.
\* No step asks twice, however answers, polls and tabs interleave.
THEOREM SpinnerHasCause == Spec => []SpinnerHasOneCause
<1>1. Init => SpinnerHasOneCause
    <2>1. SUFFICES ASSUME Init, NEW p \in Page
          PROVE  SpinnerSound(p)
        BY DEF SpinnerHasOneCause
    <2>2. Asking(p) = {} /\ ~ pages[p].busy
        BY <2>1 DEF Init, ServiceInit, Asking, CallsOf, Under, ClosedPage
    <2>3. QED
        BY <2>2 DEF SpinnerSound
<1>2. IInv /\ SpinnerHasOneCause /\ [Next]_vars => SpinnerHasOneCause'
    BY SpinnerStep
<1>3. QED
    BY <1>1, <1>2, Invariance, PTL DEF Spec

--------------------------------------------------------------------------------
(* The safety core of PageCatchesUp *)

\* PolicyIssuedStep: while the status is SETTLED, the answers under way that say
\* otherwise only get fewer, and what the step shows changes only to what one of
\* the answers under way says.
OldAnswersRunOut ==
    [][\A p \in Page :
          /\ pages[p].open /\ pages[p].shown = 5 /\ row[pages[p].prop].status = "SETTLED"
          /\ pages'[p].open /\ pages'[p].shown = 5
          => /\ pages'[p].polls \subseteq pages[p].polls \cup {"settled"}
             /\ pages'[p].stage \in pages[p].polls \cup {pages[p].stage}]_vars

\* What a page shows of the status, and what is on its way to it.
SameView(n, g) == n.polls = g.polls /\ n.stage = g.stage

\* An answer to a request is not one to a poll.
LEMMA AnsweredView ==
    ASSUME PagesInv, NEW p \in Page, NEW S, NEW op, op \in {"select", "init", "confirm"},
           NEW t \in Txn
    PROVE  SameView(Answered(p, S, op, t), pages[p])
<1>1. PICK g \in PageState : g = pages[p]
    BY DEF PagesInv
<1> DEFINE o == OnNext(g, op, t)
<1>2. CASE op = "select"
    <2>1. o = [g EXCEPT !.quote = t, !.txn = t, !.step = 2]
        BY <1>2 DEF OnNext
    <2>2. QED
        BY <1>1, <2>1 DEF Answered, PageState, SameView
<1>3. CASE op = "init"
    <2>1. o = [g EXCEPT !.init = t, !.step = 4]
        BY <1>3 DEF OnNext
    <2>2. QED
        BY <1>1, <2>1 DEF Answered, PageState, SameView
<1>4. CASE op = "confirm"
    <2>1. o = [g EXCEPT !.confirm = t, !.step = 5]
        BY <1>4 DEF OnNext
    <2>2. QED
        BY <1>1, <2>1 DEF Answered, PageState, SameView
<1>5. QED
    BY <1>2, <1>3, <1>4

LEMMA FailedView ==
    ASSUME PagesInv, NEW p \in Page, NEW S
    PROVE  SameView(Failed(p, S), pages[p])
<1>1. PICK g \in PageState : g = pages[p]
    BY DEF PagesInv
<1> DEFINE busy == g.busy /\ \A c \in S \cap CallsOf(p) : ~ trips[c].panel
<1>2. Failed(p, S) = [g EXCEPT !.busy = busy]
    BY <1>1 DEF Failed
<1> HIDE DEF busy
<1>3. QED
    BY <1>1, <1>2 DEF SameView, PageState

\* The answers to a page's requests, and its giving up, leave its view alone.
LEMMA CallsView ==
    ASSUME ServiceInv, PagesInv, NEW c \in Trip, (Under(c) /\ Answer(c)) \/ GiveUp(c), NEW p \in Page
    PROVE  SameView(pages'[p], pages[p])
<1>1. CASE Under(c) /\ Answer(c)
    <2>1. PICK S \in SUBSET Waiting(c) :
              /\ OnSelect(c, S) \/ OnInitDone(c, S) \/ OnConfirm(c, S)
              /\ pages' = [q \in Page |->
                     IF S \cap CallsOf(q) = {} THEN pages[q]
                     ELSE IF trips[c].at = "refused" THEN Failed(q, S)
                     ELSE Answered(q, S, trips[c].op, trips[c].txn)]
        BY <1>1 DEF Answer
    <2>2. PICK t \in Txn : t = trips[c].txn
        BY <1>1, TripTyped DEF ServiceInv
    <2>3. PICK op \in Op : op = trips[c].op
        BY <1>1, TripTyped DEF ServiceInv, TripRecord
    <2>4. op \in {"select", "init", "confirm"}
        BY <1>1, <2>1, <2>3 DEF ServiceInv, TripSound, OnSelect, OnInitDone, OnConfirm
    <2>5. \/ pages'[p] = pages[p] \/ pages'[p] = Failed(p, S)
          \/ pages'[p] = Answered(p, S, op, t)
        BY <2>1, <2>2, <2>3
    <2>6. QED
        BY <2>4, <2>5, AnsweredView, FailedView DEF SameView
<1>2. CASE GiveUp(c)
    <2>1. pages' = [pages EXCEPT ![trips[c].caller] = Failed(trips[c].caller, {c})]
        BY <1>2 DEF GiveUp
    <2>2. pages'[p] = pages[p] \/ pages'[p] = Failed(p, {c})
        BY <2>1 DEF PagesInv
    <2>3. QED
        BY <2>2, FailedView DEF SameView
<1>3. QED
    BY <1>1, <1>2

\* The polls of the policy step: the status says SETTLED, so what is asked now is
\* answered so.
LEMMA PollsView ==
    ASSUME PagesInv, NEW p \in Page, PollStage(p) \/ PollAnswered(p),
           row[pages[p].prop].status = "SETTLED"
    PROVE  /\ pages'[p].polls \subseteq pages[p].polls \cup {"settled"}
           /\ pages'[p].stage \in pages[p].polls \cup {pages[p].stage}
<1>1. PICK g \in PageState : g = pages[p]
    BY DEF PagesInv
<1>2. CASE PollStage(p)
    <2>1. StageOf(g.prop) = "settled"
        BY <1>1 DEF StageOf
    <2>2. pages' = [pages EXCEPT ![p] = [g EXCEPT !.polls = g.polls \cup {"settled"}]]
        BY <1>1, <1>2, <2>1 DEF PollStage, Asks
    <2>3. pages'[p] = [g EXCEPT !.polls = g.polls \cup {"settled"}]
        BY <2>2 DEF PagesInv
    <2>4. pages'[p].polls = g.polls \cup {"settled"} /\ pages'[p].stage = g.stage
        BY <2>3 DEF PageState
    <2>5. QED
        BY <1>1, <2>4
<1>3. CASE PollAnswered(p)
    <2>1. PICK v \in g.polls :
              pages' = [pages EXCEPT ![p] =
                  [g EXCEPT !.polls = g.polls \ {v}, !.paid = v = "paid",
                            !.stage = IF v \in Stages THEN v ELSE g.stage]]
        BY <1>1, <1>3 DEF PollAnswered
    <2> DEFINE polls == g.polls \ {v}
               paid == v = "paid"
               stage == IF v \in Stages THEN v ELSE g.stage
               n == [g EXCEPT !.polls = polls, !.paid = paid, !.stage = stage]
    <2>2. pages' = [pages EXCEPT ![p] = n]
        BY <2>1
    <2>3. polls \subseteq g.polls /\ stage \in g.polls \cup {g.stage}
        OBVIOUS
    <2> HIDE DEF polls, paid, stage
    <2>4. n.polls = polls /\ n.stage = stage
        BY DEF PageState
    <2> HIDE DEF n
    <2>5. pages'[p] = n
        BY <2>2 DEF PagesInv
    <2>6. QED
        BY <1>1, <2>3, <2>4, <2>5
<1>4. QED
    BY <1>2, <1>3

LEMMA ViewStep ==
    ASSUME IInv, [Next]_vars, NEW p \in Page,
           pages[p].open, pages[p].shown = 5, row[pages[p].prop].status = "SETTLED",
           pages'[p].open, pages'[p].shown = 5
    PROVE  /\ pages'[p].polls \subseteq pages[p].polls \cup {"settled"}
           /\ pages'[p].stage \in pages[p].polls \cup {pages[p].stage}
<1> USE DEF IInv
<1>1. CASE SameView(pages'[p], pages[p])
    BY <1>1 DEF SameView
<1>2. CASE UNCHANGED pages
    BY <1>1, <1>2 DEF SameView
<1>3. ASSUME NEW c \in Trip, Backend(c) \/ (Under(c) /\ Answer(c)) \/ GiveUp(c)
      PROVE  SameView(pages'[p], pages[p])
    BY <1>3, CallsView DEF Backend, SameView
<1>4. ASSUME NEW q \in Page, NEW n, pages' = [pages EXCEPT ![q] = n], q # p
      PROVE  SameView(pages'[p], pages[p])
    <2>1. pages'[p] = pages[p]
        BY <1>4
    <2>2. QED
        BY <2>1 DEF SameView
\* The form steps and the poll of the payment are of other pages.
<1>5. ASSUME NEW q \in Page,
             \/ OpenFlow(q) \/ (\E t \in Txn : OpenLink(q, t))
             \/ VehicleDetailsStep(q) \/ QuoteStep(q) \/ KYCStep(q) \/ PaymentStep(q)
             \/ PollPayment(q)
      PROVE  SameView(pages'[p], pages[p])
    <2>1. q # p
        <3>1. ~ pages[q].open \/ pages[q].shown \in {1, 2, 3, 4}
            BY <1>5, Zenon DEF OpenFlow, OpenLink, VehicleDetailsStep, QuoteStep, KYCStep,
                        PaymentStep, Shows, PollPayment
        <3>2. QED
            BY <3>1
    <2>2. \E n : pages' = [pages EXCEPT ![q] = n]
        BY <1>5 DEF OpenFlow, OpenLink, VehicleDetailsStep, QuoteStep, KYCStep, PaymentStep,
                    Post, GoTo, PollPayment, Asks
    <2>3. QED
        BY <1>4, <2>1, <2>2
\* A page that is left is closed, and a new step is another step.
<1>6. ASSUME NEW q \in Page, Leave(q) \/ Settle(q)
      PROVE  SameView(pages'[p], pages[p])
    <2>1. \E n : pages' = [pages EXCEPT ![q] = n]
        BY <1>6 DEF Leave, Settle
    <2>2. CASE Leave(p)
        <3>1. pages'[p] = ClosedPage
            BY <2>2 DEF Leave, PagesInv
        <3>2. QED
            BY <3>1 DEF ClosedPage
    <2>3. CASE Settle(p)
        <3>1. PICK g \in PageState : g = pages[p]
            BY DEF PagesInv
        <3> DEFINE linked == g.linked /\ g.step = 4
                   n == [g EXCEPT !.shown = g.step, !.prop = g.txn, !.busy = FALSE,
                                  !.paid = FALSE, !.stage = "policy_issued", !.polls = {},
                                  !.linked = linked]
        <3>2. pages' = [pages EXCEPT ![p] = n] /\ g.step # 5
            BY <2>3, <3>1 DEF Settle
        <3> HIDE DEF linked
        <3>3. n.shown = g.step
            BY DEF PageState
        <3> HIDE DEF n
        <3>4. pages'[p] = n
            BY <3>2 DEF PagesInv
        <3>5. QED
            BY <3>2, <3>3, <3>4
    <2>4. QED
        BY <1>4, <1>6, <2>1, <2>2, <2>3
<1>7. ASSUME NEW q \in Page, PollStage(q) \/ PollAnswered(q)
      PROVE  /\ pages'[p].polls \subseteq pages[p].polls \cup {"settled"}
             /\ pages'[p].stage \in pages[p].polls \cup {pages[p].stage}
    <2>1. \E n : pages' = [pages EXCEPT ![q] = n]
        BY <1>7 DEF PollStage, PollAnswered, Asks
    <2>2. QED
        BY <1>1, <1>4, <1>7, <2>1, PollsView
<1>8. ASSUME NEW q \in Page, Pay(q)
      PROVE  UNCHANGED pages
    BY <1>8 DEF Pay
<1>9. QED
    BY <1>1, <1>2, <1>3, <1>5, <1>6, <1>7, <1>8 DEF Next, vars, Notified

\* While the status is SETTLED no answer that is older can be added to those under
\* way, and the step shows only what one of them says: with the fairness of the
\* polls it ends by showing that the policy is settled.
THEOREM OldAnswersEnd == Spec => OldAnswersRunOut
<1>1. IInv /\ [Next]_vars =>
          \A p \in Page :
              /\ pages[p].open /\ pages[p].shown = 5 /\ row[pages[p].prop].status = "SETTLED"
              /\ pages'[p].open /\ pages'[p].shown = 5
              => /\ pages'[p].polls \subseteq pages[p].polls \cup {"settled"}
                 /\ pages'[p].stage \in pages[p].polls \cup {pages[p].stage}
    BY ViewStep
<1>2. QED
    BY <1>1, Invariance, PTL DEF Spec, OldAnswersRunOut

--------------------------------------------------------------------------------
(* Refinement of CoverContract *)

\* The requests of op on their way to the insurer, as calls of the contract.
OnTheWay(op) ==
    {r \in Trip \X Txn :
        Under(r[1]) /\ trips[r[1]].op = op /\ trips[r[1]].at = "sent" /\ trips[r[1]].txn = r[2]}

\* The insurer of TransactionService, which answers a request in one step, gives
\* and takes money and cover as the contract says.
COVER == INSTANCE CoverContract WITH
    Call <- Trip,
    known <- {t \in Txn : pol[t].known},
    held <- {t \in Txn : pol[t].paid},
    covered <- {t \in Txn : pol[t].issued},
    inForce <- {t \in Txn : pol[t].active},
    inits <- OnTheWay("init"),
    confirms <- OnTheWay("confirm")

ImplementsCover == COVER!Spec

Inits == OnTheWay("init")
Confirms == OnTheWay("confirm")

\* Trip d is an init or a confirm on its way, for transaction t.
OnItsWay(d, op, t) == Under(d) /\ trips[d].op = op /\ trips[d].at = "sent" /\ trips[d].txn = t

\* No request for the insurer comes up in slot d.
NothingNew(d) ==
    trips'[d] # None /\ trips'[d].at = "sent" /\ trips'[d].op \in {"init", "confirm"} =>
        /\ Under(d)
        /\ trips'[d].op = trips[d].op /\ trips'[d].txn = trips[d].txn
        /\ trips'[d].at = trips[d].at

\* One policy is written, as p.
LEMMA OnePolicy ==
    ASSUME ServiceInv, NEW t \in Txn, NEW p, pol' = [pol EXCEPT ![t] = p]
    PROVE  pol'[t] = p /\ \A u \in Txn \ {t} : pol'[u] = pol[u]
BY DEF ServiceInv, ServiceTypes

\* The pairs of the abstract view, by their parts.
LEMMA OnTheWayPairs ==
    /\ \A r : r \in Inits => \E d \in Trip, t \in Txn : r = <<d, t>>
    /\ \A r : r \in Confirms => \E d \in Trip, t \in Txn : r = <<d, t>>
    /\ \A d \in Trip, t \in Txn : <<d, t>> \in Inits <=> OnItsWay(d, "init", t)
    /\ \A d \in Trip, t \in Txn : <<d, t>> \in Confirms <=> OnItsWay(d, "confirm", t)
BY DEF Inits, Confirms, OnTheWay, OnItsWay

\* The same after the step.
LEMMA OnTheWayPairsNext ==
    /\ \A r : r \in Inits' => \E d \in Trip, t \in Txn : r = <<d, t>>
    /\ \A r : r \in Confirms' => \E d \in Trip, t \in Txn : r = <<d, t>>
    /\ \A d \in Trip, t \in Txn : <<d, t>> \in Inits' <=> OnItsWay(d, "init", t)'
    /\ \A d \in Trip, t \in Txn : <<d, t>> \in Confirms' <=> OnItsWay(d, "confirm", t)'
BY DEF Inits, Confirms, OnTheWay, OnItsWay

LEMMA PairsEqual ==
    \A c, d \in Trip, t, u \in Txn : <<c, t>> = <<d, u>> <=> c = d /\ t = u
OBVIOUS

\* A step that brings no request and touches no policy is a stutter of the
\* contract, or requests come to nothing.
LEMMA QuietStep ==
    ASSUME UNCHANGED pol, \A d \in Trip : NothingNew(d)
    PROVE  [COVER!Next]_(COVER!vars)
<1>1. ASSUME NEW d \in Trip, NEW t \in Txn, NEW op \in {"init", "confirm"}, OnItsWay(d, op, t)'
      PROVE  OnItsWay(d, op, t)
    BY <1>1 DEF OnItsWay, NothingNew, Under
<1>2. Inits' \in SUBSET Inits /\ Confirms' \in SUBSET Confirms
    BY <1>1, OnTheWayPairs, OnTheWayPairsNext
<1>3. COVER!Fail
    BY <1>2 DEF COVER!Fail, Inits, Confirms
<1>4. QED
    BY <1>3 DEF COVER!Next

\* The insurer's answer takes the request of c from those on their way, and no
\* other.
LEMMA AnswerTakesRequest ==
    ASSUME ServiceInv, NEW c \in Trip, InsurerAnswers(c), NEW t \in Txn, t = trips[c].txn
    PROVE  /\ trips[c].op = "init" =>
                  <<c, t>> \in Inits /\ Inits' = Inits \ {<<c, t>>} /\ Confirms' = Confirms
           /\ trips[c].op = "confirm" =>
                  <<c, t>> \in Confirms /\ Confirms' = Confirms \ {<<c, t>>} /\ Inits' = Inits
           /\ \A d \in Trip : NothingNew(d)
<1>1. PICK x \in TripRecord : x = trips[c]
    BY TripTyped DEF InsurerAnswers, ServiceInv
<1>2. PICK at \in {"refused", "back"} : trips' = [trips EXCEPT ![c].at = at]
    BY DEF InsurerAnswers
<1>3. /\ trips'[c] = [x EXCEPT !.at = at]
      /\ \A d \in Trip \ {c} : trips'[d] = trips[d]
    BY <1>1, <1>2 DEF ServiceInv, ServiceTypes
<1>4. trips'[c].op = x.op /\ trips'[c].txn = x.txn /\ trips'[c].at = at
    BY <1>1, <1>3 DEF TripRecord
<1>5. OnItsWay(c, x.op, t)
    BY <1>1 DEF InsurerAnswers, OnItsWay
<1>6. ASSUME NEW d \in Trip, NEW u \in Txn, NEW op \in {"init", "confirm"}
      PROVE  OnItsWay(d, op, u)' <=> OnItsWay(d, op, u) /\ d # c
    BY <1>3, <1>4 DEF OnItsWay, Under
<1>7. ASSUME NEW op \in {"init", "confirm"}, NEW u \in Txn, OnItsWay(c, op, u)
      PROVE  op = x.op /\ u = t
    BY <1>1, <1>7 DEF OnItsWay
<1>8. \A d \in Trip : NothingNew(d)
    BY <1>3, <1>4 DEF NothingNew, Under
<1>9. ASSUME x.op = "init"
      PROVE  <<c, t>> \in Inits /\ Inits' = Inits \ {<<c, t>>} /\ Confirms' = Confirms
    <2>1. ~ OnItsWay(c, "confirm", t) /\ \A u \in Txn : ~ OnItsWay(c, "confirm", u)
        BY <1>7, <1>9
    <2>2. <<c, t>> \in Inits
        BY <1>5, <1>9, OnTheWayPairs
    <2>3. \A d \in Trip, u \in Txn : <<d, u>> \in Inits' <=> <<d, u>> \in Inits \ {<<c, t>>}
        BY <1>6, <1>7, OnTheWayPairs, OnTheWayPairsNext, PairsEqual
    <2>4. \A d \in Trip, u \in Txn : <<d, u>> \in Confirms' <=> <<d, u>> \in Confirms
        BY <1>6, <2>1, OnTheWayPairs, OnTheWayPairsNext
    <2>5. QED
        BY <2>2, <2>3, <2>4, OnTheWayPairs, OnTheWayPairsNext
<1>10. ASSUME x.op = "confirm"
       PROVE  <<c, t>> \in Confirms /\ Confirms' = Confirms \ {<<c, t>>} /\ Inits' = Inits
    <2>1. \A u \in Txn : ~ OnItsWay(c, "init", u)
        BY <1>7, <1>10
    <2>2. <<c, t>> \in Confirms
        BY <1>5, <1>10, OnTheWayPairs
    <2>3. \A d \in Trip, u \in Txn :
              <<d, u>> \in Confirms' <=> <<d, u>> \in Confirms \ {<<c, t>>}
        BY <1>6, <1>7, OnTheWayPairs, OnTheWayPairsNext, PairsEqual
    <2>4. \A d \in Trip, u \in Txn : <<d, u>> \in Inits' <=> <<d, u>> \in Inits
        BY <1>6, <2>1, OnTheWayPairs, OnTheWayPairsNext
    <2>5. QED
        BY <2>2, <2>3, <2>4, OnTheWayPairs, OnTheWayPairsNext
<1>11. QED
    BY <1>1, <1>8, <1>9, <1>10

\* The insurer's answer to an init is Request of the contract, that to a confirm
\* is Issue: it was sent for a transaction that had paid.
LEMMA AnswerIsOfContract ==
    ASSUME ServiceInv, NEW c \in Trip, InsurerAnswers(c)
    PROVE  [COVER!Next]_(COVER!vars)
<1>1. PICK x \in TripRecord : x = trips[c]
    BY TripTyped DEF InsurerAnswers, ServiceInv
<1>2. PICK t \in Txn : t = x.txn
    BY DEF TripRecord
<1>3. x.op = "confirm" => pol[t].paid
    BY <1>1, <1>2 DEF InsurerAnswers, ServiceInv, TripSound
<1>4. PICK q \in Policy : q = pol[t]
    BY DEF ServiceInv, ServiceTypes
<1> DEFINE known == q.known \/ x.op = "init"
           active == (q.active /\ x.op # "init") \/ x.op = "confirm"
           issued == q.issued \/ x.op = "confirm"
           p == [q EXCEPT !.known = known, !.active = active, !.issued = issued]
<1>5. /\ p.known = known /\ p.paid = q.paid /\ p.active = active /\ p.issued = issued
    BY DEF Policy
<1>6. pol' = [pol EXCEPT ![t] = p]
    BY <1>1, <1>2, <1>3, <1>4 DEF InsurerAnswers
<1> HIDE DEF p
<1>7. pol'[t] = p /\ \A u \in Txn \ {t} : pol'[u] = pol[u]
    BY <1>6, OnePolicy
<1>8. CASE x.op = "init"
    <2>1. <<c, t>> \in Inits /\ Inits' = Inits \ {<<c, t>>} /\ Confirms' = Confirms
        BY <1>1, <1>2, <1>8, AnswerTakesRequest
    <2>2. COVER!Request(c, t)
        BY <1>4, <1>5, <1>7, <1>8, <2>1 DEF COVER!Request, Inits, Confirms
    <2>3. QED
        BY <2>2 DEF COVER!Next
<1>9. CASE x.op = "confirm"
    <2>1. <<c, t>> \in Confirms /\ Confirms' = Confirms \ {<<c, t>>} /\ Inits' = Inits
        BY <1>1, <1>2, <1>9, AnswerTakesRequest
    <2>2. COVER!Issue(c, t)
        BY <1>3, <1>4, <1>5, <1>7, <1>9, <2>1 DEF COVER!Issue, Inits, Confirms
    <2>3. QED
        BY <2>2 DEF COVER!Next
<1>10. CASE x.op \notin {"init", "confirm"}
    <2>1. p = q
        BY <1>10 DEF Policy, p
    <2>2. pol' = pol
        BY <1>2, <1>4, <1>6, <2>1 DEF ServiceInv, ServiceTypes
    <2>3. QED
        BY <1>1, <1>2, <2>2, AnswerTakesRequest, QuietStep
<1>11. QED
    BY <1>8, <1>9, <1>10

\* A recorded payment is Hold of the contract.
LEMMA PaymentIsOfContract ==
    ASSUME ServiceInv, NEW t \in Txn, PaymentReceived(t)
    PROVE  [COVER!Next]_(COVER!vars)
<1>1. PICK q \in Policy : q = pol[t]
    BY DEF ServiceInv, ServiceTypes
<1> DEFINE p == [q EXCEPT !.paid = TRUE]
<1>2. p.known = q.known /\ p.paid = TRUE /\ p.active = q.active /\ p.issued = q.issued
    BY DEF Policy
<1>3. pol' = [pol EXCEPT ![t] = p]
    BY <1>1 DEF PaymentReceived
<1> HIDE DEF p
<1>4. pol'[t] = p /\ \A u \in Txn \ {t} : pol'[u] = pol[u]
    BY <1>3, OnePolicy
<1>5. UNCHANGED trips
    BY DEF PaymentReceived
<1>6. COVER!Hold(t)
    BY <1>1, <1>2, <1>4, <1>5 DEF COVER!Hold, PaymentReceived, OnTheWay, Under
<1>7. QED
    BY <1>6 DEF COVER!Next

\* A request of a step is Come of the contract, in a free slot.
LEMMA RequestIsOfContract ==
    ASSUME ServiceInv, NEW op \in Op, NEW t \in Txn, NEW q \in Page, Request(op, t, q)
    PROVE  [COVER!Next]_(COVER!vars)
<1> DEFINE x == [op |-> op, txn |-> t, at |-> "sent", caller |-> q, panel |-> TRUE]
<1>1. PICK c \in Trip : Free(c) /\ trips' = [trips EXCEPT ![c] = x]
    BY DEF Request
<1>2. x.op = op /\ x.txn = t /\ x.at = "sent" /\ x \in TripRecord
    BY DEF TripRecord
<1> HIDE DEF x
<1>3. /\ trips'[c] = x /\ ~ Under(c)
      /\ \A d \in Trip \ {c} : trips'[d] = trips[d]
    BY <1>1 DEF ServiceInv, ServiceTypes, Free
<1>4. UNCHANGED pol
    BY DEF Request
<1>5. CASE op \notin {"init", "confirm"}
    <2>1. \A d \in Trip : NothingNew(d)
        BY <1>2, <1>3, <1>5 DEF NothingNew, Under
    <2>2. QED
        BY <1>4, <2>1, QuietStep
<1>6. CASE op \in {"init", "confirm"}
    <2>1. trips'[c] # None => OnItsWay(c, op, t)'
        BY <1>2, <1>3 DEF OnItsWay, Under
    <2>2. ASSUME NEW d \in Trip, NEW u \in Txn, NEW o \in {"init", "confirm"}
          PROVE  OnItsWay(d, o, u)' => OnItsWay(d, o, u) \/ (d = c /\ o = op /\ u = t)
        BY <1>2, <1>3 DEF OnItsWay, Under
    <2>3. ASSUME NEW d \in Trip, NEW u \in Txn, NEW o \in {"init", "confirm"}
          PROVE  OnItsWay(d, o, u) => OnItsWay(d, o, u)' /\ d # c
        BY <1>3 DEF OnItsWay, Under
    <2>4. trips'[c] # None
        BY <1>2, <1>3, TripAssumption
    <2>5. \A u \in Txn : <<c, u>> \notin Inits \cup Confirms
        BY <1>3, OnTheWayPairs DEF OnItsWay
    <2>6. CASE op = "init"
        <3>1. \A d \in Trip, u \in Txn :
                  /\ <<d, u>> \in Inits' <=> <<d, u>> \in Inits \cup {<<c, t>>}
                  /\ <<d, u>> \in Confirms' <=> <<d, u>> \in Confirms
            BY <2>1, <2>2, <2>3, <2>4, <2>6, OnTheWayPairs, OnTheWayPairsNext, PairsEqual
        <3>2. Inits' = Inits \cup {<<c, t>>} /\ Confirms' = Confirms
            <4>1. Inits' = Inits \cup {<<c, t>>}
                <5>1. <<c, t>> \in Inits'
                    BY <3>1
                <5>2. ASSUME NEW r, r \in Inits'
                      PROVE  r \in Inits \cup {<<c, t>>}
                    <6>1. PICK d \in Trip, u \in Txn : r = <<d, u>>
                        BY <5>2, OnTheWayPairsNext
                    <6>2. QED
                        BY <3>1, <5>2, <6>1
                <5>3. ASSUME NEW r, r \in Inits
                      PROVE  r \in Inits'
                    <6>1. PICK d \in Trip, u \in Txn : r = <<d, u>>
                        BY <5>3, OnTheWayPairs
                    <6>2. QED
                        BY <3>1, <5>3, <6>1
                <5>4. QED
                    BY <5>1, <5>2, <5>3
            <4>2. Confirms' = Confirms
                <5>1. \A d \in Trip, u \in Txn : <<d, u>> \in Confirms' <=> <<d, u>> \in Confirms
                    BY <3>1
                <5>2. ASSUME NEW r
                      PROVE  r \in Confirms' <=> r \in Confirms
                    <6>1. r \in Confirms' \/ r \in Confirms =>
                              \E d \in Trip, u \in Txn : r = <<d, u>>
                        BY OnTheWayPairs, OnTheWayPairsNext
                    <6>2. QED
                        BY <5>1, <6>1
                <5>3. QED
                    BY <5>2
            <4>3. QED
                BY <4>1, <4>2
        <3>3. COVER!Come(c, t)
            BY <1>4, <2>5, <3>2 DEF COVER!Come, Inits, Confirms
        <3>4. QED
            BY <3>3 DEF COVER!Next
    <2>7. CASE op = "confirm"
        <3>1. \A d \in Trip, u \in Txn :
                  /\ <<d, u>> \in Confirms' <=> <<d, u>> \in Confirms \cup {<<c, t>>}
                  /\ <<d, u>> \in Inits' <=> <<d, u>> \in Inits
            BY <2>1, <2>2, <2>3, <2>4, <2>7, OnTheWayPairs, OnTheWayPairsNext, PairsEqual
        <3>2. Confirms' = Confirms \cup {<<c, t>>} /\ Inits' = Inits
            <4>1. Confirms' = Confirms \cup {<<c, t>>}
                <5>1. <<c, t>> \in Confirms'
                    BY <3>1
                <5>2. ASSUME NEW r, r \in Confirms'
                      PROVE  r \in Confirms \cup {<<c, t>>}
                    <6>1. PICK d \in Trip, u \in Txn : r = <<d, u>>
                        BY <5>2, OnTheWayPairsNext
                    <6>2. QED
                        BY <3>1, <5>2, <6>1
                <5>3. ASSUME NEW r, r \in Confirms
                      PROVE  r \in Confirms'
                    <6>1. PICK d \in Trip, u \in Txn : r = <<d, u>>
                        BY <5>3, OnTheWayPairs
                    <6>2. QED
                        BY <3>1, <5>3, <6>1
                <5>4. QED
                    BY <5>1, <5>2, <5>3
            <4>2. Inits' = Inits
                <5>1. \A d \in Trip, u \in Txn : <<d, u>> \in Inits' <=> <<d, u>> \in Inits
                    BY <3>1
                <5>2. ASSUME NEW r
                      PROVE  r \in Inits' <=> r \in Inits
                    <6>1. r \in Inits' \/ r \in Inits =>
                              \E d \in Trip, u \in Txn : r = <<d, u>>
                        BY OnTheWayPairs, OnTheWayPairsNext
                    <6>2. QED
                        BY <5>1, <6>1
                <5>3. QED
                    BY <5>2
            <4>3. QED
                BY <4>1, <4>2
        <3>3. COVER!Come(c, t)
            BY <1>4, <2>5, <3>2 DEF COVER!Come, Inits, Confirms
        <3>4. QED
            BY <3>3 DEF COVER!Next
    <2>8. QED
        BY <1>6, <2>6, <2>7
<1>7. QED
    BY <1>5, <1>6

\* The other steps of the backend bring the insurer no init and no confirm.
LEMMA BackendBringsNothing ==
    ASSUME ServiceInv, NEW c \in Trip,
           \/ SendReconcile(c) \/ Lose(c) \/ OnInit(c) \/ OnReconcile(c)
    PROVE  UNCHANGED pol /\ \A d \in Trip : NothingNew(d)
<1>1. PICK x \in TripRecord : x = trips[c]
    BY TripTyped DEF SendReconcile, Lose, OnInit, OnReconcile, ServiceInv
<1>2. UNCHANGED pol
    BY DEF SendReconcile, Lose, OnInit, OnReconcile
<1>3. \A y : trips' = [trips EXCEPT ![c] = y] =>
             trips'[c] = y /\ \A d \in Trip \ {c} : trips'[d] = trips[d]
    BY DEF ServiceInv, ServiceTypes
<1>4. \A at : [x EXCEPT !.at = at].op = x.op /\ [x EXCEPT !.at = at].at = at
    BY DEF TripRecord
<1>5. CASE SendReconcile(c)
    <2>1. x.op = "reconcile"
        BY <1>1, <1>5 DEF SendReconcile, ServiceInv, TripSound
    <2>2. trips' = [trips EXCEPT ![c] = [x EXCEPT !.at = "sent"]]
        BY <1>1, <1>5 DEF SendReconcile
    <2>3. QED
        BY <1>2, <1>3, <1>4, <2>1, <2>2 DEF NothingNew, Under
<1>6. CASE Lose(c)
    <2>1. trips' = [trips EXCEPT ![c] = Cleared([x EXCEPT !.at = "over"])]
        BY <1>1, <1>6 DEF Lose
    <2>2. Cleared([x EXCEPT !.at = "over"]) \in {None, [x EXCEPT !.at = "over"]}
        BY DEF Cleared
    <2>3. trips'[c] = None \/ trips'[c].at = "over"
        BY <1>3, <1>4, <2>1, <2>2
    <2>4. \A d \in Trip \ {c} : trips'[d] = trips[d]
        BY <1>3, <2>1
    <2>5. QED
        BY <1>2, <2>3, <2>4 DEF NothingNew, Under
<1>7. CASE OnInit(c)
    <2>1. trips' = [trips EXCEPT ![c] = [x EXCEPT !.at = "checkout"]]
        BY <1>1, <1>7 DEF OnInit
    <2>2. QED
        BY <1>2, <1>3, <1>4, <2>1 DEF NothingNew, Under
<1>8. CASE OnReconcile(c)
    <2>1. trips' = [trips EXCEPT ![c] = None]
        BY <1>8 DEF OnReconcile
    <2>2. QED
        BY <1>2, <1>3, <2>1 DEF NothingNew, Under
<1>9. QED
    BY <1>5, <1>6, <1>7, <1>8

\* Nor does an answer: the goroutine it may start is a reconcile.
LEMMA AnswerBringsNothing ==
    ASSUME ServiceInv, NEW c \in Trip, Under(c), Answer(c)
    PROVE  UNCHANGED pol /\ \A d \in Trip : NothingNew(d)
<1>1. PICK S \in SUBSET Waiting(c) : OnSelect(c, S) \/ OnInitDone(c, S) \/ OnConfirm(c, S)
    BY DEF Answer
<1>2. UNCHANGED pol
    BY <1>1 DEF OnSelect, OnInitDone, OnConfirm
<1>3. \A d \in Trip :
          LET new == Published(c, S)[d] IN
          new # None => /\ Under(d) /\ new.op = trips[d].op /\ new.txn = trips[d].txn
                        /\ new.at \in {trips[d].at, "over"}
    BY PublishedFacts DEF ServiceInv
<1>4. CASE trips' = Published(c, S)
    BY <1>2, <1>3, <1>4 DEF NothingNew, Under
<1>5. CASE trips' # Published(c, S)
    <2> DEFINE y == [op |-> "reconcile", txn |-> trips[c].txn, at |-> "posted",
                     caller |-> None, panel |-> FALSE]
    <2>1. PICK e \in Trip : trips' = [Published(c, S) EXCEPT ![e] = y]
        BY <1>1, <1>5 DEF OnSelect, OnInitDone, OnConfirm
    <2>2. y.op = "reconcile"
        OBVIOUS
    <2> HIDE DEF y
    <2>3. trips'[e] = y /\ \A d \in Trip \ {e} : trips'[d] = Published(c, S)[d]
        BY <2>1, PublishedFacts DEF ServiceInv
    <2>4. QED
        BY <1>2, <1>3, <2>2, <2>3 DEF NothingNew, Under
<1>6. QED
    BY <1>4, <1>5

\* Nor do the callers who wait no more, or the panel that has changed.
LEMMA CallersBringNothing ==
    ASSUME ServiceInv,
           \/ \E c \in Trip : GiveUp(c)
           \/ \E p \in Page : Leave(p) \/ Settle(p)
    PROVE  UNCHANGED pol /\ \A d \in Trip : NothingNew(d)
<1>1. UNCHANGED pol
    BY DEF GiveUp, Leave, Settle
<1>2. CASE \/ \E c \in Trip : GiveUp(c)
           \/ \E p \in Page : Leave(p)
    <2>1. PICK S \in SUBSET Trip : trips' = Released(S) /\ \A d \in S : Under(d)
        <3>1. ASSUME NEW c \in Trip, GiveUp(c)
              PROVE  \E S \in SUBSET Trip : trips' = Released(S) /\ \A d \in S : Under(d)
            <4>1. trips' = Released({c}) /\ {c} \in SUBSET Trip /\ \A d \in {c} : Under(d)
                BY <3>1 DEF GiveUp
            <4>2. QED
                BY <4>1
        <3>2. ASSUME NEW p \in Page, Leave(p)
              PROVE  \E S \in SUBSET Trip : trips' = Released(S) /\ \A d \in S : Under(d)
            <4>1. /\ trips' = Released(CallsOf(p)) /\ CallsOf(p) \in SUBSET Trip
                  /\ \A d \in CallsOf(p) : Under(d)
                BY <3>2 DEF Leave, CallsOf
            <4>2. QED
                BY <4>1
        <3>3. QED
            BY <1>2, <3>1, <3>2
    <2>2. QED
        BY <1>1, <2>1, ReleasedFacts DEF NothingNew, Under, ServiceInv
<1>3. ASSUME NEW p \in Page, Settle(p), NEW d \in Trip
      PROVE  NothingNew(d)
    <2>1. CASE d \in CallsOf(p)
        <3>1. PICK x \in TripRecord : x = trips[d]
            BY <2>1, TripTyped DEF CallsOf, ServiceInv
        <3>2. trips'[d] = [x EXCEPT !.panel = FALSE]
            BY <1>3, <2>1, <3>1 DEF Settle
        <3>3. /\ [x EXCEPT !.panel = FALSE].op = x.op /\ [x EXCEPT !.panel = FALSE].txn = x.txn
              /\ [x EXCEPT !.panel = FALSE].at = x.at
            BY DEF TripRecord
        <3>4. Under(d)
            BY <2>1 DEF CallsOf
        <3>5. QED
            BY <3>1, <3>2, <3>3, <3>4 DEF NothingNew
    <2>2. CASE d \notin CallsOf(p)
        BY <1>3, <2>2 DEF Settle, NothingNew, Under
    <2>3. QED
        BY <2>1, <2>2
<1>4. QED
    BY <1>1, <1>2, <1>3

\* The purchase, with its tabs, trips and losses, keeps the insurer's contract: no
\* cover begins without money held and a confirm on its way, none ends but by an
\* init on its way, and each of them is answered once.  PolicyLifecycle keeps the
\* same contract, handler by handler.
THEOREM Refinement == Spec => ImplementsCover
<1>1. Init => COVER!Init
    <2>1. SUFFICES ASSUME Init
          PROVE  /\ \A t \in Txn : pol[t] = NewPolicy
                 /\ \A c \in Trip : ~ Under(c)
        BY DEF COVER!Init, NewPolicy, OnTheWay
    <2>2. QED
        BY <2>1 DEF Init, ServiceInit, Under
<1>2. ASSUME IInv, [Next]_vars
      PROVE  [COVER!Next]_(COVER!vars)
    <2>1. CASE UNCHANGED vars
        BY <2>1 DEF vars, COVER!vars, OnTheWay, Under
    <2>2. CASE UNCHANGED <<pol, trips>>
        BY <2>2 DEF COVER!vars, OnTheWay, Under
    <2>3. ASSUME NEW c \in Trip, Backend(c)
          PROVE  [COVER!Next]_(COVER!vars)
        <3>1. CASE InsurerAnswers(c)
            BY <1>2, <3>1, AnswerIsOfContract DEF IInv
        <3>2. CASE ~ InsurerAnswers(c)
            BY <1>2, <2>3, <3>2, BackendBringsNothing, QuietStep DEF Backend, IInv
        <3>3. QED
            BY <3>1, <3>2
    <2>4. ASSUME NEW c \in Trip, Under(c) /\ Answer(c)
          PROVE  [COVER!Next]_(COVER!vars)
        BY <1>2, <2>4, AnswerBringsNothing, QuietStep DEF IInv
    <2>5. ASSUME \/ \E c \in Trip : GiveUp(c)
                 \/ \E p \in Page : Leave(p) \/ Settle(p)
          PROVE  [COVER!Next]_(COVER!vars)
        BY <1>2, <2>5, CallersBringNothing, QuietStep DEF IInv
    <2>6. ASSUME NEW t \in Txn, Notified(t)
          PROVE  [COVER!Next]_(COVER!vars)
        BY <1>2, <2>6, PaymentIsOfContract DEF Notified, IInv
    <2>7. ASSUME NEW p \in Page,
                 \/ VehicleDetailsStep(p) \/ QuoteStep(p) \/ KYCStep(p) \/ PaymentStep(p)
          PROVE  [COVER!Next]_(COVER!vars)
        <3>1. CASE UNCHANGED <<pol, trips>>
            BY <2>2, <3>1
        <3>2. CASE \E op \in Op, t \in Txn : Post(p, op, t)
            BY <1>2, <3>2, RequestIsOfContract DEF Post, IInv
        <3>3. pages[p].shown > 1 => pages[p].prop \in Txn
            BY <1>2 DEF IInv, PagesInv, PageSound, PageState
        <3>4. QED
            BY <2>7, <3>1, <3>2, <3>3 DEF VehicleDetailsStep, QuoteStep, KYCStep, PaymentStep,
                                          GoTo, Shows, Op
    <2>8. ASSUME NEW p \in Page,
                 \/ OpenFlow(p) \/ (\E t \in Txn : OpenLink(p, t))
                 \/ Pay(p) \/ PollPayment(p) \/ PollStage(p) \/ PollAnswered(p)
          PROVE  UNCHANGED <<pol, trips>>
        BY <2>8 DEF OpenFlow, OpenLink, Pay, PollPayment, PollStage, PollAnswered, Asks
    <2>9. QED
        BY <1>2, <2>1, <2>2, <2>3, <2>4, <2>5, <2>6, <2>7, <2>8 DEF Next
<1>3. QED
    BY <1>1, <1>2, Invariance, PTL DEF Spec, ImplementsCover, COVER!Spec
=================================================================================
