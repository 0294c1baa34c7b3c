---------------------------- MODULE IonPaymentProofs ----------------------------
(***************************************************************************)
(* Theorems about IonPayment for any invoices, checkouts and bounds, with  *)
(* the accounts set or not.  They use no fairness.                         *)
(***************************************************************************)
EXTENDS IonPayment, TLAPS

(***************************************************************************)
(* The strengthening.  A Request-Id that is stored, reported, recorded or  *)
(* sent to DOKU is of a checkout of its invoice, if it is of any.  One     *)
(* request of an invoice at most has a caller, and it carries the id of    *)
(* that caller; requests exist only once the policy has been issued, and   *)
(* requests without splits only once DOKU has refused them.                *)
(***************************************************************************)
Names(id, i) == id \in Checkout => checkouts[id].inv = i

\* A checkout that has got anywhere has an invoice.
CheckoutSound(c) ==
    /\ checkouts[c].bap # "none" \/ checkouts[c].at # "unpaid" \/ checkouts[c].hook # "none"
           => checkouts[c].inv # None
    /\ checkouts[c].at = "paidOut" /\ Accounts /\ ~ checkouts[c].split
           => checkouts[c].inv \in refused

RequestSound(r) ==
    /\ r.heard => call[r.inv].pc \in {"first", "retry"} /\ call[r.inv].id = r.id
    /\ Accounts /\ ~ r.splits => r.inv \in refused

Released(i) ==
    call[i].pc = "released" =>
        \E c \in Checkout : /\ call[i].id \in {c, Other}
                            /\ checkouts[c].inv = i /\ checkouts[c].at = "paidOut"

\* A payment held at DOKU is recorded, or a report of it is under way or was lost.
OnItsWay(c) ==
    checkouts[c].at = "held" =>
        \/ checkouts[c].hook = "sent"
        \/ \E p \in posts : p.inv = checkouts[c].inv
        \/ row[checkouts[c].inv].paid
        \/ checkouts[c].inv \in lost

CheckoutsSound == \A c \in Checkout : CheckoutSound(c)
IdsSound ==
    /\ \A i \in Invoice : Names(row[i].id, i) /\ Names(stored[i], i)
    /\ \A p \in posts : Names(p.id, p.inv)
OneCaller ==
    \A r, q \in requests : r.heard /\ q.heard /\ r.inv = q.inv => r = q
RequestsSound == \A r \in requests : RequestSound(r)
AllDue ==
    /\ \A r \in requests : row[r.inv].told /\ Names(r.id, r.inv)
    /\ \A c \in Checkout : checkouts[c].at = "paidOut" => row[checkouts[c].inv].told
AllReleased == \A i \in Invoice : Released(i)
AllOnTheirWay ==
    /\ \A i \in Invoice : row[i].active => row[i].paid
    /\ \A c \in Checkout : OnItsWay(c)

IInv ==
    /\ TypeOK
    /\ CheckoutsSound
    /\ IdsSound
    /\ OneCaller
    /\ RequestsSound
    /\ AllDue
    /\ AllReleased
    /\ AllOnTheirWay

USE ConstantsAssumption

--------------------------------------------------------------------------------
(* What no step takes back *)

Kept ==
    /\ \A c \in Checkout :
           /\ checkouts[c].inv # None => checkouts'[c].inv = checkouts[c].inv
           /\ checkouts[c].at = "paidOut" =>
                  checkouts'[c].at = "paidOut" /\ checkouts'[c].split = checkouts[c].split
    /\ \A i \in Invoice : row[i].told => row'[i].told
    /\ refused \subseteq refused'
    /\ lost \subseteq lost'

\* What a Request-Id names it goes on naming.
LEMMA NamesStays ==
    ASSUME TypeOK, Kept, NEW i \in Invoice, NEW id, Names(id, i)
    PROVE  Names(id, i)'
BY DEF Names, Kept

\* Requests that go on for the same invoice and Request-Id stay due, and so does
\* the money that has gone out.
LEMMA DueStays ==
    ASSUME TypeOK, CheckoutsSound, AllDue, Kept,
           \A c \in Checkout : checkouts'[c].at = "paidOut" =>
               checkouts[c].at = "paidOut" \/ row'[checkouts'[c].inv].told,
           \A r \in requests' :
               \/ \E q \in requests : q.inv = r.inv /\ q.id = r.id
               \/ row'[r.inv].told /\ Names(r.id, r.inv)'
    PROVE  AllDue'
<1>1. ASSUME NEW r \in requests' PROVE row'[r.inv].told /\ Names(r.id, r.inv)'
    <2>1. ASSUME NEW q \in requests, q.inv = r.inv, q.id = r.id
          PROVE  row'[r.inv].told /\ Names(r.id, r.inv)'
        <3>1. q.inv \in Invoice /\ row[q.inv].told /\ Names(q.id, q.inv)
            BY DEF TypeOK, Request, AllDue
        <3>2. row'[q.inv].told /\ Names(q.id, q.inv)'
            BY <3>1, NamesStays DEF Kept
        <3>3. QED
            BY <2>1, <3>2 DEF Names
    <2>2. QED
        BY <2>1
<1>2. ASSUME NEW c \in Checkout, checkouts'[c].at = "paidOut"
      PROVE  row'[checkouts'[c].inv].told
    <2>1. CASE checkouts[c].at = "paidOut"
        <3>1. checkouts[c].inv \in Invoice /\ row[checkouts[c].inv].told
            BY <2>1 DEF TypeOK, CheckoutState, CheckoutsSound, CheckoutSound, AllDue
        <3>2. QED
            BY <3>1 DEF Kept
    <2>2. QED
        BY <1>2, <2>1
<1>3. QED
    BY <1>1, <1>2 DEF AllDue

\* The release requests of a Request-Id that was released go on being true.
LEMMA ReleasedStays ==
    ASSUME TypeOK, Kept, NEW i \in Invoice, Released(i), call'[i] = call[i]
    PROVE  Released(i)'
<1>1. SUFFICES ASSUME call[i].pc = "released"
      PROVE  \E c \in Checkout : /\ call'[i].id \in {c, Other} /\ checkouts'[c].inv = i
                                 /\ checkouts'[c].at = "paidOut"
    BY DEF Released
<1>2. PICK c \in Checkout : /\ call[i].id \in {c, Other}
                            /\ checkouts[c].inv = i /\ checkouts[c].at = "paidOut"
    BY <1>1 DEF Released
<1>3. checkouts'[c].inv = i /\ checkouts'[c].at = "paidOut"
    BY <1>2 DEF Kept
<1>4. QED
    BY <1>2, <1>3

\* The ids of rows, columns and reports stay as good as they are, so that only the
\* one written or sent needs a look.
LEMMA IdsStay ==
    ASSUME TypeOK, Kept, IdsSound,
           \A i \in Invoice : row'[i].id = row[i].id \/ Names(row[i].id, i)',
           \A i \in Invoice : stored'[i] = stored[i] \/ Names(stored[i], i)',
           \A p \in posts' : p \in posts \/ Names(p.id, p.inv)'
    PROVE  IdsSound'
<1>1. \A i \in Invoice : Names(row[i].id, i)' /\ Names(stored[i], i)'
    BY DEF IdsSound, Names, Kept
<1>2. \A p \in posts' : Names(p.id, p.inv)'
    <2>1. SUFFICES ASSUME NEW p \in posts' \cap posts PROVE Names(p.id, p.inv)'
        OBVIOUS
    <2>2. p \in posts /\ p.inv \in Invoice
        BY DEF TypeOK, Post
    <2>3. Names(p.id, p.inv)
        BY <2>2 DEF IdsSound
    <2>4. QED
        BY <2>2, <2>3, NamesStays
<1>3. QED
    BY <1>1, <1>2 DEF IdsSound

\* Nothing changes for the callers of releases; a request may be over.
LEMMA CallersStay ==
    ASSUME TypeOK, Kept, CheckoutsSound, OneCaller, RequestsSound, AllDue, AllReleased,
           call' = call, requests' \subseteq requests,
           \A c \in Checkout : checkouts'[c].at = "paidOut" => checkouts[c].at = "paidOut"
    PROVE  OneCaller' /\ RequestsSound' /\ AllDue' /\ AllReleased'
<1>1. OneCaller'
    BY DEF OneCaller
<1>2. RequestsSound'
    BY DEF RequestsSound, RequestSound, Kept
<1>3. AllReleased'
    BY ReleasedStays DEF AllReleased
<1>4. AllDue'
    BY DueStays
<1>5. QED
    BY <1>1, <1>2, <1>3, <1>4

\* A checkout stays sound while nothing but its hook and its reader change.
LEMMA CheckoutStays ==
    ASSUME NEW c \in Checkout, CheckoutSound(c), refused \subseteq refused',
           checkouts'[c].bap # "none" => checkouts[c].bap # "none",
           checkouts'[c].hook # "none" => checkouts[c].hook # "none",
           checkouts'[c].inv = checkouts[c].inv, checkouts'[c].at = checkouts[c].at,
           checkouts'[c].split = checkouts[c].split
    PROVE  CheckoutSound(c)'
BY DEF CheckoutSound

\* A payment that is not new stays on its way while the hooks and the reports do.
LEMMA WayStays ==
    ASSUME TypeOK, Kept, CheckoutsSound, NEW c \in Checkout, OnItsWay(c),
           checkouts'[c].at = "held" => checkouts[c].at = "held",
           checkouts'[c].hook = checkouts[c].hook,
           posts \subseteq posts', \A i \in Invoice : row[i].paid => row'[i].paid
    PROVE  OnItsWay(c)'
<1>1. SUFFICES ASSUME checkouts'[c].at = "held"
      PROVE  \/ checkouts'[c].hook = "sent"
             \/ \E p \in posts' : p.inv = checkouts'[c].inv
             \/ row'[checkouts'[c].inv].paid
             \/ checkouts'[c].inv \in lost'
    BY DEF OnItsWay
<1>2. checkouts[c].inv \in Invoice /\ checkouts'[c].inv = checkouts[c].inv
    BY <1>1 DEF TypeOK, CheckoutState, CheckoutsSound, CheckoutSound, Kept
<1>3. QED
    BY <1>1, <1>2 DEF OnItsWay, Kept

--------------------------------------------------------------------------------
(* Checkouts *)

LEMMA OnInitKeeps ==
    ASSUME IInv, NEW i \in Invoice, NEW c \in Checkout, OnInit(i, c)
    PROVE  IInv'
<1>1. TypeOK /\ CheckoutsSound /\ IdsSound /\ OneCaller /\ RequestsSound /\ AllDue
         /\ AllReleased /\ AllOnTheirWay
    BY DEF IInv
<1>2. checkouts[c].inv = None /\ checkouts[c].at = "unpaid" /\ checkouts[c].hook = "none"
    BY <1>1 DEF OnInit, CheckoutsSound, CheckoutSound, TypeOK, CheckoutState
<1>3. checkouts' = [checkouts EXCEPT ![c] = [@ EXCEPT !.inv = i, !.bap = "waits"]]
    BY DEF OnInit
<1>4. [checkouts[c] EXCEPT !.inv = i, !.bap = "waits"] \in CheckoutState
    <2>1. checkouts[c] \in CheckoutState
        BY <1>1 DEF TypeOK
    <2>2. QED
        BY <2>1 DEF CheckoutState
<1>5. checkouts' \in [Checkout -> CheckoutState]
    BY <1>1, <1>3, <1>4 DEF TypeOK
<1>6. row' \in [Invoice -> Row]
    <2>1. row' = [row EXCEPT ![i] = [@ EXCEPT !.active = FALSE]]
        BY DEF OnInit
    <2>2. row[i] \in Row
        BY <1>1 DEF TypeOK
    <2>3. [row[i] EXCEPT !.active = FALSE] \in Row
        BY <2>2 DEF Row
    <2>4. QED
        BY <1>1, <2>1, <2>3 DEF TypeOK
<1>7. TypeOK'
    BY <1>1, <1>5, <1>6 DEF TypeOK, OnInit
<1>8. /\ checkouts'[c].inv = i /\ checkouts'[c].at = "unpaid" /\ checkouts'[c].hook = "none"
      /\ \A d \in Checkout \ {c} : checkouts'[d] = checkouts[d]
    BY <1>1, <1>2, <1>3 DEF TypeOK, CheckoutState
<1>9. Kept
    <2>1. \A j \in Invoice : row'[j].told = row[j].told
        BY <1>1 DEF OnInit, TypeOK, Row
    <2>2. QED
        BY <1>2, <1>8, <2>1 DEF Kept, OnInit
<1>10. CheckoutsSound'
    <2>1. CheckoutSound(c)'
        BY <1>8 DEF CheckoutSound
    <2>2. ASSUME NEW d \in Checkout \ {c} PROVE CheckoutSound(d)'
        <3>1. CheckoutSound(d) /\ checkouts'[d] = checkouts[d] /\ refused' = refused
            BY <1>1, <1>8 DEF CheckoutsSound, OnInit
        <3>2. QED
            BY <3>1, CheckoutStays
    <2>3. QED
        BY <2>1, <2>2 DEF CheckoutsSound
<1>11. \A j \in Invoice : /\ row'[j].id = row[j].id /\ row'[j].paid = row[j].paid
                          /\ row'[j].active => row[j].active
    BY <1>1 DEF OnInit, TypeOK, Row
<1>12. IdsSound'
    BY <1>1, <1>9, <1>11, IdsStay DEF OnInit
<1>13. OneCaller' /\ RequestsSound' /\ AllDue' /\ AllReleased'
    BY <1>1, <1>2, <1>8, <1>9, CallersStay DEF OnInit
<1>14. AllOnTheirWay'
    <2>1. \A j \in Invoice : row'[j].active => row'[j].paid
        BY <1>1, <1>11 DEF AllOnTheirWay
    <2>2. ASSUME NEW d \in Checkout PROVE OnItsWay(d)'
        <3>1. OnItsWay(d)
            BY <1>1 DEF AllOnTheirWay
        <3>2. /\ checkouts'[d].at = checkouts[d].at
              /\ checkouts'[d].hook = checkouts[d].hook
            BY <1>2, <1>8
        <3>3. QED
            BY <1>1, <1>9, <1>11, <3>1, <3>2, WayStays DEF OnInit
    <2>3. QED
        BY <2>1, <2>2 DEF AllOnTheirWay
<1>15. QED
    BY <1>7, <1>10, <1>12, <1>13, <1>14 DEF IInv

LEMMA CreateCheckoutKeeps ==
    ASSUME IInv, NEW c \in Checkout, CreateCheckout(c) \/ CreateCheckoutFails(c)
    PROVE  IInv'
<1>1. TypeOK /\ CheckoutsSound /\ IdsSound /\ OneCaller /\ RequestsSound /\ AllDue
         /\ AllReleased /\ AllOnTheirWay
    BY DEF IInv
<1>2. checkouts[c].bap = "waits" /\ UNCHANGED <<posts, row, call, requests, lost, refused>>
    BY DEF CreateCheckout, CreateCheckoutFails
<1>3. PICK b \in {"has", "gaveUp"} : checkouts' = [checkouts EXCEPT ![c] = [@ EXCEPT !.bap = b]]
    BY DEF CreateCheckout, CreateCheckoutFails
<1>4. checkouts[c].inv \in Invoice
    BY <1>1, <1>2 DEF TypeOK, CheckoutState, CheckoutsSound, CheckoutSound
<1>5. checkouts' \in [Checkout -> CheckoutState]
    <2>1. checkouts[c] \in CheckoutState
        BY <1>1 DEF TypeOK
    <2>2. [checkouts[c] EXCEPT !.bap = b] \in CheckoutState
        BY <2>1 DEF CheckoutState
    <2>3. QED
        BY <1>1, <1>3, <2>2 DEF TypeOK
<1>6. \A d \in Checkout :
          /\ checkouts'[d].inv = checkouts[d].inv /\ checkouts'[d].at = checkouts[d].at
          /\ checkouts'[d].split = checkouts[d].split
          /\ checkouts'[d].hook = checkouts[d].hook
          /\ checkouts'[d].bap # "none" => checkouts[d].bap # "none"
    BY <1>1, <1>2, <1>3 DEF TypeOK, CheckoutState
<1>7. \A i \in Invoice : \/ stored'[i] = stored[i]
                         \/ stored'[i] = c /\ i = checkouts[c].inv
    BY <1>1 DEF CreateCheckout, CreateCheckoutFails, TypeOK
<1>8. stored' \in [Invoice -> Checkout \cup {None}]
    BY <1>1, <1>4 DEF CreateCheckout, CreateCheckoutFails, TypeOK
<1>9. TypeOK'
    BY <1>1, <1>2, <1>5, <1>8 DEF TypeOK
<1>10. Kept
    BY <1>2, <1>6 DEF Kept
<1>11. CheckoutsSound'
    BY <1>1, <1>2, <1>6, CheckoutStays DEF CheckoutsSound
<1>12. IdsSound'
    <2>1. \A i \in Invoice : stored'[i] = stored[i] \/ Names(stored[i], i)'
        BY <1>6, <1>7 DEF Names
    <2>2. QED
        BY <1>1, <1>2, <1>10, <2>1, IdsStay
<1>13. OneCaller' /\ RequestsSound' /\ AllDue' /\ AllReleased'
    BY <1>1, <1>2, <1>6, <1>10, CallersStay
<1>14. AllOnTheirWay'
    <2>1. \A d \in Checkout : OnItsWay(d)'
        BY <1>1, <1>2, <1>6, <1>10, WayStays DEF AllOnTheirWay
    <2>2. QED
        BY <1>1, <1>2, <2>1 DEF AllOnTheirWay
<1>15. QED
    BY <1>9, <1>11, <1>12, <1>13, <1>14 DEF IInv

--------------------------------------------------------------------------------
(* Payments *)

LEMMA PayKeeps ==
    ASSUME IInv, NEW c \in Checkout, Pay(c)
    PROVE  IInv'
<1>1. TypeOK /\ CheckoutsSound /\ IdsSound /\ OneCaller /\ RequestsSound /\ AllDue
         /\ AllReleased /\ AllOnTheirWay
    BY DEF IInv
<1>2. /\ checkouts[c].bap = "has" /\ checkouts[c].at = "unpaid"
      /\ UNCHANGED <<stored, posts, row, call, requests, lost, refused>>
    BY DEF Pay
<1>3. checkouts' = [checkouts EXCEPT ![c] = [@ EXCEPT !.at = "held", !.hook = "sent"]]
    BY DEF Pay
<1>4. checkouts[c].inv # None
    BY <1>1, <1>2 DEF CheckoutsSound, CheckoutSound
<1>5. checkouts' \in [Checkout -> CheckoutState]
    <2>1. checkouts[c] \in CheckoutState
        BY <1>1 DEF TypeOK
    <2>2. [checkouts[c] EXCEPT !.at = "held", !.hook = "sent"] \in CheckoutState
        BY <2>1 DEF CheckoutState
    <2>3. QED
        BY <1>1, <1>3, <2>2 DEF TypeOK
<1>6. /\ checkouts'[c].inv = checkouts[c].inv
      /\ checkouts'[c].at = "held" /\ checkouts'[c].hook = "sent"
      /\ \A d \in Checkout \ {c} : checkouts'[d] = checkouts[d]
    BY <1>1, <1>3 DEF TypeOK, CheckoutState
<1>7. TypeOK'
    BY <1>1, <1>2, <1>5 DEF TypeOK
<1>8. Kept
    BY <1>2, <1>6 DEF Kept
<1>9. CheckoutsSound'
    <2>1. CheckoutSound(c)'
        BY <1>4, <1>6 DEF CheckoutSound
    <2>2. ASSUME NEW d \in Checkout \ {c} PROVE CheckoutSound(d)'
        <3>1. CheckoutSound(d) /\ checkouts'[d] = checkouts[d] /\ refused' = refused
            BY <1>1, <1>2, <1>6 DEF CheckoutsSound
        <3>2. QED
            BY <3>1, CheckoutStays
    <2>3. QED
        BY <2>1, <2>2 DEF CheckoutsSound
<1>10. IdsSound'
    BY <1>1, <1>2, <1>8, IdsStay
<1>11. OneCaller' /\ RequestsSound' /\ AllDue' /\ AllReleased'
    BY <1>1, <1>2, <1>6, <1>8, CallersStay
<1>12. AllOnTheirWay'
    <2>1. OnItsWay(c)'
        BY <1>6 DEF OnItsWay
    <2>2. ASSUME NEW d \in Checkout \ {c} PROVE OnItsWay(d)'
        <3>1. OnItsWay(d) /\ checkouts'[d] = checkouts[d]
            BY <1>1, <1>6 DEF AllOnTheirWay
        <3>2. QED
            BY <1>1, <1>2, <1>8, <3>1, WayStays
    <2>3. QED
        BY <1>1, <1>2, <2>1, <2>2 DEF AllOnTheirWay
<1>13. QED
    BY <1>7, <1>9, <1>10, <1>11, <1>12 DEF IInv

\* The two ends of a hook: a report of its payment goes out, or is lost.
LEMMA HookKeeps ==
    ASSUME IInv, NEW c \in Checkout, PaymentNotified(c) \/ DokuWebhookDropped(c)
    PROVE  IInv'
<1>1. TypeOK /\ CheckoutsSound /\ IdsSound /\ OneCaller /\ RequestsSound /\ AllDue
         /\ AllReleased /\ AllOnTheirWay
    BY DEF IInv
<1>2. /\ checkouts[c].hook = "sent"
      /\ checkouts' = [checkouts EXCEPT ![c] = [@ EXCEPT !.hook = "over"]]
      /\ UNCHANGED <<stored, row, call, requests, refused>>
    BY DEF PaymentNotified, DokuWebhookDropped
<1>3. checkouts[c].inv \in Invoice
    BY <1>1, <1>2 DEF TypeOK, CheckoutState, CheckoutsSound, CheckoutSound
<1>4. PICK id \in {c, Other} :
          \/ posts' = posts \cup {[inv |-> checkouts[c].inv, id |-> id]} /\ lost' = lost
          \/ posts' = posts /\ lost' = lost \cup {checkouts[c].inv}
    BY DEF PaymentNotified, HandleDokuWebhook, DokuWebhookDropped
<1>5. checkouts' \in [Checkout -> CheckoutState]
    <2>1. checkouts[c] \in CheckoutState
        BY <1>1 DEF TypeOK
    <2>2. [checkouts[c] EXCEPT !.hook = "over"] \in CheckoutState
        BY <2>1 DEF CheckoutState
    <2>3. QED
        BY <1>1, <1>2, <2>2 DEF TypeOK
<1>6. /\ \A d \in Checkout :
             /\ checkouts'[d].inv = checkouts[d].inv /\ checkouts'[d].at = checkouts[d].at
             /\ checkouts'[d].split = checkouts[d].split
             /\ checkouts'[d].bap = checkouts[d].bap
      /\ checkouts'[c].hook = "over"
      /\ \A d \in Checkout \ {c} : checkouts'[d].hook = checkouts[d].hook
    BY <1>1, <1>2 DEF TypeOK, CheckoutState
<1>7. TypeOK'
    <2>1. posts' \subseteq Post
        BY <1>1, <1>3, <1>4 DEF TypeOK, Post, RequestId
    <2>2. lost' \subseteq Invoice
        BY <1>1, <1>3, <1>4 DEF TypeOK
    <2>3. QED
        BY <1>1, <1>2, <1>5, <2>1, <2>2 DEF TypeOK
<1>8. Kept
    BY <1>2, <1>4, <1>6 DEF Kept
<1>9. CheckoutsSound'
    <2>1. ASSUME NEW d \in Checkout PROVE CheckoutSound(d)'
        <3>1. CheckoutSound(d) /\ refused' = refused
            BY <1>1, <1>2 DEF CheckoutsSound
        <3>2. checkouts'[d].hook # "none" => checkouts[d].hook # "none"
            BY <1>2, <1>6
        <3>3. QED
            BY <1>6, <3>1, <3>2, CheckoutStays
    <2>2. QED
        BY <2>1 DEF CheckoutsSound
<1>10. IdsSound'
    <2>1. \A p \in posts' : p \in posts \/ Names(p.id, p.inv)'
        BY <1>3, <1>4, <1>6 DEF Names
    <2>2. QED
        BY <1>1, <1>2, <1>8, <2>1, IdsStay
<1>11. OneCaller' /\ RequestsSound' /\ AllDue' /\ AllReleased'
    BY <1>1, <1>2, <1>6, <1>8, CallersStay
<1>12. AllOnTheirWay'
    <2>1. OnItsWay(c)'
        <3>1. \/ \E p \in posts' : p.inv = checkouts[c].inv
              \/ checkouts[c].inv \in lost'
            <4>1. [inv |-> checkouts[c].inv, id |-> id].inv = checkouts[c].inv
                OBVIOUS
            <4>2. \/ [inv |-> checkouts[c].inv, id |-> id] \in posts'
                  \/ checkouts[c].inv \in lost'
                BY <1>4
            <4>3. QED
                BY <4>1, <4>2
        <3>2. checkouts'[c].inv = checkouts[c].inv
            BY <1>6
        <3>3. QED
            BY <3>1, <3>2 DEF OnItsWay
    <2>2. ASSUME NEW d \in Checkout \ {c} PROVE OnItsWay(d)'
        <3>1. OnItsWay(d) /\ posts \subseteq posts'
            BY <1>1, <1>4 DEF AllOnTheirWay
        <3>2. QED
            BY <1>1, <1>2, <1>6, <1>8, <3>1, WayStays
    <2>3. QED
        BY <1>1, <1>2, <2>1, <2>2 DEF AllOnTheirWay
<1>13. QED
    BY <1>7, <1>9, <1>10, <1>11, <1>12 DEF IInv

\* A report of an invoice with a Request-Id that is not of another one.
LEMMA ReportKeeps ==
    ASSUME IInv, NEW i \in Invoice, NEW id \in RequestId, Names(id, i),
           posts' = posts \cup {[inv |-> i, id |-> id]},
           UNCHANGED <<checkouts, stored, row, call, requests, lost, refused>>
    PROVE  IInv'
<1>1. TypeOK /\ CheckoutsSound /\ IdsSound /\ OneCaller /\ RequestsSound /\ AllDue
         /\ AllReleased /\ AllOnTheirWay
    BY DEF IInv
<1>2. Kept
    BY DEF Kept
<1>3. TypeOK'
    BY <1>1 DEF TypeOK, Post
<1>4. CheckoutsSound'
    BY <1>1 DEF CheckoutsSound, CheckoutSound
<1>5. IdsSound'
    <2>1. \A p \in posts' : p \in posts \/ Names(p.id, p.inv)'
        BY DEF Names
    <2>2. QED
        BY <1>1, <1>2, <2>1, IdsStay
<1>6. OneCaller' /\ RequestsSound' /\ AllDue' /\ AllReleased'
    BY <1>1, <1>2, CallersStay
<1>7. AllOnTheirWay'
    BY <1>1, <1>2, WayStays DEF AllOnTheirWay
<1>8. QED
    BY <1>3, <1>4, <1>5, <1>6, <1>7 DEF IInv

LEMMA OtherNotifiedKeeps ==
    ASSUME IInv, NEW i \in Invoice, OtherNotified(i)
    PROVE  IInv'
<1>1. PICK id \in {Other} \cup {c \in Checkout : checkouts[c].inv = i} :
          posts' = posts \cup {[inv |-> i, id |-> id]}
    BY DEF OtherNotified, HandleDokuWebhook
<1>2. id \in RequestId /\ Names(id, i)
    BY DEF RequestId, Names
<1>3. QED
    BY <1>1, <1>2, ReportKeeps DEF OtherNotified

LEMMA HandleNotifyDirectKeeps ==
    ASSUME IInv, NEW i \in Invoice, HandleNotifyDirect(i)
    PROVE  IInv'
<1>1. stored[i] \in RequestId /\ Names(stored[i], i)
    BY DEF IInv, TypeOK, IdsSound, RequestId
<1>2. QED
    BY <1>1, ReportKeeps DEF HandleNotifyDirect

\* The insurer records a report, or has an ACTIVE policy and so a payment already.
LEMMA NotifyBPPKeeps ==
    ASSUME IInv, NEW p \in posts, NotifyBPP(p)
    PROVE  IInv'
<1>1. TypeOK /\ CheckoutsSound /\ IdsSound /\ OneCaller /\ RequestsSound /\ AllDue
         /\ AllReleased /\ AllOnTheirWay
    BY DEF IInv
<1>2. p.inv \in Invoice /\ p.id \in RequestId
    BY <1>1 DEF TypeOK, Post
<1>3. /\ posts' = posts \ {p}
      /\ UNCHANGED <<checkouts, stored, call, requests, lost, refused>>
    BY DEF NotifyBPP
<1> DEFINE id == IF p.id # None THEN p.id ELSE row[p.inv].id
           told == [row[p.inv] EXCEPT !.paid = TRUE, !.id = id]
<1>4. \/ row' = [row EXCEPT ![p.inv] = told]
      \/ (row[p.inv].active \/ ~ Entered(p.inv)) /\ row' = row
    BY DEF NotifyBPP
<1>5. row' \in [Invoice -> Row]
    <2>1. row[p.inv] \in Row
        BY <1>1, <1>2 DEF TypeOK
    <2>2. id \in RequestId
        BY <1>2, <2>1 DEF Row
    <2>3. told \in Row
        BY <2>1, <2>2 DEF Row
    <2>4. row \in [Invoice -> Row]
        BY <1>1 DEF TypeOK
    <2>5. QED
        <3> HIDE DEF told
        <3> QED BY <1>2, <1>4, <2>3, <2>4
<1>6. TypeOK'
    BY <1>1, <1>3, <1>5 DEF TypeOK
<1>7. /\ row'[p.inv].paid \/ ~ Entered(p.inv)
      /\ \A i \in Invoice :
             /\ row[i].paid => row'[i].paid
             /\ row[i].told => row'[i].told
             /\ row'[i].active => row'[i].paid
             /\ row'[i].id = row[i].id \/ (i = p.inv /\ row'[i].id = p.id)
    <2>1. row \in [Invoice -> Row] /\ \A i \in Invoice : row[i].active => row[i].paid
        BY <1>1 DEF TypeOK, AllOnTheirWay
    <2>2. /\ told.paid /\ told.told = row[p.inv].told /\ told.active = row[p.inv].active
          /\ told.id = row[p.inv].id \/ told.id = p.id
        BY <1>2, <2>1 DEF Row
    <2>3. QED
        <3> HIDE DEF told
        <3> QED BY <1>2, <1>4, <2>1, <2>2
<1>8. Kept
    BY <1>3, <1>7 DEF Kept
<1>9. CheckoutsSound'
    BY <1>1, <1>3 DEF CheckoutsSound, CheckoutSound
<1>10. IdsSound'
    <2>1. Names(p.id, p.inv)
        BY <1>1 DEF IdsSound
    <2>2. Names(p.id, p.inv)'
        BY <1>1, <1>2, <1>8, <2>1, NamesStays
    <2>3. \A i \in Invoice : row'[i].id = row[i].id \/ Names(row[i].id, i)'
        BY <1>7, <2>2 DEF Names
    <2>4. QED
        BY <1>1, <1>3, <1>8, <2>3, IdsStay
<1>11. OneCaller' /\ RequestsSound' /\ AllDue' /\ AllReleased'
    BY <1>1, <1>3, <1>8, CallersStay
<1>12. AllOnTheirWay'
    <2>1. ASSUME NEW c \in Checkout PROVE OnItsWay(c)'
        <3>1. OnItsWay(c) /\ checkouts' = checkouts /\ lost' = lost
            BY <1>1, <1>3 DEF AllOnTheirWay
        <3>2. checkouts[c].at = "held" => checkouts[c].inv \in Invoice
            BY <1>1 DEF TypeOK, CheckoutState, CheckoutsSound, CheckoutSound
        <3>3. ASSUME NEW q \in posts, q.inv = checkouts[c].inv
              PROVE  q \in posts' \/ row'[checkouts[c].inv].paid
            BY <1>3, <1>7, <3>3 DEF Entered
        <3>4. QED
            BY <1>7, <3>1, <3>2, <3>3 DEF OnItsWay
    <2>2. QED
        BY <1>7, <2>1 DEF AllOnTheirWay
<1>13. QED
    BY <1>6, <1>9, <1>10, <1>11, <1>12 DEF IInv

LEMMA NotifyBPPFailsKeeps ==
    ASSUME IInv, NEW p \in posts, NotifyBPPFails(p)
    PROVE  IInv'
<1>1. TypeOK /\ CheckoutsSound /\ IdsSound /\ OneCaller /\ RequestsSound /\ AllDue
         /\ AllReleased /\ AllOnTheirWay
    BY DEF IInv
<1>2. /\ posts' = posts \ {p} /\ lost \subseteq lost' /\ lost' \subseteq lost \cup {p.inv}
      /\ Paid(p.inv) => p.inv \in lost'
      /\ UNCHANGED <<checkouts, stored, row, call, requests, refused>>
    BY DEF NotifyBPPFails
<1>3. TypeOK'
    BY <1>1, <1>2 DEF TypeOK, Post
<1>4. Kept
    BY <1>2 DEF Kept
<1>5. CheckoutsSound'
    BY <1>1, <1>2 DEF CheckoutsSound, CheckoutSound
<1>6. IdsSound'
    BY <1>1, <1>2, <1>4, IdsStay
<1>7. OneCaller' /\ RequestsSound' /\ AllDue' /\ AllReleased'
    BY <1>1, <1>2, <1>4, CallersStay
<1>8. AllOnTheirWay'
    BY <1>1, <1>2 DEF AllOnTheirWay, OnItsWay, Paid
<1>9. QED
    BY <1>3, <1>5, <1>6, <1>7, <1>8 DEF IInv

--------------------------------------------------------------------------------
(* Settlement *)

LEMMA ConfirmKeeps ==
    ASSUME IInv, NEW i \in Invoice, Confirm(i)
    PROVE  IInv'
<1>1. TypeOK /\ CheckoutsSound /\ IdsSound /\ OneCaller /\ RequestsSound /\ AllDue
         /\ AllReleased /\ AllOnTheirWay
    BY DEF IInv
<1>2. /\ row[i].paid
      /\ row' = [row EXCEPT ![i] = [@ EXCEPT !.active = TRUE, !.told = TRUE]]
      /\ UNCHANGED <<checkouts, stored, posts, call, requests, lost, refused>>
    BY DEF Confirm
<1>3. row' \in [Invoice -> Row]
    <2>1. row[i] \in Row
        BY <1>1 DEF TypeOK
    <2>2. [row[i] EXCEPT !.active = TRUE, !.told = TRUE] \in Row
        BY <2>1 DEF Row
    <2>3. QED
        BY <1>1, <1>2, <2>2 DEF TypeOK
<1>4. TypeOK'
    BY <1>1, <1>2, <1>3 DEF TypeOK
<1>5. \A j \in Invoice : /\ row'[j].id = row[j].id /\ row'[j].paid = row[j].paid
                         /\ row[j].told => row'[j].told
                         /\ row'[j].active => row[j].active \/ j = i
    BY <1>1, <1>2 DEF TypeOK, Row
<1>6. Kept
    BY <1>2, <1>5 DEF Kept
<1>7. CheckoutsSound'
    BY <1>1, <1>2 DEF CheckoutsSound, CheckoutSound
<1>8. IdsSound'
    BY <1>1, <1>2, <1>5, <1>6, IdsStay
<1>9. OneCaller' /\ RequestsSound' /\ AllDue' /\ AllReleased'
    BY <1>1, <1>2, <1>6, CallersStay
<1>10. AllOnTheirWay'
    <2>1. \A c \in Checkout : OnItsWay(c)'
        BY <1>1, <1>2, <1>5, <1>6, WayStays DEF AllOnTheirWay
    <2>2. QED
        BY <1>1, <1>2, <1>5, <2>1 DEF AllOnTheirWay
<1>11. QED
    BY <1>4, <1>7, <1>8, <1>9, <1>10 DEF IInv

\* Steps of the callers leave payments alone.
LEMMA PaymentsStay ==
    ASSUME TypeOK, CheckoutsSound, IdsSound, AllOnTheirWay,
           UNCHANGED <<checkouts, stored, posts, row, lost>>, refused \subseteq refused'
    PROVE  Kept /\ CheckoutsSound' /\ IdsSound' /\ AllOnTheirWay'
<1>1. Kept
    BY DEF Kept
<1>2. CheckoutsSound'
    BY CheckoutStays DEF CheckoutsSound
<1>3. IdsSound'
    BY <1>1, IdsStay
<1>4. AllOnTheirWay'
    BY <1>1, WayStays DEF AllOnTheirWay
<1>5. QED
    BY <1>1, <1>2, <1>3, <1>4

LEMMA HandleReconcileKeeps ==
    ASSUME IInv, NEW i \in Invoice, HandleReconcile(i)
    PROVE  IInv'
<1>1. TypeOK /\ CheckoutsSound /\ IdsSound /\ OneCaller /\ RequestsSound /\ AllDue
         /\ AllReleased /\ AllOnTheirWay
    BY DEF IInv
<1> DEFINE new == [inv |-> i, id |-> row[i].id, splits |-> Accounts, heard |-> TRUE]
           first == [call[i] EXCEPT !.pc = "first", !.id = row[i].id]
<1>2. /\ call[i].pc = "idle"
      /\ row[i].told
      /\ call' = [call EXCEPT ![i] = first]
      /\ requests' = requests \cup {new}
      /\ UNCHANGED <<checkouts, stored, posts, row, lost, refused>>
    BY DEF HandleReconcile
<1>3. new \in Request /\ first \in Call /\ first.pc = "first" /\ first.id = row[i].id
    <2>1. row[i] \in Row /\ call[i] \in Call
        BY <1>1 DEF TypeOK
    <2>2. row[i].id \in RequestId
        BY <2>1 DEF Row
    <2>3. QED
        BY <2>1, <2>2 DEF Request, Call
<1>4. new.inv = i /\ new.id = row[i].id /\ new.splits = Accounts /\ new.heard
    OBVIOUS
<1> HIDE DEF new, first
<1>5. TypeOK'
    BY <1>1, <1>2, <1>3 DEF TypeOK
<1>6. call'[i] = first /\ \A j \in Invoice \ {i} : call'[j] = call[j]
    BY <1>1, <1>2 DEF TypeOK
<1>7. \A r \in requests : r.inv \in Invoice /\ (r.heard => r.inv # i)
    BY <1>1, <1>2 DEF TypeOK, Request, RequestsSound, RequestSound
<1>8. OneCaller'
    BY <1>1, <1>2, <1>4, <1>7 DEF OneCaller
<1>9. RequestsSound'
    <2>1. ASSUME NEW r, r = new PROVE RequestSound(r)'
        BY <1>2, <1>3, <1>4, <1>6, <2>1 DEF RequestSound
    <2>2. ASSUME NEW r \in requests PROVE RequestSound(r)'
        BY <1>1, <1>2, <1>6, <1>7 DEF RequestsSound, RequestSound
    <2>3. QED
        BY <1>2, <2>1, <2>2 DEF RequestsSound
<1>10. Kept /\ CheckoutsSound' /\ IdsSound' /\ AllOnTheirWay'
    BY <1>1, <1>2, PaymentsStay
<1>11. AllReleased'
    <2>1. Released(i)'
        BY <1>3, <1>6 DEF Released
    <2>2. ASSUME NEW j \in Invoice \ {i} PROVE Released(j)'
        BY <1>1, <1>6, <1>10, ReleasedStays DEF AllReleased
    <2>3. QED
        BY <2>1, <2>2 DEF AllReleased
<1>12. AllDue'
    <2>1. Names(row[i].id, i)'
        BY <1>10 DEF IdsSound
    <2>2. ASSUME NEW r \in requests'
          PROVE  \/ \E q \in requests : q.inv = r.inv /\ q.id = r.id
                 \/ row'[r.inv].told /\ Names(r.id, r.inv)'
        <3>1. CASE r = new
            BY <1>2, <1>4, <2>1, <3>1 DEF Names
        <3>2. QED
            BY <1>2, <3>1
    <2>3. QED
        BY <1>1, <1>2, <1>10, <2>2, DueStays
<1>13. QED
    BY <1>5, <1>8, <1>9, <1>10, <1>11, <1>12 DEF IInv

LEMMA ReconcileSettleKeeps ==
    ASSUME IInv, NEW i \in Invoice, ReconcileSettle(i)
    PROVE  IInv'
<1>1. TypeOK /\ CheckoutsSound /\ IdsSound /\ OneCaller /\ RequestsSound /\ AllDue
         /\ AllReleased /\ AllOnTheirWay
    BY DEF IInv
<1>2. /\ call[i].pc \in {"released", "failed"}
      /\ call' = [call EXCEPT ![i] = Idle]
      /\ UNCHANGED <<checkouts, stored, posts, row, requests, lost, refused>>
    BY DEF ReconcileSettle
<1>3. TypeOK'
    <2>1. Idle \in Call
        BY DEF Idle, Call, RequestId
    <2>2. QED
        BY <1>1, <1>2, <2>1 DEF TypeOK
<1>4. call'[i] = Idle /\ \A j \in Invoice \ {i} : call'[j] = call[j]
    BY <1>1, <1>2 DEF TypeOK
<1>5. Kept /\ CheckoutsSound' /\ IdsSound' /\ AllOnTheirWay'
    BY <1>1, <1>2, PaymentsStay
<1>6. OneCaller'
    BY <1>1, <1>2 DEF OneCaller
<1>7. RequestsSound'
    <2>1. ASSUME NEW r \in requests PROVE RequestSound(r)'
        <3>1. RequestSound(r) /\ r.inv \in Invoice
            BY <1>1 DEF RequestsSound, TypeOK, Request
        <3>2. QED
            BY <1>2, <1>4, <3>1 DEF RequestSound
    <2>2. QED
        BY <1>2, <2>1 DEF RequestsSound
<1>8. AllReleased'
    <2>1. Released(i)'
        BY <1>4 DEF Released, Idle
    <2>2. ASSUME NEW j \in Invoice \ {i} PROVE Released(j)'
        BY <1>1, <1>4, <1>5, ReleasedStays DEF AllReleased
    <2>3. QED
        BY <2>1, <2>2 DEF AllReleased
<1>9. AllDue'
    BY <1>1, <1>2, <1>5, DueStays
<1>10. QED
    BY <1>3, <1>5, <1>6, <1>7, <1>8, <1>9 DEF IInv

\* How a release goes on after an answer or without one.
LEMMA HandleReleaseKeeps ==
    ASSUME TypeOK, Kept, OneCaller, RequestsSound, AllReleased,
           NEW r \in requests, r.heard, NEW answer, NEW others,
           HandleRelease(r.inv, answer, others),
           \A q \in others : q \in requests \ {r} \/ q = [r EXCEPT !.heard = FALSE],
           answer = "notFound" => r.inv \in refused',
           answer = "ok" => \E c \in Checkout : /\ r.id \in {c, Other}
                                                /\ checkouts'[c].inv = r.inv
                                                /\ checkouts'[c].at = "paidOut"
    PROVE  /\ call' \in [Invoice -> Call] /\ requests' \subseteq Request
           /\ OneCaller' /\ RequestsSound' /\ AllReleased'
           /\ \A q \in requests' : \E p \in requests : p.inv = q.inv /\ p.id = q.id
<1>1. /\ r \in Request /\ r.inv \in Invoice /\ r.id \in RequestId
      /\ call \in [Invoice -> Call] /\ call[r.inv] \in Call
    BY DEF TypeOK, Request
<1>2. call[r.inv].pc \in {"first", "retry"} /\ call[r.inv].id = r.id
    BY DEF RequestsSound, RequestSound
<1>3. \A q \in requests \ {r} : q.heard => q.inv # r.inv
    BY DEF OneCaller
<1>4. \A q \in others :
          /\ q \in Request
          /\ q.heard => q \in requests \ {r}
          /\ Accounts /\ ~ q.splits => q.inv \in refused'
    <2>1. TAKE q \in others
    <2>2. CASE q \in requests \ {r}
        BY <2>2 DEF TypeOK, RequestsSound, RequestSound, Kept
    <2>3. CASE q = [r EXCEPT !.heard = FALSE]
        <3>1. q \in Request /\ ~ q.heard /\ q.splits = r.splits /\ q.inv = r.inv
            BY <1>1, <2>3 DEF Request
        <3>2. Accounts /\ ~ r.splits => r.inv \in refused'
            BY DEF RequestsSound, RequestSound, Kept
        <3>3. QED
            BY <3>1, <3>2
    <2>4. QED
        BY <2>2, <2>3
<1>4a. \A q \in others : \E p \in requests : p.inv = q.inv /\ p.id = q.id
    <2>1. TAKE q \in others
    <2>2. CASE q \in requests \ {r}
        BY <2>2
    <2>3. CASE q = [r EXCEPT !.heard = FALSE]
        <3>1. q.inv = r.inv /\ q.id = r.id
            BY <1>1, <2>3 DEF Request
        <3>2. QED
            BY <3>1
    <2>4. QED
        BY <2>2, <2>3
<1> DEFINE retry == [inv |-> r.inv, id |-> call[r.inv].id, splits |-> FALSE, heard |-> TRUE]
<1>5. CASE /\ Retries(answer)
           /\ call' = [call EXCEPT ![r.inv] = [@ EXCEPT !.pc = "retry"]]
           /\ requests' = others \cup {retry}
    <2>1. answer = "notFound"
        BY <1>5 DEF Retries
    <2>2. call' \in [Invoice -> Call]
        <3>1. [call[r.inv] EXCEPT !.pc = "retry"] \in Call
            BY <1>1 DEF Call
        <3>2. QED
            BY <1>1, <1>5, <3>1
    <2>3. /\ retry \in Request /\ retry.inv = r.inv /\ retry.id = r.id
          /\ ~ retry.splits /\ retry.heard
        BY <1>1, <1>2 DEF Request
    <2>4. /\ call'[r.inv].pc = "retry" /\ call'[r.inv].id = r.id
          /\ \A i \in Invoice \ {r.inv} : call'[i] = call[i]
        BY <1>1, <1>2, <1>5 DEF Call
    <2>5. \A q \in requests' : q \in others \/ q = retry
        BY <1>5
    <2> HIDE DEF retry
    <2>6. requests' \subseteq Request
        BY <1>4, <2>3, <2>5
    <2>7. OneCaller'
        <3>1. ASSUME NEW p \in requests', NEW q \in requests', p.heard, q.heard,
                     p.inv = q.inv
              PROVE  p = q
            <4>1. CASE p = retry /\ q = retry
                BY <4>1
            <4>2. CASE p \in others /\ q \in others
                BY <1>4, <3>1, <4>2 DEF OneCaller
            <4>3. CASE (p \in others /\ q = retry) \/ (p = retry /\ q \in others)
                BY <1>3, <1>4, <2>3, <3>1, <4>3
            <4>4. QED
                BY <2>5, <4>1, <4>2, <4>3
        <3>2. QED
            BY <3>1 DEF OneCaller
    <2>8. RequestsSound'
        <3>1. ASSUME NEW q \in requests' PROVE RequestSound(q)'
            <4>1. CASE q = retry
                BY <2>1, <2>3, <2>4, <4>1 DEF RequestSound
            <4>2. CASE q \in others
                <5>1. q.heard => /\ q \in requests /\ q.inv \in Invoice \ {r.inv}
                                 /\ RequestSound(q)
                    BY <1>3, <1>4, <4>2 DEF RequestsSound, Request
                <5>2. QED
                    BY <1>4, <2>4, <4>2, <5>1 DEF RequestSound
            <4>3. QED
                BY <2>5, <4>1, <4>2
        <3>2. QED
            BY <3>1 DEF RequestsSound
    <2>9. AllReleased'
        <3>1. Released(r.inv)'
            BY <2>4 DEF Released
        <3>2. ASSUME NEW i \in Invoice \ {r.inv} PROVE Released(i)'
            BY <2>4, ReleasedStays DEF AllReleased
        <3>3. QED
            BY <3>1, <3>2 DEF AllReleased
    <2>10. \A q \in requests' : \E p \in requests : p.inv = q.inv /\ p.id = q.id
        BY <1>4a, <2>3, <2>5
    <2>11. QED
        BY <2>2, <2>6, <2>7, <2>8, <2>9, <2>10
<1> DEFINE pc == IF answer = "ok" THEN "released" ELSE "failed"
<1>6. CASE /\ call' = [call EXCEPT ![r.inv] = [@ EXCEPT !.pc = pc]]
           /\ requests' = others
    <2>1. call' \in [Invoice -> Call]
        <3>1. [call[r.inv] EXCEPT !.pc = pc] \in Call
            BY <1>1 DEF Call
        <3>2. QED
            BY <1>1, <1>6, <3>1
    <2>2. /\ call'[r.inv].pc = pc /\ call'[r.inv].id = r.id
          /\ \A i \in Invoice \ {r.inv} : call'[i] = call[i]
        BY <1>1, <1>2, <1>6 DEF Call
    <2>3. OneCaller'
        BY <1>4, <1>6 DEF OneCaller
    <2>4. RequestsSound'
        <3>1. ASSUME NEW q \in others PROVE RequestSound(q)'
            <4>1. q.heard => /\ q \in requests /\ q.inv \in Invoice \ {r.inv}
                             /\ RequestSound(q)
                BY <1>3, <1>4 DEF RequestsSound, Request
            <4>2. QED
                BY <1>4, <2>2, <4>1 DEF RequestSound
        <3>2. QED
            BY <1>6, <3>1 DEF RequestsSound
    <2>5. AllReleased'
        <3>1. Released(r.inv)'
            BY <2>2 DEF Released
        <3>2. ASSUME NEW i \in Invoice \ {r.inv} PROVE Released(i)'
            BY <2>2, ReleasedStays DEF AllReleased
        <3>3. QED
            BY <3>1, <3>2 DEF AllReleased
    <2>6. QED
        BY <1>4, <1>6, <1>4a, <2>1, <2>3, <2>4, <2>5
<1>7. QED
    BY <1>5, <1>6 DEF HandleRelease

\* An answer is handled by the caller, or nobody hears it.
LEMMA AnsweredKeeps ==
    ASSUME TypeOK, Kept, OneCaller, RequestsSound, AllReleased,
           NEW r \in requests, NEW answer, Answered(r, answer),
           answer = "notFound" => r.inv \in refused',
           answer = "ok" => \E c \in Checkout : /\ r.id \in {c, Other}
                                                /\ checkouts'[c].inv = r.inv
                                                /\ checkouts'[c].at = "paidOut"
    PROVE  /\ call' \in [Invoice -> Call] /\ requests' \subseteq Request
           /\ OneCaller' /\ RequestsSound' /\ AllReleased'
           /\ \A q \in requests' : \E p \in requests : p.inv = q.inv /\ p.id = q.id
<1>1. CASE r.heard /\ HandleRelease(r.inv, answer, requests \ {r})
    <2>1. \A q \in requests \ {r} : q \in requests \ {r} \/ q = [r EXCEPT !.heard = FALSE]
        OBVIOUS
    <2>2. QED
        BY <1>1, <2>1, HandleReleaseKeeps
<1>2. CASE requests' = requests \ {r} /\ call' = call
    <2>1. OneCaller'
        BY <1>2 DEF OneCaller
    <2>2. RequestsSound'
        BY <1>2 DEF RequestsSound, RequestSound, Kept
    <2>3. AllReleased'
        BY <1>2, ReleasedStays DEF AllReleased
    <2>4. QED
        BY <1>2, <2>1, <2>2, <2>3 DEF TypeOK
<1>3. QED
    BY <1>1, <1>2 DEF Answered

LEMMA DokuReleasesKeeps ==
    ASSUME IInv, NEW r \in requests, DokuReleases(r)
    PROVE  IInv'
<1>1. TypeOK /\ CheckoutsSound /\ IdsSound /\ OneCaller /\ RequestsSound /\ AllDue
         /\ AllReleased /\ AllOnTheirWay
    BY DEF IInv
<1>2. UNCHANGED <<stored, posts, row, lost>>
    BY DEF DokuReleases, Answered
<1>3. r.inv \in Invoice /\ r.splits \in BOOLEAN
    BY <1>1 DEF TypeOK, Request
<1>4. CASE /\ Answered(r, "ok")
           /\ \E c \in Checkout :
                  /\ r.id \in {c, Other} /\ checkouts[c].inv = r.inv /\ checkouts[c].at = "held"
                  /\ checkouts' = [checkouts EXCEPT ![c].at = "paidOut", ![c].split = r.splits]
           /\ UNCHANGED refused
    <2>1. PICK c \in Checkout :
              /\ r.id \in {c, Other} /\ checkouts[c].inv = r.inv /\ checkouts[c].at = "held"
              /\ checkouts' = [checkouts EXCEPT
                     ![c] = [@ EXCEPT !.at = "paidOut", !.split = r.splits]]
        BY <1>1, <1>4 DEF TypeOK
    <2> DEFINE paid == [checkouts[c] EXCEPT !.at = "paidOut", !.split = r.splits]
    <2>2. checkouts[c] \in CheckoutState /\ checkouts' = [checkouts EXCEPT ![c] = paid]
        BY <1>1, <1>4, <2>1 DEF TypeOK
    <2>3. /\ paid \in CheckoutState
          /\ paid.inv = checkouts[c].inv /\ paid.at = "paidOut" /\ paid.split = r.splits
          /\ paid.hook = checkouts[c].hook
        BY <1>3, <2>2 DEF CheckoutState
    <2> HIDE DEF paid
    <2>4. /\ checkouts' \in [Checkout -> CheckoutState]
          /\ checkouts'[c] = paid
          /\ \A d \in Checkout \ {c} : checkouts'[d] = checkouts[d]
        BY <1>1, <2>2, <2>3 DEF TypeOK
    <2>5. Kept
        BY <1>2, <1>4, <2>1, <2>3, <2>4 DEF Kept
    <2>6. /\ call' \in [Invoice -> Call] /\ requests' \subseteq Request
          /\ OneCaller' /\ RequestsSound' /\ AllReleased'
          /\ \A q \in requests' : \E p \in requests : p.inv = q.inv /\ p.id = q.id
        <3>1. checkouts'[c].inv = r.inv /\ checkouts'[c].at = "paidOut"
            BY <2>1, <2>3, <2>4
        <3>2. \E d \in Checkout : /\ r.id \in {d, Other} /\ checkouts'[d].inv = r.inv
                                  /\ checkouts'[d].at = "paidOut"
            BY <2>1, <3>1
        <3>3. QED
            BY <1>1, <1>4, <2>5, <3>2, AnsweredKeeps
    <2>6a. AllDue'
        <3>1. row'[checkouts'[c].inv].told
            BY <1>1, <1>2, <2>1, <2>3, <2>4 DEF AllDue
        <3>2. \A d \in Checkout : checkouts'[d].at = "paidOut" =>
                  checkouts[d].at = "paidOut" \/ row'[checkouts'[d].inv].told
            BY <2>4, <3>1
        <3>3. QED
            BY <1>1, <2>5, <2>6, <3>2, DueStays
    <2>7. TypeOK'
        BY <1>1, <1>2, <1>4, <2>4, <2>6 DEF TypeOK
    <2>8. CheckoutsSound'
        <3>1. CheckoutSound(c)'
            <4>1. Accounts /\ ~ r.splits => r.inv \in refused'
                BY <1>1, <1>4 DEF RequestsSound, RequestSound
            <4>2. checkouts'[c].inv = r.inv /\ r.inv # None
                BY <1>3, <1>4, <2>1, <2>3, <2>4
            <4>3. QED
                BY <2>3, <2>4, <4>1, <4>2 DEF CheckoutSound
        <3>2. ASSUME NEW d \in Checkout \ {c} PROVE CheckoutSound(d)'
            <4>1. CheckoutSound(d) /\ checkouts'[d] = checkouts[d] /\ refused' = refused
                BY <1>1, <1>4, <2>4 DEF CheckoutsSound
            <4>2. QED
                BY <4>1, CheckoutStays
        <3>3. QED
            BY <3>1, <3>2 DEF CheckoutsSound
    <2>9. IdsSound'
        BY <1>1, <1>2, <2>5, IdsStay
    <2>10. AllOnTheirWay'
        <3>1. OnItsWay(c)'
            BY <2>3, <2>4 DEF OnItsWay
        <3>2. ASSUME NEW d \in Checkout \ {c} PROVE OnItsWay(d)'
            <4>1. OnItsWay(d) /\ checkouts'[d] = checkouts[d]
                BY <1>1, <2>4 DEF AllOnTheirWay
            <4>2. QED
                BY <1>1, <1>2, <2>5, <4>1, WayStays
        <3>3. QED
            BY <1>1, <1>2, <3>1, <3>2 DEF AllOnTheirWay
    <2>11. QED
        BY <2>6, <2>7, <2>8, <2>9, <2>10, <2>6a DEF IInv
<1>5. CASE /\ \/ Answered(r, "notFound") /\ refused' = refused \cup {r.inv}
              \/ Answered(r, "error") /\ refused' = refused
           /\ UNCHANGED checkouts
    <2>1. Kept /\ CheckoutsSound' /\ IdsSound' /\ AllOnTheirWay'
        BY <1>1, <1>2, <1>5, PaymentsStay
    <2>2. /\ call' \in [Invoice -> Call] /\ requests' \subseteq Request
          /\ OneCaller' /\ RequestsSound' /\ AllReleased'
          /\ \A q \in requests' : \E p \in requests : p.inv = q.inv /\ p.id = q.id
        <3>1. CASE Answered(r, "notFound") /\ refused' = refused \cup {r.inv}
            <4>1. r.inv \in refused'
                BY <3>1
            <4>2. QED
                BY <1>1, <2>1, <3>1, <4>1, AnsweredKeeps
        <3>2. CASE Answered(r, "error") /\ refused' = refused
            BY <1>1, <2>1, <3>2, AnsweredKeeps
        <3>3. QED
            BY <1>5, <3>1, <3>2
    <2>3. TypeOK'
        BY <1>1, <1>2, <1>3, <1>5, <2>2 DEF TypeOK
    <2>4. AllDue'
        BY <1>1, <1>5, <2>1, <2>2, DueStays
    <2>5. QED
        BY <2>1, <2>2, <2>3, <2>4 DEF IInv
<1>6. QED
    BY <1>4, <1>5 DEF DokuReleases

LEMMA ReleaseTimesOutKeeps ==
    ASSUME IInv, NEW r \in requests, ReleaseTimesOut(r)
    PROVE  IInv'
<1>1. TypeOK /\ CheckoutsSound /\ IdsSound /\ OneCaller /\ RequestsSound /\ AllDue
         /\ AllReleased /\ AllOnTheirWay
    BY DEF IInv
<1> DEFINE others == (requests \ {r}) \cup {[r EXCEPT !.heard = FALSE]}
<1>2. /\ r.heard /\ HandleRelease(r.inv, "timeout", others)
      /\ UNCHANGED <<checkouts, stored, posts, row, lost, refused>>
    BY DEF ReleaseTimesOut
<1>3. \A q \in others : q \in requests \ {r} \/ q = [r EXCEPT !.heard = FALSE]
    OBVIOUS
<1> HIDE DEF others
<1>4. Kept /\ CheckoutsSound' /\ IdsSound' /\ AllOnTheirWay'
    BY <1>1, <1>2, PaymentsStay
<1>5. /\ call' \in [Invoice -> Call] /\ requests' \subseteq Request
      /\ OneCaller' /\ RequestsSound' /\ AllReleased'
      /\ \A q \in requests' : \E p \in requests : p.inv = q.inv /\ p.id = q.id
    <2>1. "timeout" # "notFound" /\ "timeout" # "ok"
        OBVIOUS
    <2>2. QED
        BY <1>1, <1>2, <1>3, <1>4, <2>1, HandleReleaseKeeps
<1>6. TypeOK'
    BY <1>1, <1>2, <1>5 DEF TypeOK
<1>7. AllDue'
    BY <1>1, <1>2, <1>4, <1>5, DueStays
<1>8. QED
    BY <1>4, <1>5, <1>6, <1>7 DEF IInv

--------------------------------------------------------------------------------
(* The invariant *)

LEMMA InitSound == Init => IInv
<1> SUFFICES ASSUME Init PROVE IInv
    OBVIOUS
<1>1. TypeOK
    BY DEF Init, TypeOK, CheckoutState, Row, Call, Idle, RequestId
<1>2. CheckoutsSound
    BY DEF Init, CheckoutsSound, CheckoutSound
<1>3. IdsSound
    BY DEF Init, IdsSound, Names
<1>4. OneCaller /\ RequestsSound /\ AllDue /\ AllReleased
    BY DEF Init, OneCaller, RequestsSound, AllDue, AllReleased, Released, Idle
<1>5. AllOnTheirWay
    BY DEF Init, AllOnTheirWay, OnItsWay
<1>6. QED
    BY <1>1, <1>2, <1>3, <1>4, <1>5 DEF IInv

LEMMA StepSound == IInv /\ [Next]_vars => IInv'
<1> SUFFICES ASSUME IInv, [Next]_vars PROVE IInv'
    OBVIOUS
<1>1. ASSUME NEW i \in Invoice, NEW c \in Checkout, OnInit(i, c) PROVE IInv'
    BY <1>1, OnInitKeeps
<1>2. ASSUME NEW i \in Invoice, HandleNotifyDirect(i) PROVE IInv'
    BY <1>2, HandleNotifyDirectKeeps
<1>3. ASSUME NEW i \in Invoice, Confirm(i) PROVE IInv'
    BY <1>3, ConfirmKeeps
<1>4. ASSUME NEW i \in Invoice, HandleReconcile(i) PROVE IInv'
    BY <1>4, HandleReconcileKeeps
<1>5. ASSUME NEW i \in Invoice, ReconcileSettle(i) PROVE IInv'
    BY <1>5, ReconcileSettleKeeps
<1>6. ASSUME NEW c \in Checkout, CreateCheckout(c) \/ CreateCheckoutFails(c) PROVE IInv'
    BY <1>6, CreateCheckoutKeeps
<1>7. ASSUME NEW c \in Checkout, Pay(c) PROVE IInv'
    BY <1>7, PayKeeps
<1>7a. ASSUME NEW i \in Invoice, OtherNotified(i) PROVE IInv'
    BY <1>7a, OtherNotifiedKeeps
<1>8. ASSUME NEW c \in Checkout, PaymentNotified(c) \/ DokuWebhookDropped(c) PROVE IInv'
    BY <1>8, HookKeeps
<1>9. ASSUME NEW p \in posts, NotifyBPP(p) PROVE IInv'
    BY <1>9, NotifyBPPKeeps
<1>10. ASSUME NEW p \in posts, NotifyBPPFails(p) PROVE IInv'
    BY <1>10, NotifyBPPFailsKeeps
<1>11. ASSUME NEW r \in requests, DokuReleases(r) PROVE IInv'
    BY <1>11, DokuReleasesKeeps
<1>12. ASSUME NEW r \in requests, ReleaseTimesOut(r) PROVE IInv'
    BY <1>12, ReleaseTimesOutKeeps
<1>13. CASE UNCHANGED vars
    <2>1. TypeOK' /\ CheckoutsSound' /\ IdsSound'
        BY <1>13 DEF vars, IInv, TypeOK, CheckoutsSound, CheckoutSound, IdsSound, Names
    <2>2. OneCaller' /\ RequestsSound' /\ AllDue' /\ AllReleased' /\ AllOnTheirWay'
        BY <1>13 DEF vars, IInv, OneCaller, RequestsSound, RequestSound, AllDue, Names,
                     AllReleased, Released, AllOnTheirWay, OnItsWay
    <2>3. QED
        BY <2>1, <2>2 DEF IInv
<1>14. QED
    BY <1>1, <1>2, <1>3, <1>4, <1>5, <1>6, <1>7, <1>8, <1>9, <1>10, <1>11, <1>12, <1>13,
       <1>7a DEF Next

LEMMA SpecSound == Spec => []IInv
<1>1. Init => IInv
    BY InitSound
<1>2. IInv /\ [Next]_vars => IInv'
    BY StepSound
<1>3. QED
    BY <1>1, <1>2, PTL DEF Spec

--------------------------------------------------------------------------------
(* Theorems *)

\* The variables keep their types: in particular a Request-Id is never stored or
\* reported in the place of an invoice.
THEOREM TypeCorrect == Spec => []TypeOK
<1>1. IInv => TypeOK
    BY DEF IInv
<1>2. QED
    BY <1>1, SpecSound, PTL

\* A release is asked for and money goes out only for an invoice whose policy has
\* been issued, and a checkout that a request names is of the invoice it names:
\* however on_init, the notifications, payment-received, reconciles and retries
\* follow each other.
THEOREM ReleaseDue == Spec => []ReleaseIsDue
<1>1. IInv => ReleaseIsDue
    BY DEF IInv, AllDue, Names, ReleaseIsDue
<1>2. QED
    BY <1>1, SpecSound, PTL

\* handleRelease reports only what DOKU has released, and money goes out without
\* the splits only after DOKU has refused them: for any number of releases, late
\* answers and requests carried out after their caller has given up.
THEOREM ReleaseSafe == Spec => []ReleaseDoesWhatItSays
<1>1. IInv => ReleaseDoesWhatItSays
    <2>1. SUFFICES ASSUME IInv PROVE ReleaseDoesWhatItSays
        OBVIOUS
    <2>2. AllReleased /\ CheckoutsSound
        BY <2>1 DEF IInv
    <2>3. QED
        BY <2>2 DEF AllReleased, Released, CheckoutsSound, CheckoutSound, ReleaseDoesWhatItSays
<1>2. QED
    BY <1>1, SpecSound, PTL

\* A payment held at DOKU is never forgotten: the webhook is still to come, or a
\* notifyBPP is under way, or the insurer has recorded a payment of the invoice,
\* or a report got lost.  With the fairness of Spec the first two come to an end,
\* which is PaymentReachesInsurer.
THEOREM PaymentOnItsWay == Spec => [](\A c \in Checkout : OnItsWay(c))
<1>1. IInv => \A c \in Checkout : OnItsWay(c)
    BY DEF IInv, AllOnTheirWay
<1>2. QED
    BY <1>1, SpecSound, PTL
=================================================================================
