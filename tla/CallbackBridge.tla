----------------------------- MODULE CallbackBridge -----------------------------
(***************************************************************************)
(* The buyer's backend (src/bap-application) makes the asynchronous Beckn  *)
(* protocol look synchronous to the frontend: forwardAndWait registers a   *)
(* pending key in Redis, forwards the request, subscribes to a channel and *)
(* waits; the webhook of the answer checks the key, publishes on the       *)
(* channel and deletes the key.  Keys and channels are named by route and  *)
(* transaction only (a slot), so calls of one slot share them.             *)
(*                                                                         *)
(* One action is one Redis command, one HTTP exchange or one tick of the   *)
(* clock that the key's expiry and the deadlines of a call run on.         *)
(***************************************************************************)
EXTENDS Integers

CONSTANTS
    Request,      \* calls of forwardAndWait
    Slot,         \* pairs of a route and a transaction id
    None,         \* no answer; not a call
    Failed,       \* outcome of a failed call; not a call
    Ttl,          \* ticks a pending key lives after Register (35 s)
    Timeout       \* ticks Wait waits (30 s)

ASSUME ConstantsAssumption ==
    /\ None \notin Request /\ Failed \notin Request /\ None # Failed
    /\ Ttl \in Nat \ {0} /\ Timeout \in Nat

VARIABLES
    slot,         \* the route and transaction of each call, as its payload says
    call,         \* the calls, by request
    key,          \* ticks the pending key of a slot has left, 0 when there is none
    answer        \* the webhook with the insurer's answer to a call, by request

vars == <<slot, call, key, answer>>

--------------------------------------------------------------------------------
(* Types *)

\* refused: Register failed, nothing went out.  sending: the POST is out.  sent:
\* acknowledged, not yet subscribed.  waiting: subscribed.
Active == {"sending", "sent", "waiting"}
Ended == {"answered", "timeout", "failed"}

\* left counts the ticks until Wait's deadline, inbox is the first message of the
\* subscription.  History: forward counts the ticks from Register to Subscribe, up
\* to Ttl; missed, something was published on the channel in that time.
Call == [pc: {"idle", "refused"} \cup Active \cup Ended,
         left: 0..Timeout, forward: 0..Ttl, inbox: Request \cup {None}, missed: BOOLEAN]

TypeOK ==
    /\ slot \in [Request -> Slot]
    /\ call \in [Request -> Call]
    /\ key \in [Slot -> 0..Ttl]
    /\ answer \in [Request -> {"none", "arrived", "checked", "published", "over"}]

\* A call to which nothing was published.
Fresh(pc) == [pc |-> pc, left |-> 0, forward |-> 0, inbox |-> None, missed |-> FALSE]

Init ==
    /\ slot \in [Request -> Slot]
    /\ call = [r \in Request |-> Fresh("idle")]
    /\ key = [s \in Slot |-> 0]
    /\ answer = [r \in Request |-> "none"]

--------------------------------------------------------------------------------
(* forwardAndWait *)

\* A call that ends keeps nothing but its outcome.
Fail(r, pc) == call' = [call EXCEPT ![r] = Fresh(pc)]

\* Variant: the key lives no longer than the wait itself.
RegisterShort(r) ==
    /\ call[r].pc = "idle"
    /\ call' = [call EXCEPT ![r] = Fresh("sending")]
    /\ key' = [key EXCEPT ![slot[r]] = Timeout]
    /\ UNCHANGED <<slot, answer>>

\* SET with the TTL: replaces the key another call of the slot may have left.
\* Then the POST to the adapter goes out.
Register(r) ==
    /\ call[r].pc = "idle"
    /\ call' = [call EXCEPT ![r] = Fresh("sending")]
    /\ key' = [key EXCEPT ![slot[r]] = Ttl]
    /\ UNCHANGED <<slot, answer>>

RegisterFails(r) ==
    /\ call[r].pc = "idle"
    /\ Fail(r, "refused")
    /\ UNCHANGED <<slot, key, answer>>

\* callOnixCaller: the adapter acknowledges, or the call ends with an error (the
\* request may have reached the insurer all the same).  The key stays.  http.Post
\* sets no deadline; how long the exchange takes is up to the adapter.
Forward(r) ==
    /\ call[r].pc = "sending"
    /\ call' = [call EXCEPT ![r].pc = "sent"] \/ Fail(r, "failed")
    /\ UNCHANGED <<slot, key, answer>>

\* Variant: Wait is given the time that the key lives.
SubscribeTtl(r) ==
    /\ call[r].pc = "sent"
    /\ call' = [call EXCEPT ![r].pc = "waiting", ![r].left = Ttl]
    /\ UNCHANGED <<slot, key, answer>>

\* Wait: from here on the channel's messages reach this call.
Subscribe(r) ==
    /\ call[r].pc = "sent"
    /\ call' = [call EXCEPT ![r].pc = "waiting", ![r].left = Timeout]
    /\ UNCHANGED <<slot, key, answer>>

\* The first case of Wait's select: a message.
Receive(r) ==
    /\ call[r].pc = "waiting" /\ call[r].inbox # None
    /\ call' = [call EXCEPT ![r] =
           [pc |-> "answered", left |-> 0, forward |-> 0, inbox |-> @.inbox, missed |-> FALSE]]
    /\ UNCHANGED <<slot, key, answer>>

\* Variant: a call gives up only while its key is still there.
TimeOutWithKey(r) ==
    /\ call[r].pc = "waiting" /\ call[r].left = 0 /\ key[slot[r]] > 0
    /\ Fail(r, "timeout")
    /\ UNCHANGED <<slot, key, answer>>

\* The second case: the deadline.  When both are ready either is taken.
TimeOut(r) ==
    /\ call[r].pc = "waiting" /\ call[r].left = 0
    /\ Fail(r, "timeout")
    /\ UNCHANGED <<slot, key, answer>>

\* The frontend's connection goes away: the context of Wait is done.
HangUp(r) ==
    /\ call[r].pc \in {"sent", "waiting"}
    /\ Fail(r, "failed")
    /\ UNCHANGED <<slot, key, answer>>

--------------------------------------------------------------------------------
(* HandleCallback and Publish *)

\* The webhook of an answer: as soon as the request is out, even before it is
\* acknowledged, or after the call has ended, or never.
Arrive(a) ==
    /\ answer[a] = "none" /\ call[a].pc \in Active \cup Ended
    /\ answer' = [answer EXCEPT ![a] = "arrived"]
    /\ UNCHANGED <<slot, call, key>>

\* EXISTS: an answer without a pending key is dropped.
Check(a) ==
    /\ answer[a] = "arrived"
    /\ answer' = [answer EXCEPT ![a] = IF key[slot[a]] > 0 THEN "checked" ELSE "over"]
    /\ UNCHANGED <<slot, call, key>>

\* Variant: the channel is named by the message id as well, which the answer does
\* not share with its request.
PublishByMessage(a) ==
    /\ answer[a] = "checked"
    /\ answer' = [answer EXCEPT ![a] = "published"]
    /\ UNCHANGED <<slot, call, key>>

\* Variant: every subscriber gets the message, whatever its channel.
PublishToAll(a) ==
    /\ answer[a] = "checked"
    /\ answer' = [answer EXCEPT ![a] = "published"]
    /\ call' = [r \in Request |->
           IF call[r].pc = "waiting" /\ call[r].inbox = None
           THEN [call[r] EXCEPT !.inbox = a] ELSE call[r]]
    /\ UNCHANGED <<slot, key>>

\* PUBLISH: every call subscribed to the channel gets the message, whichever
\* call it answers; a call that is registered but not subscribed does not.
Publish(a) ==
    /\ answer[a] = "checked"
    /\ answer' = [answer EXCEPT ![a] = "published"]
    /\ call' = [r \in Request |->
           IF slot[r] # slot[a] THEN call[r]
           ELSE IF call[r].pc = "waiting" /\ call[r].inbox = None
                THEN [call[r] EXCEPT !.inbox = a]
           ELSE IF call[r].pc \in {"sending", "sent"}
                THEN [call[r] EXCEPT !.missed = TRUE]
           ELSE call[r]]
    /\ UNCHANGED <<slot, key>>

\* DEL: the key of the slot, even when another call has registered it since.
Delete(a) ==
    /\ answer[a] = "published"
    /\ answer' = [answer EXCEPT ![a] = "over"]
    /\ key' = [key EXCEPT ![slot[a]] = 0]
    /\ UNCHANGED <<slot, call>>

\* A Redis command fails, or the adapter has closed the webhook's connection and
\* with it the context of the remaining commands.
Abandon(a) ==
    /\ answer[a] \in {"arrived", "checked", "published"}
    /\ answer' = [answer EXCEPT ![a] = "over"]
    /\ UNCHANGED <<slot, call, key>>

--------------------------------------------------------------------------------
(* Time and restarts *)

\* Variant: SET without a TTL.
KeyWithoutTtl(n) == n

Decrease(n) == IF n > 0 THEN n - 1 ELSE 0

Increase(n) == IF n < Ttl THEN n + 1 ELSE n

\* A tick passes when no call has reached Wait's deadline: a timer that is due
\* fires first.  A call that is being forwarded holds no tick up.
Tick ==
    /\ \A r \in Request : call[r].pc = "waiting" => call[r].left > 0
    /\ \/ \E s \in Slot : key[s] > 0
       \/ \E r \in Request : call[r].pc \in Active
    /\ key' = [s \in Slot |-> Decrease(key[s])]
    /\ call' = [r \in Request |->
           CASE call[r].pc \in {"sending", "sent"} ->
                    [call[r] EXCEPT !.forward = Increase(@)]
             [] call[r].pc = "waiting" -> [call[r] EXCEPT !.left = @ - 1]
             [] OTHER -> call[r]]
    /\ UNCHANGED <<slot, answer>>

\* The backend is restarted: its calls and webhooks end, Redis keeps the keys.
Restart ==
    /\ \/ \E r \in Request : call[r].pc \in Active
       \/ \E a \in Request : answer[a] \in {"arrived", "checked", "published"}
    /\ call' = [r \in Request |->
           IF call[r].pc \in Active THEN Fresh("failed") ELSE call[r]]
    /\ answer' = [a \in Request |->
           IF answer[a] \in {"arrived", "checked", "published"} THEN "over" ELSE answer[a]]
    /\ UNCHANGED <<slot, key>>

--------------------------------------------------------------------------------

CallStep(r) ==
    \/ Register(r)
    \/ RegisterFails(r)
    \/ Forward(r)
    \/ Subscribe(r)
    \/ Receive(r)
    \/ TimeOut(r)
    \/ HangUp(r)

AnswerStep(a) ==
    \/ Arrive(a)
    \/ Check(a)
    \/ Publish(a)
    \/ Delete(a)
    \/ Abandon(a)

Next ==
    \/ \E r \in Request : CallStep(r)
    \/ \E a \in Request : AnswerStep(a)
    \/ Tick
    \/ Restart

\* Time passes, an HTTP exchange that was started ends, a goroutine that can run
\* runs.  Nothing makes the frontend call or the insurer answer.
Fairness ==
    /\ WF_vars(Tick)
    /\ \A r \in Request : WF_vars(Forward(r) \/ Subscribe(r) \/ Receive(r) \/ TimeOut(r))

SafeSpec == Init /\ [][Next]_vars
Spec == SafeSpec /\ Fairness

--------------------------------------------------------------------------------
(* Properties *)

\* No other call has used the slot of r.
Alone(r) == \A q \in Request \ {r} :
    slot[q] = slot[r] => call[q].pc \in {"idle", "refused"}

\* The pending key of a call that shares its slot with no other outlives the
\* call's wait when the forwarding took no longer than the margin between the two
\* durations (35 s - 30 s); when it took longer, the key expires as much before the
\* end of the wait.  Until then the answer finds the key, as long as nothing was
\* published for the call.
KeyCoversWait ==
    \A r \in Request :
        /\ Alone(r)
        /\ call[r].pc = "waiting"
        /\ call[r].left > call[r].forward - (Ttl - Timeout)
        /\ call[r].left > 0
        /\ call[r].inbox = None
        /\ ~call[r].missed
        => key[slot[r]] > 0

\* When the answer to such a call has been published, the call has the message
\* already or was not subscribed yet: the DEL that follows strands nobody else.
PublishedMeansDelivered ==
    \A r \in Request :
        /\ Alone(r)
        /\ answer[r] = "published"
        /\ call[r].pc = "waiting"
        => call[r].inbox = r \/ call[r].missed

\* Every call whose request went out ends: with an answer, at its deadline, or
\* with an error, even when the answer is lost.
EveryCallReturns ==
    \A r \in Request : call[r].pc = "sending" ~> call[r].pc \in Ended

\* No pending key stays forever: neither a call that gave up nor a webhook that
\* died between PUBLISH and DEL leaks one.
NoKeyForever ==
    \A s \in Slot : key[s] > 0 ~> key[s] = 0

\* The abstract view of a call.
RR == INSTANCE RequestReply WITH
    Open <- None,
    subject <- slot,
    asked <- {r \in Request : call[r].pc \in Active \cup Ended},
    sent <- {r \in Request : answer[r] # "none"},
    outcome <- [r \in Request |->
                   CASE call[r].pc = "answered" -> call[r].inbox
                     [] call[r].pc \in {"timeout", "failed"} -> Failed
                     [] OTHER -> None]

\* A call ends once, with an answer that the insurer sent about its own route and
\* transaction, or with an error.
ImplementsRequestReply == RR!Spec

--------------------------------------------------------------------------------
(* A statement of the repository that the bridge does not keep *)

\* "Must be called before forwarding the request to onix-bap so that the
\* subscriber is ready when the on_* webhook arrives" (callback.go:42-43):
\* nothing is published on the channel of a call before it subscribes.
SubscriberReady == \A r \in Request : ~call[r].missed
=================================================================================
