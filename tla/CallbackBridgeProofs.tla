-------------------------- MODULE CallbackBridgeProofs --------------------------
(***************************************************************************)
(* Theorems about CallbackBridge for any number of calls and slots and any *)
(* durations, however long a forward takes.  They use no fairness.         *)
(***************************************************************************)
EXTENDS CallbackBridge, TLAPS

(***************************************************************************)
(* The strengthening.  While nothing was published for a call that shares  *)
(* its slot with no other, its key has the ticks left that forwarding and  *)
(* waiting have not used up yet.  That the key is not deleted under it     *)
(* needs that a webhook past its PUBLISH has left a message or a miss, and *)
(* that a webhook only exists for a call that went out.                    *)
(***************************************************************************)
Spare(r) ==
    Ttl - call[r].forward - (IF call[r].pc = "waiting" THEN Timeout - call[r].left ELSE 0)

KeyLasts(r) ==
    Alone(r) /\ call[r].pc \in Active /\ call[r].inbox = None /\ ~call[r].missed
        => key[slot[r]] >= Spare(r)

Noticed(r) ==
    answer[r] = "published" /\ call[r].pc \in Active => call[r].inbox # None \/ call[r].missed

InboxSound(r) ==
    call[r].inbox # None => slot[call[r].inbox] = slot[r] /\ answer[call[r].inbox] # "none"

OnlyAsked(r) == call[r].pc \in {"idle", "refused"} => answer[r] = "none"

IInv ==
    /\ TypeOK
    /\ \A r \in Request : KeyLasts(r) /\ Noticed(r) /\ InboxSound(r) /\ OnlyAsked(r)

USE ConstantsAssumption DEF Active, Ended, Call

--------------------------------------------------------------------------------
(* Lemmas *)

\* A call that was made stays made, so a slot once shared stays shared.
LEMMA AloneBefore ==
    ASSUME \A q \in Request : call'[q].pc \in {"idle", "refused"} =>
                                  call[q].pc \in {"idle", "refused"},
           slot' = slot, NEW r \in Request, Alone(r)'
    PROVE  Alone(r)
BY DEF Alone

\* A call that is fresh or ended satisfies the parts about active calls.
LEMMA InitIInv == Init => IInv
BY DEF Init, IInv, TypeOK, Fresh, KeyLasts, Noticed, InboxSound, OnlyAsked

\* Steps of one call: what must be true of its new record c and its key.
LEMMA CallChange ==
    ASSUME IInv, NEW r \in Request, NEW c \in Call,
           call' = [call EXCEPT ![r] = c],
           UNCHANGED <<slot, answer>>,
           key' \in [Slot -> 0..Ttl],
           \A s \in Slot \ {slot[r]} : key'[s] = key[s],
           c.pc = "sending" \/ key' = key,
           c.pc \in {"idle", "refused"} => call[r].pc \in {"idle", "refused"},
           c.pc \in Active /\ Alone(r) /\ c.inbox = None /\ ~c.missed
               => key'[slot[r]] >= Spare(r)',
           c.pc \in Active /\ answer[r] = "published" => c.inbox # None \/ c.missed,
           c.inbox \in {None, call[r].inbox},
           call[r].pc = "idle" => c.pc \in {"sending", "refused"}
    PROVE  IInv'
<1>1. /\ call'[r] = c
      /\ \A q \in Request \ {r} : call'[q] = call[q]
  BY DEF IInv, TypeOK
<1>2. TypeOK'
  BY DEF IInv, TypeOK
<1>3. \A q \in Request : call'[q].pc \in {"idle", "refused"} => call[q].pc \in {"idle", "refused"}
  BY <1>1
<1>4. ASSUME NEW q \in Request PROVE KeyLasts(q)'
  <2>1. CASE q = r
    BY <1>1, <1>3, <2>1, AloneBefore DEF KeyLasts
  <2>2. CASE q # r
    <3> SUFFICES ASSUME Alone(q)', call[q].pc \in Active, call[q].inbox = None, ~call[q].missed
                 PROVE  key'[slot[q]] >= Spare(q)'
      BY <1>1, <2>2 DEF KeyLasts
    <3>1. Alone(q)
      BY <1>3, AloneBefore
    <3>2. key[slot[q]] >= Spare(q)
      BY <3>1 DEF IInv, KeyLasts
    <3>3. Spare(q)' = Spare(q)
      BY <1>1, <2>2 DEF Spare
    <3>4. CASE slot[q] = slot[r]
      <4>1. call'[r].pc \in {"idle", "refused"}
        BY <2>2, <3>4 DEF Alone
      <4>2. key' = key
        BY <1>1, <4>1
      <4> QED
        BY <3>2, <3>3, <4>2
    <3>5. CASE slot[q] # slot[r]
      BY <3>2, <3>3, <3>5 DEF IInv, TypeOK
    <3> QED
      BY <3>4, <3>5
  <2> QED
    BY <2>1, <2>2
<1>5. \A q \in Request : Noticed(q)' /\ InboxSound(q)' /\ OnlyAsked(q)'
  BY <1>1 DEF IInv, TypeOK, Noticed, InboxSound, OnlyAsked
<1> QED
  BY <1>2, <1>4, <1>5 DEF IInv

\* Steps of one webhook that leave calls alone; a DEL needs the webhook's own
\* call to be the only one the slot had.
LEMMA AnswerChange ==
    ASSUME IInv, NEW a \in Request, NEW v \in {"arrived", "checked", "over"},
           answer' = [answer EXCEPT ![a] = v],
           call[a].pc \notin {"idle", "refused"},
           UNCHANGED <<slot, call>>,
           \/ key' = key
           \/ answer[a] = "published" /\ key' = [key EXCEPT ![slot[a]] = 0]
    PROVE  IInv'
<1>1. TypeOK'
  BY DEF IInv, TypeOK
<1>2. ASSUME NEW r \in Request PROVE KeyLasts(r)'
  <2> SUFFICES ASSUME Alone(r)', call[r].pc \in Active, call[r].inbox = None, ~call[r].missed
               PROVE  key'[slot[r]] >= Spare(r)'
    BY DEF KeyLasts
  <2>1. Alone(r) /\ Spare(r)' = Spare(r)
    BY DEF Alone, Spare
  <2>2. key[slot[r]] >= Spare(r)
    BY <2>1 DEF IInv, KeyLasts
  <2>3. key'[slot[r]] = key[slot[r]]
    <3>1. a = r => answer[a] # "published"
      BY DEF IInv, Noticed
    <3>2. a # r => slot[a] # slot[r]
      BY <2>1 DEF Alone
    <3> QED
      BY <3>1, <3>2 DEF IInv, TypeOK
  <2> QED
    BY <2>1, <2>2, <2>3
<1>3. \A r \in Request : Noticed(r)' /\ InboxSound(r)' /\ OnlyAsked(r)'
  BY DEF IInv, TypeOK, Noticed, InboxSound, OnlyAsked
<1> QED
  BY <1>1, <1>2, <1>3 DEF IInv

\* PUBLISH leaves a message or a miss with every active call of its slot.
LEMMA PublishKeeps ==
    ASSUME IInv, NEW a \in Request, Publish(a)
    PROVE  IInv'
<1>1. /\ answer[a] = "checked"
      /\ answer' = [answer EXCEPT ![a] = "published"]
      /\ slot' = slot /\ key' = key
  BY DEF Publish
<1>2. \A r \in Request :
          /\ call'[r].pc = call[r].pc /\ call'[r].left = call[r].left
          /\ call'[r].forward = call[r].forward
          /\ call'[r].inbox \in {call[r].inbox, a}
          /\ call'[r].inbox # call[r].inbox => slot[a] = slot[r]
          /\ call[r].inbox # None => call'[r].inbox # None
          /\ call[r].missed => call'[r].missed
          /\ slot[r] = slot[a] /\ call[r].pc \in Active =>
                 call'[r].inbox # None \/ call'[r].missed
          /\ call'[r] \in Call
  BY DEF Publish, IInv, TypeOK
<1>3. TypeOK'
  <2>1. call' \in [Request -> Call]
    BY <1>2 DEF Publish
  <2> QED
    BY <1>1, <2>1 DEF IInv, TypeOK
<1>4. ASSUME NEW r \in Request PROVE KeyLasts(r)'
  <2>1. Alone(r)' => Alone(r)
    BY <1>1, <1>2 DEF Alone
  <2>2. Spare(r)' = Spare(r)
    BY <1>2 DEF Spare
  <2> QED
    BY <1>1, <1>2, <2>1, <2>2 DEF IInv, KeyLasts
<1>5. \A r \in Request : Noticed(r)' /\ OnlyAsked(r)'
  BY <1>1, <1>2 DEF IInv, TypeOK, Noticed, OnlyAsked
<1>6. \A r \in Request : InboxSound(r)'
  BY <1>1, <1>2 DEF IInv, TypeOK, InboxSound
<1> QED
  BY <1>3, <1>4, <1>5, <1>6 DEF IInv

\* Time takes one tick from the key and from what the call needs.
LEMMA TickKeeps ==
    ASSUME IInv, Tick
    PROVE  IInv'
<1>1. \A r \in Request :
          /\ call'[r].pc = call[r].pc
          /\ call'[r].inbox = call[r].inbox /\ call'[r].missed = call[r].missed
          /\ call[r].pc = "waiting" =>
                 /\ call[r].left > 0 /\ call'[r].left = call[r].left - 1
                 /\ call'[r].forward = call[r].forward
          /\ call[r].pc \in {"sending", "sent"} =>
                 call'[r].forward = Increase(call[r].forward)
          /\ call'[r] \in Call
  BY DEF Tick, IInv, TypeOK, Increase
<1>2. /\ \A s \in Slot : key'[s] = (IF key[s] > 0 THEN key[s] - 1 ELSE 0)
      /\ UNCHANGED <<slot, answer>>
  BY DEF Tick, Decrease
<1>3. TypeOK'
  <2>1. call' \in [Request -> Call]
    BY <1>1 DEF Tick
  <2>2. key' \in [Slot -> 0..Ttl]
    BY DEF Tick, Decrease, IInv, TypeOK
  <2> QED
    BY <1>2, <2>1, <2>2 DEF IInv, TypeOK
<1>4. ASSUME NEW r \in Request PROVE KeyLasts(r)'
  <2> HIDE DEF Active, Call
  <2> SUFFICES ASSUME Alone(r)', call[r].pc \in Active, call[r].inbox = None, ~call[r].missed
               PROVE  key'[slot[r]] >= Spare(r)'
    BY <1>1, <1>2 DEF KeyLasts
  <2>1. Alone(r)
    BY <1>1, <1>2 DEF Alone
  <2>2. key[slot[r]] >= Spare(r)
    BY <2>1 DEF IInv, KeyLasts
  <2>3. (Spare(r)' = Spare(r) - 1 \/ Spare(r)' <= 0) /\ Spare(r)' \in Int
    <3>1. call[r].left \in Int /\ call[r].forward \in 0..Ttl
      BY DEF IInv, TypeOK, Call
    <3> QED
      BY <1>1, <3>1 DEF Spare, Increase, Active
  <2>4. slot[r] \in Slot /\ key[slot[r]] \in 0..Ttl /\ Spare(r) \in Int
    BY DEF IInv, TypeOK, Spare, Call
  <2>5. key'[slot[r]] = (IF key[slot[r]] > 0 THEN key[slot[r]] - 1 ELSE 0)
    BY <1>2, <2>4
  <2> HIDE DEF Spare
  <2> QED
    BY <2>2, <2>3, <2>4, <2>5
<1>5. \A r \in Request : Noticed(r)' /\ InboxSound(r)' /\ OnlyAsked(r)'
  BY <1>1, <1>2 DEF IInv, TypeOK, Noticed, InboxSound, OnlyAsked
<1> QED
  BY <1>3, <1>4, <1>5 DEF IInv

LEMMA RestartKeeps ==
    ASSUME IInv, Restart
    PROVE  IInv'
<1>1. \A r \in Request :
          /\ call[r].pc \in Active => call'[r] = Fresh("failed")
          /\ call[r].pc \notin Active => call'[r] = call[r]
          /\ answer'[r] \in {answer[r], "over"}
          /\ answer'[r] # answer[r] => answer[r] # "none"
  BY DEF Restart
<1>2. UNCHANGED <<slot, key>>
  BY DEF Restart
<1>3. TypeOK'
  BY DEF Restart, IInv, TypeOK, Fresh
<1>4. \A r \in Request : call'[r].pc \notin Active
  BY <1>1 DEF Fresh
<1>5. \A r \in Request : KeyLasts(r)' /\ Noticed(r)'
  BY <1>4 DEF KeyLasts, Noticed
<1>6. \A r \in Request : InboxSound(r)' /\ OnlyAsked(r)'
  BY <1>1, <1>2 DEF IInv, TypeOK, InboxSound, OnlyAsked, Fresh
<1> QED
  BY <1>3, <1>5, <1>6 DEF IInv

--------------------------------------------------------------------------------
(* The induction step *)

LEMMA CallStepKeeps ==
    ASSUME IInv, NEW r \in Request, CallStep(r)
    PROVE  IInv'
<1>1. call[r] \in Call /\ slot[r] \in Slot /\ key \in [Slot -> 0..Ttl] /\ call \in [Request -> Call]
  BY DEF IInv, TypeOK
<1> call[r].inbox \in Request \cup {None} /\ call[r].missed \in BOOLEAN
  BY <1>1
<1>2. CASE Register(r)
  <2> DEFINE c == Fresh("sending")
  <2>1. c \in Call /\ c.pc = "sending" /\ c.inbox = None /\ c.forward = 0
    BY DEF Fresh
  <2>2. /\ call' = [call EXCEPT ![r] = c] /\ key' = [key EXCEPT ![slot[r]] = Ttl]
        /\ UNCHANGED <<slot, answer>> /\ call[r].pc = "idle"
    BY <1>2 DEF Register
  <2>3. key' \in [Slot -> 0..Ttl] /\ key'[slot[r]] = Ttl
        /\ \A s \in Slot \ {slot[r]} : key'[s] = key[s]
    BY <1>1, <2>2
  <2>4. call'[r] = c
    BY <1>1, <2>2
  <2>5. Spare(r)' = Ttl
    BY <2>1, <2>4 DEF Spare
  <2>6. answer[r] = "none"
    BY <2>2 DEF IInv, OnlyAsked
  <2>7. key'[slot[r]] >= Spare(r)'
    BY <2>3, <2>5
  <2> HIDE DEF c, Call
  <2> QED
    BY <2>1, <2>2, <2>3, <2>6, <2>7, CallChange
<1>3. CASE RegisterFails(r)
  <2>1. Fresh("refused") \in Call /\ Fresh("refused").pc = "refused"
        /\ Fresh("refused").inbox = None
    BY DEF Fresh
  <2> QED
    BY <1>1, <1>3, <2>1, CallChange DEF RegisterFails, Fail
<1>4. CASE Forward(r) /\ call' = [call EXCEPT ![r].pc = "sent"]
  <2> DEFINE c == [call[r] EXCEPT !.pc = "sent"]
  <2>1. /\ c \in Call /\ c.pc = "sent" /\ c.forward = call[r].forward
        /\ c.inbox = call[r].inbox /\ c.missed = call[r].missed
    BY <1>1
  <2>2. /\ call' = [call EXCEPT ![r] = c] /\ UNCHANGED <<slot, key, answer>>
        /\ call[r].pc = "sending"
    BY <1>1, <1>4 DEF Forward
  <2>3. call'[r] = c
    BY <1>1, <2>2
  <2>4. Spare(r)' = Spare(r)
    BY <2>1, <2>2, <2>3 DEF Spare
  <2>5. KeyLasts(r) /\ Noticed(r)
    BY DEF IInv
  <2> HIDE DEF c
  <2> QED
    BY <1>1, <2>1, <2>2, <2>4, <2>5, CallChange DEF KeyLasts, Noticed
<1>5. CASE Subscribe(r)
  <2> DEFINE c == [call[r] EXCEPT !.pc = "waiting", !.left = Timeout]
  <2>1. /\ c \in Call /\ c.pc = "waiting" /\ c.left = Timeout /\ c.forward = call[r].forward
        /\ c.inbox = call[r].inbox /\ c.missed = call[r].missed
    <3>1. Timeout \in 0..Timeout
      OBVIOUS
    <3> QED
      BY <1>1, <3>1
  <2>2. /\ call' = [call EXCEPT ![r] = c] /\ UNCHANGED <<slot, key, answer>>
        /\ call[r].pc = "sent"
    BY <1>1, <1>5 DEF Subscribe
  <2>3. call'[r] = c
    BY <1>1, <2>2
  <2>4. Spare(r)' = Spare(r)
    BY <1>1, <2>1, <2>2, <2>3 DEF Spare
  <2>5. KeyLasts(r) /\ Noticed(r)
    BY DEF IInv
  <2>6. key[slot[r]] \in Int /\ Spare(r) \in Int
    BY <1>1 DEF Spare
  <2> HIDE DEF c
  <2>7. Alone(r) /\ c.inbox = None /\ ~c.missed => key[slot[r]] >= Spare(r)'
    BY <2>1, <2>2, <2>4, <2>5, <2>6 DEF KeyLasts
  <2> QED
    BY <1>1, <2>1, <2>2, <2>5, <2>7, CallChange DEF Noticed
<1>6. CASE Receive(r)
  <2> DEFINE c == [pc |-> "answered", left |-> 0, forward |-> 0,
                   inbox |-> call[r].inbox, missed |-> FALSE]
  <2>1. c \in Call /\ c.pc = "answered" /\ c.inbox = call[r].inbox
    BY <1>1
  <2>2. /\ call' = [call EXCEPT ![r] = c] /\ UNCHANGED <<slot, key, answer>>
        /\ call[r].pc = "waiting"
    BY <1>1, <1>6 DEF Receive
  <2> HIDE DEF c
  <2> QED
    BY <1>1, <2>1, <2>2, CallChange
<1>7. CASE (Forward(r) /\ Fail(r, "failed")) \/ TimeOut(r) \/ HangUp(r)
  <2>1. PICK pc \in {"failed", "timeout"} : call' = [call EXCEPT ![r] = Fresh(pc)]
    BY <1>7 DEF Forward, Fail, TimeOut, HangUp
  <2> DEFINE c == Fresh(pc)
  <2>2. c \in Call /\ c.pc \in {"failed", "timeout"} /\ c.inbox = None
    BY DEF Fresh
  <2>3. UNCHANGED <<slot, key, answer>> /\ call[r].pc \in Active
    BY <1>7 DEF Forward, TimeOut, HangUp
  <2>4. call' = [call EXCEPT ![r] = c]
    BY <2>1
  <2> HIDE DEF c
  <2> QED
    BY <1>1, <2>2, <2>3, <2>4, CallChange
<1> QED
  BY <1>2, <1>3, <1>4, <1>5, <1>6, <1>7 DEF CallStep, Forward

LEMMA AnswerStepKeeps ==
    ASSUME IInv, NEW a \in Request, AnswerStep(a)
    PROVE  IInv'
<1>1. answer[a] # "none" => call[a].pc \notin {"idle", "refused"}
  BY DEF IInv, OnlyAsked
<1>2. CASE Arrive(a)
  BY <1>2, AnswerChange DEF Arrive
<1>3. CASE Check(a)
  BY <1>1, <1>3, AnswerChange DEF Check
<1>4. CASE Publish(a)
  BY <1>4, PublishKeeps
<1>5. CASE Delete(a)
  BY <1>1, <1>5, AnswerChange DEF Delete
<1>6. CASE Abandon(a)
  BY <1>1, <1>6, AnswerChange DEF Abandon
<1> QED
  BY <1>2, <1>3, <1>4, <1>5, <1>6 DEF AnswerStep

LEMMA NextIInv == IInv /\ [Next]_vars => IInv'
<1>1. ASSUME IInv, UNCHANGED vars PROVE IInv'
  BY <1>1 DEF vars, IInv, TypeOK, KeyLasts, Noticed, InboxSound, OnlyAsked, Alone, Spare
<1> QED
  BY <1>1, CallStepKeeps, AnswerStepKeeps, TickKeeps, RestartKeeps DEF Next

LEMMA Invariance == Spec => []IInv
BY InitIInv, NextIInv, PTL DEF Spec, SafeSpec

--------------------------------------------------------------------------------
(* The theorems *)

\* Calls, keys and webhooks keep their types.
THEOREM TypeCorrect == Spec => []TypeOK
<1>1. IInv => TypeOK
  BY DEF IInv
<1> QED
  BY <1>1, Invariance, PTL

\* However long a forward took, the key of a call that shares its slot with no
\* other outlives the wait but for its last ticks, those by which the forwarding
\* exceeded Ttl - Timeout; for the whole wait when it did not.
THEOREM KeyOutlivesWait == Spec => []KeyCoversWait
<1>1. IInv => KeyCoversWait
  <2> SUFFICES ASSUME IInv, NEW r \in Request, Alone(r), call[r].pc = "waiting",
                      call[r].left > call[r].forward - (Ttl - Timeout),
                      call[r].inbox = None, ~call[r].missed
               PROVE  key[slot[r]] > 0
    BY DEF KeyCoversWait
  <2>1. key[slot[r]] >= Spare(r)
    BY DEF IInv, KeyLasts
  <2>2. key[slot[r]] \in Int /\ call[r].left \in Int /\ call[r].forward \in Int
    BY DEF IInv, TypeOK
  <2> QED
    BY <2>1, <2>2 DEF Spare
<1> QED
  BY <1>1, Invariance, PTL

\* A published answer of such a call is with the call, or came before it
\* subscribed.
THEOREM PublishedIsDelivered == Spec => []PublishedMeansDelivered
<1>1. IInv => PublishedMeansDelivered
  <2> SUFFICES ASSUME IInv, NEW r \in Request, Alone(r), answer[r] = "published",
                      call[r].pc = "waiting", ~call[r].missed
               PROVE  call[r].inbox = r
    BY DEF PublishedMeansDelivered
  <2>1. call[r].inbox # None
    BY DEF IInv, Noticed
  <2>2. call[r].inbox \in Request
    BY <2>1 DEF IInv, TypeOK
  <2>3. slot[call[r].inbox] = slot[r] /\ answer[call[r].inbox] # "none"
    BY <2>1 DEF IInv, InboxSound
  <2>4. call[call[r].inbox].pc \notin {"idle", "refused"}
    BY <2>2, <2>3 DEF IInv, OnlyAsked
  <2> QED
    BY <2>2, <2>3, <2>4 DEF Alone
<1> QED
  BY <1>1, Invariance, PTL

--------------------------------------------------------------------------------
(* Refinement of RequestReply, without its liveness *)

\* The abstract variables as this module's state functions.
OutcomeOf(r) ==
    CASE call[r].pc = "answered" -> call[r].inbox
      [] call[r].pc \in {"timeout", "failed"} -> Failed
      [] OTHER -> None
Asked == {r \in Request : call[r].pc \in Active \cup Ended}
Sent == {r \in Request : answer[r] # "none"}
Outcome == [r \in Request |-> OutcomeOf(r)]

\* What the contract sees of a call.
LEMMA OutcomeFacts ==
    \A r \in Request :
        /\ call[r].pc = "answered" => OutcomeOf(r) = call[r].inbox
        /\ call[r].pc \in {"timeout", "failed"} => OutcomeOf(r) = Failed
        /\ call[r].pc \notin Ended => OutcomeOf(r) = None
BY DEF OutcomeOf

\* A call that ends in failure ends one open call of the contract.
LEMMA FailStep ==
    ASSUME IInv, NEW R \in SUBSET Request,
           \A r \in R : call[r].pc \in Active /\ call'[r].pc \in {"timeout", "failed"},
           \A r \in Request \ R : call'[r] = call[r],
           slot' = slot, Sent' = Sent
    PROVE  RR!Fail(R)
<1>1. \A r \in R : r \in Asked /\ OutcomeOf(r) = None /\ OutcomeOf(r)' = Failed
  BY OutcomeFacts DEF Asked, OutcomeOf
<1>2. \A r \in Request \ R : OutcomeOf(r)' = OutcomeOf(r)
  BY DEF OutcomeOf
<1>3. Asked' = Asked
  BY DEF Asked
<1>4. Outcome' = [r \in Request |-> IF r \in R THEN Failed ELSE Outcome[r]]
  BY <1>1, <1>2 DEF Outcome
<1>5. \A r \in R : Outcome[r] = None
  BY <1>1 DEF Outcome
<1> QED
  BY <1>1, <1>3, <1>4, <1>5 DEF RR!Fail, Asked, Sent, Outcome, OutcomeOf

\* A step that changes the stage of calls within Active, or nothing of them, is
\* a stutter of the contract.
LEMMA StutterStep ==
    ASSUME slot' = slot, Sent' = Sent,
           \A r \in Request : /\ call'[r].pc \in Ended => call'[r] = call[r]
                              /\ call[r].pc \in Ended => call'[r] = call[r]
                              /\ call[r].pc \in Active <=> call'[r].pc \in Active
    PROVE  UNCHANGED RR!vars
<1>1. Asked' = Asked
  BY DEF Asked
<1>2. \A r \in Request : OutcomeOf(r)' = OutcomeOf(r)
  BY DEF OutcomeOf
<1> QED
  BY <1>1, <1>2 DEF RR!vars, Asked, Sent, OutcomeOf

LEMMA CallStepMaps ==
    ASSUME IInv, NEW r \in Request, CallStep(r)
    PROVE  [RR!Next]_(RR!vars)
<1>1. call \in [Request -> Call] /\ slot' = slot /\ answer' = answer
  BY DEF IInv, TypeOK, CallStep, Register, RegisterFails, Forward, Subscribe, Receive,
         TimeOut, HangUp, Fail
<1>2. Sent' = Sent
  BY <1>1 DEF Sent
<1>3. CASE Register(r)
  <2>1. /\ call'[r].pc = "sending" /\ call[r].pc = "idle"
        /\ \A q \in Request \ {r} : call'[q] = call[q]
    BY <1>1, <1>3 DEF Register, Fresh
  <2>2. r \notin Asked /\ Asked' = Asked \cup {r}
    BY <2>1 DEF Asked
  <2>3. \A q \in Request : OutcomeOf(q)' = OutcomeOf(q)
    BY <2>1 DEF OutcomeOf
  <2>4. RR!Ask(r)
    BY <1>1, <1>2, <2>2, <2>3 DEF RR!Ask, Asked, Sent, OutcomeOf
  <2> QED
    BY <2>4 DEF RR!Next
<1>4. CASE Receive(r)
  <2>1. /\ call'[r].pc = "answered" /\ call'[r].inbox = call[r].inbox
        /\ call[r].pc = "waiting" /\ call[r].inbox # None
        /\ \A q \in Request \ {r} : call'[q] = call[q]
    BY <1>1, <1>4 DEF Receive
  <2>2. call[r].inbox \in Request
    BY <1>1, <2>1
  <2>3. slot[call[r].inbox] = slot[r] /\ call[r].inbox \in Sent
    BY <2>1, <2>2 DEF IInv, InboxSound, Sent
  <2>4. r \in Asked /\ Asked' = Asked
    BY <2>1 DEF Asked
  <2>5. Outcome' = [Outcome EXCEPT ![r] = call[r].inbox] /\ Outcome[r] = None
    <3>1. \A q \in Request \ {r} : OutcomeOf(q)' = OutcomeOf(q)
      BY <2>1 DEF OutcomeOf
    <3>2. OutcomeOf(r)' = call[r].inbox /\ OutcomeOf(r) = None
      BY <2>1 DEF OutcomeOf
    <3> QED
      BY <3>1, <3>2 DEF Outcome
  <2>6. PICK q \in Request : q = call[r].inbox
    BY <2>2
  <2>7. RR!Return(r, q)
    BY <1>1, <1>2, <2>3, <2>4, <2>5, <2>6 DEF RR!Return, Asked, Sent, Outcome, OutcomeOf
  <2> QED
    BY <2>7 DEF RR!Next
<1>5. CASE (Forward(r) /\ Fail(r, "failed")) \/ TimeOut(r) \/ HangUp(r)
  <2>1. /\ call'[r].pc \in {"timeout", "failed"} /\ call[r].pc \in Active
        /\ \A q \in Request \ {r} : call'[q] = call[q]
    BY <1>1, <1>5 DEF Forward, TimeOut, HangUp, Fail, Fresh
  <2>2. RR!Fail({r})
    BY <1>1, <1>2, <2>1, FailStep
  <2> QED
    BY <2>2 DEF RR!Next
<1>6. CASE RegisterFails(r)
  <2>1. /\ call'[r].pc = "refused" /\ call[r].pc = "idle"
        /\ \A q \in Request \ {r} : call'[q] = call[q]
    BY <1>1, <1>6 DEF RegisterFails, Fail, Fresh
  <2> QED
    BY <1>1, <1>2, <2>1, StutterStep
<1>7. CASE (Forward(r) /\ call' = [call EXCEPT ![r].pc = "sent"]) \/ Subscribe(r)
  <2>1. /\ call'[r].pc \in Active /\ call[r].pc \in Active
        /\ \A q \in Request \ {r} : call'[q] = call[q]
    BY <1>1, <1>7 DEF Forward, Subscribe
  <2> QED
    BY <1>1, <1>2, <2>1, StutterStep
<1> QED
  BY <1>3, <1>4, <1>5, <1>6, <1>7 DEF CallStep, Forward

LEMMA OtherStepMaps ==
    ASSUME IInv, (\E a \in Request : AnswerStep(a)) \/ Tick \/ Restart
    PROVE  [RR!Next]_(RR!vars)
<1>1. ASSUME NEW a \in Request, Arrive(a) PROVE RR!Answer(a)
  <2>1. Sent' = Sent \cup {a} /\ a \in Asked
    BY <1>1 DEF Arrive, Sent, Asked, IInv, TypeOK
  <2> QED
    BY <1>1, <2>1 DEF Arrive, RR!Answer, Asked, Sent
<1>2. ASSUME NEW a \in Request, AnswerStep(a), ~Arrive(a) PROVE UNCHANGED RR!vars
  <2>1. Sent' = Sent /\ slot' = slot
    BY <1>2 DEF AnswerStep, Check, Publish, Delete, Abandon, Sent, IInv, TypeOK
  <2>2. call' = call \/ Publish(a)
    BY <1>2 DEF AnswerStep, Check, Delete, Abandon
  <2>3. \A r \in Request : call'[r].pc = call[r].pc /\ (call[r].pc \in Ended => call'[r] = call[r])
    BY <2>2 DEF Publish, IInv, TypeOK
  <2> QED
    BY <2>1, <2>3, StutterStep
<1>3. CASE Tick
  <2>1. Sent' = Sent /\ slot' = slot
    BY <1>3 DEF Tick, Sent
  <2>2. \A r \in Request : call'[r].pc = call[r].pc /\ (call[r].pc \in Ended => call'[r] = call[r])
    BY <1>3 DEF Tick, IInv, TypeOK
  <2> QED
    BY <2>1, <2>2, StutterStep
<1>4. CASE Restart
  <2>1. PICK R \in SUBSET Request : R = {r \in Request : call[r].pc \in Active}
    OBVIOUS
  <2>2. Sent' = Sent /\ slot' = slot
    BY <1>4 DEF Restart, Sent
  <2>3. \A r \in R : call[r].pc \in Active /\ call'[r].pc = "failed"
    BY <1>4, <2>1 DEF Restart, Fresh
  <2>4. \A r \in Request \ R : call'[r] = call[r]
    BY <1>4, <2>1 DEF Restart
  <2>5. RR!Fail(R)
    BY <2>2, <2>3, <2>4, FailStep
  <2> QED
    BY <2>5 DEF RR!Next
<1> QED
  BY <1>1, <1>2, <1>3, <1>4 DEF RR!Next

\* Every call ends at most once, with a failure or with an answer the insurer
\* sent about its route and transaction, however calls, webhooks, expiry and
\* restarts interleave.
THEOREM Refinement == Spec => RR!Safe
<1>1. Init => RR!Init
  <2> SUFFICES ASSUME Init PROVE RR!Init
    OBVIOUS
  <2>1. Asked = {} /\ Sent = {} /\ slot \in [Request -> Slot]
    BY DEF Init, Fresh, Asked, Sent
  <2>2. \A r \in Request : OutcomeOf(r) = None
    BY DEF Init, Fresh, OutcomeOf
  <2> QED
    BY <2>1, <2>2 DEF RR!Init, Asked, Sent, OutcomeOf
<1>2. IInv /\ [Next]_vars => [RR!Next]_(RR!vars)
  <2>1. ASSUME UNCHANGED vars PROVE UNCHANGED RR!vars
    BY <2>1 DEF vars, RR!vars
  <2> QED
    BY <2>1, CallStepMaps, OtherStepMaps DEF Next
<1> QED
  BY <1>1, <1>2, Invariance, PTL DEF Spec, SafeSpec, RR!Safe

--------------------------------------------------------------------------------
(* Nothing lasts: the safety core of EveryCallReturns and NoKeyForever *)

\* The stages of a call under way, in order.
Stage(r) == CASE call[r].pc = "sending" -> 1 [] call[r].pc = "sent" -> 2 [] OTHER -> 3

\* What a step makes of a call under way: it ends, goes on to a later stage, or
\* stays; while it waits, it has no more ticks than it had and fewer after a tick.
CallMoves(r) ==
    call[r].pc \in Active =>
        \/ call'[r].pc \in Ended
        \/ call'[r].pc \in Active /\ Stage(r)' > Stage(r)
        \/ /\ call'[r].pc = call[r].pc
           /\ call[r].pc = "waiting" =>
                  /\ call'[r].left <= call[r].left
                  /\ Tick => call'[r].left < call[r].left

\* forwardAndWait never goes back: what is left are the exchange with the adapter,
\* Subscribe, and a wait whose deadline no other call, message or restart puts off.
CallsRunOut == [][\A r \in Request : CallMoves(r)]_vars

\* Register alone gives a pending key time, and every tick takes some of it.
KeysRunOut ==
    [][\A s \in Slot :
          /\ key[s] < key'[s] =>
                \E r \in Request :
                    slot[r] = s /\ call[r].pc = "idle" /\ call'[r].pc = "sending"
          /\ Tick /\ key[s] > 0 => key'[s] < key[s]]_vars

\* A call of forwardAndWait registers once.
CallsMadeOnce ==
    [][\A r \in Request : call[r].pc # "idle" => call'[r].pc # "idle"]_vars

LEMMA CallsMove ==
    ASSUME IInv, [Next]_vars, NEW r \in Request
    PROVE  CallMoves(r) /\ (call[r].pc # "idle" => call'[r].pc # "idle")
<1> DEFINE Goal == CallMoves(r) /\ (call[r].pc # "idle" => call'[r].pc # "idle")
<1>1. /\ call \in [Request -> Call] /\ call[r].left \in 0..Timeout
      /\ call[r].pc \in {"idle", "refused"} \cup Active \cup Ended
  BY DEF IInv, TypeOK
\* The call keeps its stage and its ticks.
<1>2. ASSUME call'[r].pc = call[r].pc, call'[r].left = call[r].left, ~ Tick
      PROVE  Goal
  BY <1>1, <1>2 DEF CallMoves
<1>3. CASE Tick
  <2>1. /\ call'[r].pc = call[r].pc
        /\ call[r].pc = "waiting" => call'[r].left = call[r].left - 1
    BY <1>1, <1>3 DEF Tick
  <2> QED
    BY <1>1, <2>1 DEF CallMoves
<1>4. CASE CallStep(r) /\ ~ Tick
  <2>1. CASE Register(r) \/ RegisterFails(r)
    <3>1. call[r].pc = "idle"
      BY <2>1 DEF Register, RegisterFails
    <3> QED
      BY <3>1 DEF CallMoves
  <2>2. CASE Forward(r) /\ call' = [call EXCEPT ![r].pc = "sent"]
    <3>1. call'[r].pc = "sent" /\ call[r].pc = "sending"
      BY <1>1, <2>2 DEF Forward
    <3> QED
      BY <3>1 DEF CallMoves, Stage
  <2>3. CASE Subscribe(r)
    <3>1. call'[r].pc = "waiting" /\ call[r].pc = "sent"
      BY <1>1, <2>3 DEF Subscribe
    <3> QED
      BY <3>1 DEF CallMoves, Stage
  <2>4. CASE (Forward(r) /\ Fail(r, "failed")) \/ Receive(r) \/ TimeOut(r) \/ HangUp(r)
    <3>1. call'[r].pc \in Ended
      BY <1>1, <2>4 DEF Forward, Receive, TimeOut, HangUp, Fail, Fresh
    <3> QED
      BY <3>1 DEF CallMoves
  <2> QED
    BY <1>4, <2>1, <2>2, <2>3, <2>4 DEF CallStep, Forward
<1>5. ASSUME NEW a \in Request, Publish(a), ~ Tick
      PROVE  Goal
  <2>1. call'[r].pc = call[r].pc /\ call'[r].left = call[r].left
    BY <1>1, <1>5 DEF Publish
  <2> QED
    BY <1>2, <1>5, <2>1
<1>6. CASE Restart /\ ~ Tick
  <2>1. (call[r].pc \notin Active /\ call'[r] = call[r]) \/ call'[r] = Fresh("failed")
    BY <1>6 DEF Restart
  <2> QED
    BY <2>1 DEF CallMoves, Fresh
\* A step of another call, or of the webhooks.
<1>7. ASSUME NEW q \in Request, CallStep(q), q # r
      PROVE  call'[r] = call[r]
  BY <1>1, <1>7 DEF CallStep, Register, RegisterFails, Forward, Subscribe, Receive, TimeOut,
                    HangUp, Fail
<1>8. ASSUME NEW a \in Request, AnswerStep(a), ~ Publish(a)
      PROVE  call'[r] = call[r]
  BY <1>8 DEF AnswerStep, Arrive, Check, Delete, Abandon
<1> QED
  BY <1>2, <1>3, <1>4, <1>5, <1>6, <1>7, <1>8 DEF Next, vars

\* A call under way never goes back to an earlier stage, and nothing puts the
\* deadline of its wait off: with an adapter that ends its exchanges and the
\* fairness of the clock it returns.
THEOREM CallsEnd == Spec => CallsRunOut
<1>1. IInv /\ [Next]_vars => \A r \in Request : CallMoves(r)
  BY CallsMove
<1>2. IInv /\ [Next]_vars => [\A r \in Request : CallMoves(r)]_vars
  BY <1>1
<1> QED
  BY <1>2, Invariance, PTL DEF Spec, SafeSpec, CallsRunOut

\* A key loses time with every tick and gets it back only from a call that is
\* made, which each call is once.
THEOREM KeysEnd == Spec => KeysRunOut /\ CallsMadeOnce
<1>1. ASSUME IInv, [Next]_vars, NEW s \in Slot
      PROVE  /\ key[s] < key'[s] => \E r \in Request :
                    slot[r] = s /\ call[r].pc = "idle" /\ call'[r].pc = "sending"
             /\ Tick /\ key[s] > 0 => key'[s] < key[s]
  <2>1. key \in [Slot -> 0..Ttl] /\ call \in [Request -> Call] /\ slot \in [Request -> Slot]
    BY <1>1 DEF IInv, TypeOK
  <2> key[s] \in 0..Ttl
    BY <2>1
  <2>2. CASE Tick
    <3>1. key'[s] = Decrease(key[s])
      BY <2>2 DEF Tick
    <3> QED
      BY <2>1, <3>1 DEF Decrease
  <2>3. CASE ~ Tick /\ key'[s] \in {key[s], 0}
    BY <2>1, <2>3
  <2>4. ASSUME NEW r \in Request, Register(r), slot[r] = s
        PROVE  call[r].pc = "idle" /\ call'[r].pc = "sending"
    BY <2>1, <2>4 DEF Register, Fresh
  <2>5. ASSUME NEW r \in Request, Register(r), slot[r] # s
        PROVE  key'[s] = key[s]
    BY <2>1, <2>5 DEF Register
  <2>6. Tick \/ key'[s] \in {key[s], 0} \/ \E r \in Request : Register(r)
    <3>1. \A a \in Request : Delete(a) => key'[s] \in {key[s], 0}
      BY <2>1 DEF Delete
    <3> QED
      BY <1>1, <3>1 DEF Next, vars, CallStep, RegisterFails, Forward, Subscribe, Receive,
                      TimeOut, HangUp, AnswerStep, Arrive, Check, Publish, Abandon, Restart
  <2>7. \A r \in Request : Register(r) => ~ Tick
    <3>1. \A r \in Request : Register(r) => call'[r].pc = "sending" /\ call[r].pc = "idle"
      BY <2>1 DEF Register, Fresh
    <3>2. \A r \in Request : Tick => (call[r].pc = "idle" => call'[r] = call[r])
      BY DEF Tick
    <3> QED
      BY <3>1, <3>2
  <2> QED
    BY <2>2, <2>3, <2>4, <2>5, <2>6, <2>7
<1>2. IInv /\ [Next]_vars =>
          \A s \in Slot :
              /\ key[s] < key'[s] => \E r \in Request :
                    slot[r] = s /\ call[r].pc = "idle" /\ call'[r].pc = "sending"
              /\ Tick /\ key[s] > 0 => key'[s] < key[s]
  BY <1>1
<1>3. IInv /\ [Next]_vars =>
          \A r \in Request : call[r].pc # "idle" => call'[r].pc # "idle"
  BY CallsMove
<1> QED
  BY <1>2, <1>3, Invariance, PTL DEF Spec, SafeSpec, KeysRunOut, CallsMadeOnce
================================================================================
