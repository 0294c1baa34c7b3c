-------------------------- MODULE InsurerSessionProofs --------------------------
(***************************************************************************)
(* Theorems about InsurerSession for any tabs, logins and bounds: types,   *)
(* that a login which has not expired is ended by nothing but logouts and  *)
(* further logins, and that a page shows what the backend has accepted.    *)
(***************************************************************************)
EXTENDS InsurerSession, FunctionTheorems, FiniteSetTheorems, TLAPS

(***************************************************************************)
(* The strengthening.  A token in the storage is one the backend has       *)
(* signed, so that an answer of 401 means that the request had another     *)
(* one, or an expired one.  And requests of a tab are told apart by n, so  *)
(* that a request that was answered is not there any more.                 *)
(***************************************************************************)
TokenSigned == token # None => token \in issued

Distinct(rs) == \A r, q \in rs : r.tab = q.tab /\ r.n = q.n => r = q

Numbered == Distinct(requests)

IInv == TypeOK /\ TokenSigned /\ Numbered

USE ConstantsAssumption

--------------------------------------------------------------------------------
(* Pages *)

LEMMA PageFacts ==
    /\ Page = {"login", "register", "overview", "publish", "inventory"}
    /\ \A p \in Page : Loads[p] \in Nat
    /\ \A p \in Page : Mounted(p) \in TabState
BY DEF Page, Loads, Mounted, TabState, OverviewPage, PublishPage

LEMMA RoutedPage ==
    ASSUME NEW p \in Page, NEW from, NEW store
    PROVE  ProtectedRoute(p, from, store) \in Page
BY PageFacts DEF ProtectedRoute

\* What holds of requests before Send holds of them after it.
LEMMA SendKeeps ==
    ASSUME NEW t \in Tab, NEW k, NEW act, act \in {"login", "register", "load", "save"},
           NEW store \in Login \cup {None}, NEW done \in Nat, NEW others \in SUBSET Request,
           Distinct(others),
           Send(t, k, act, store, done, others)
    PROVE  /\ requests' \subseteq Request
           /\ Numbered'
           /\ others \subseteq requests'
           /\ \A r \in requests' \ others :
                  /\ r.tab = t /\ r.act = act
                  /\ \A q \in others : q.tab = t => q.n # r.n
<1> DEFINE free == 1..MaxRequests \ {r.n : r \in {q \in others : q.tab = t}}
           first == {n \in free : Cardinality({m \in free : m <= n}) <= k}
           new(n) == [tab |-> t, n |-> n, act |-> act, token |-> store, mounted |-> TRUE,
                      done |-> done]
<1>1. requests' = others \cup {new(n) : n \in first}
    BY DEF Send
<1>2. ASSUME NEW n \in first
      PROVE  /\ n \in 1..MaxRequests
             /\ \A q \in others : q.tab = t => q.n # n
    OBVIOUS
<1>3. \A n : new(n).tab = t /\ new(n).n = n /\ new(n).act = act
    OBVIOUS
<1>4. \A n \in 1..MaxRequests : new(n) \in Request
    BY DEF Request
<1> HIDE DEF first, new
<1>5. \A r \in requests' \ others : \E n \in first : r = new(n)
    BY <1>1
<1>6. requests' \subseteq Request
    BY <1>1, <1>2, <1>4
<1>7. Numbered'
    <2>1. ASSUME NEW r \in requests', NEW q \in requests', r.tab = q.tab, r.n = q.n
          PROVE  r = q
        BY <1>2, <1>3, <1>5, <2>1 DEF Distinct
    <2>2. QED
        BY <2>1 DEF Numbered, Distinct
<1>8. QED
    BY <1>1, <1>2, <1>3, <1>5, <1>6, <1>7

\* Requests of a page that is left are the same requests.
LEMMA UnmountedSame ==
    ASSUME NEW t, NEW rs \in SUBSET Request
    PROVE  \A q \in Unmounted(t, rs) :
               /\ q \in Request
               /\ \E r \in rs : r.tab = q.tab /\ r.n = q.n /\ r.act = q.act /\ r.token = q.token
                                /\ q = IF r.tab = t THEN [r EXCEPT !.mounted = FALSE] ELSE r
<1>1. TAKE q \in Unmounted(t, rs)
<1>2. PICK r \in rs : q = IF r.tab = t THEN [r EXCEPT !.mounted = FALSE] ELSE r
    BY DEF Unmounted
<1>3. r \in Request
    OBVIOUS
<1>4. /\ q \in Request
      /\ r.tab = q.tab /\ r.n = q.n /\ r.act = q.act /\ r.token = q.token
    BY <1>2, <1>3 DEF Request
<1>5. QED
    BY <1>2, <1>4

\* A request that routing takes out, and that is not a load, is over.
LEMMA RouteKeeps ==
    ASSUME TypeOK, Numbered, NEW t \in Tab, NEW p \in Page,
           NEW store \in Login \cup {None}, NEW others \in SUBSET requests,
           Route(t, p, store, others)
    PROVE  /\ tab' \in [Tab -> TabState]
           /\ requests' \subseteq Request
           /\ Numbered'
           /\ \A r \in requests \ others : r.act # "load" => r \notin requests'
<1> DEFINE q == ProtectedRoute(p, tab[t].page, store)
           left == Unmounted(t, others)
<1>1. q \in Page
    BY RoutedPage
<1>2. CASE requests' = others /\ UNCHANGED tab
    BY <1>2 DEF TypeOK, Numbered, Distinct
<1>3. CASE /\ tab' = [tab EXCEPT ![t] = [Mounted(q) EXCEPT !.leaving = tab[t].leaving]]
           /\ Send(t, Loads[q], "load", store, 0, left)
    <2>1. tab' \in [Tab -> TabState]
        <3>1. Mounted(q) \in TabState /\ tab[t].leaving \in BOOLEAN
            BY <1>1, PageFacts DEF TypeOK, TabState
        <3>2. [Mounted(q) EXCEPT !.leaving = tab[t].leaving] \in TabState
            <4> HIDE DEF q
            <4> QED BY <3>1 DEF TabState
        <3>3. QED
            BY <1>3, <3>2 DEF TypeOK
    <2>2. others \in SUBSET Request
        BY DEF TypeOK
    <2>3. left \in SUBSET Request
        BY <2>2, UnmountedSame
    <2>4. Distinct(left)
        <3>1. SUFFICES ASSUME NEW r \in left, NEW s \in left, r.tab = s.tab, r.n = s.n
              PROVE  r = s
            BY DEF Distinct
        <3>2. PICK r0 \in others : /\ r0.tab = r.tab /\ r0.n = r.n
                    /\ r = IF r0.tab = t THEN [r0 EXCEPT !.mounted = FALSE] ELSE r0
            BY <2>2, UnmountedSame
        <3>3. PICK s0 \in others : /\ s0.tab = s.tab /\ s0.n = s.n
                    /\ s = IF s0.tab = t THEN [s0 EXCEPT !.mounted = FALSE] ELSE s0
            BY <2>2, UnmountedSame
        <3>4. r0 = s0
            BY <3>1, <3>2, <3>3 DEF Numbered, Distinct
        <3>5. QED
            BY <3>2, <3>3, <3>4
    <2> HIDE DEF left, q
    <2>5. /\ requests' \subseteq Request /\ Numbered'
          /\ \A r \in requests' \ left : r.act = "load"
        <3>1. 0 \in Nat /\ "load" \in {"login", "register", "load", "save"}
            OBVIOUS
        <3>2. Send(t, Loads[q], "load", store, 0, left)
            BY <1>3
        <3>3. QED
            BY <2>3, <2>4, <3>1, <3>2, SendKeeps
    <2>6. ASSUME NEW r \in requests \ others, r.act # "load" PROVE r \notin requests'
        <3>1. SUFFICES ASSUME r \in left PROVE FALSE
            BY <2>5, <2>6
        <3>2. PICK r0 \in others : r0.tab = r.tab /\ r0.n = r.n
            BY <2>2, <3>1, UnmountedSame DEF left
        <3>3. r0 = r
            BY <3>2 DEF Numbered, Distinct
        <3>4. QED
            BY <3>3
    <2>7. QED
        BY <2>1, <2>5, <2>6
<1>4. QED
    BY <1>2, <1>3 DEF Route

--------------------------------------------------------------------------------
(* Answers *)

LEMMA TabStateKept ==
    ASSUME NEW s \in TabState, NEW a \in Nat, NEW l \in BOOLEAN,
           NEW d \in {"form", "busy", "data", "success", "error"}
    PROVE  /\ [s EXCEPT !.accepted = a] \in TabState
           /\ [s EXCEPT !.leaving = l] \in TabState
           /\ [s EXCEPT !.shows = d] \in TabState
BY DEF TabState

LEMMA CountedKeeps ==
    ASSUME TypeOK, NEW r \in requests, NEW answer
    PROVE  Counted(r, answer) \in TabState
<1>1. tab[r.tab] \in TabState
    BY DEF TypeOK, Request
<1>2. (IF answer = "ok" THEN tab[r.tab].accepted + 1 ELSE tab[r.tab].accepted) \in Nat
    BY <1>1 DEF TabState
<1>3. QED
    BY <1>1, <1>2, TabStateKept DEF Counted

\* A token leaves the storage only by an answer of 401, which a request with a
\* token that is signed and has not expired does not get.
LEMMA AnsweredKeeps ==
    ASSUME TypeOK, TokenSigned, NEW r \in requests, NEW answer \in Answers(r),
           NEW page \in TabState, Answered(r, answer, page)
    PROVE  /\ tab' \in [Tab -> TabState]
           /\ token' \in {token, None} /\ issued' = issued /\ expired' = expired
           /\ TokenSigned'
           /\ token # None /\ token \notin expired /\ token' # token =>
                  Unauthorized(answer) /\ (r.act = "login" \/ r.token # token)
<1>1. r.tab \in Tab /\ tab[r.tab] \in TabState
    BY DEF TypeOK, Request
<1> DEFINE seen == IF r.mounted THEN page ELSE tab[r.tab]
<1>2. seen \in TabState
    BY <1>1
<1>3. tab' = [tab EXCEPT ![r.tab] =
                  [seen EXCEPT !.leaving = seen.leaving \/ Unauthorized(answer)]]
    BY DEF Answered
<1>4. tab' \in [Tab -> TabState]
    <2>1. (seen.leaving \/ Unauthorized(answer)) \in BOOLEAN
        BY <1>2 DEF TabState
    <2>2. [seen EXCEPT !.leaving = seen.leaving \/ Unauthorized(answer)] \in TabState
        BY <1>2, <2>1, TabStateKept
    <2> HIDE DEF seen
    <2>3. QED
        BY <1>3, <2>2 DEF TypeOK
<1>5. token' \in {token, None} /\ issued' = issued /\ expired' = expired
    BY DEF Answered
<1>6. TokenSigned'
    BY <1>5 DEF TokenSigned
<1>7. token # None /\ token \notin expired /\ token' # token =>
          Unauthorized(answer) /\ (r.act = "login" \/ r.token # token)
    <2>1. SUFFICES ASSUME token # None, token \notin expired, token' # token
          PROVE  Unauthorized(answer) /\ (r.act = "login" \/ r.token # token)
        OBVIOUS
    <2>2. Unauthorized(answer) /\ token \in issued \ expired
        BY <2>1 DEF Answered, TokenSigned
    <2>3. QED
        BY <2>2 DEF Answers, Unauthorized
<1>8. QED
    BY <1>4, <1>5, <1>6, <1>7

--------------------------------------------------------------------------------
(* Steps *)

\* The step formula of LiveLoginStays.
LiveLogin ==
    token # None /\ token \notin expired /\ token' # token =>
        \/ \E t \in Tab : Logout(t)
        \/ \E r \in requests \ requests' : r.act = "login" \/ r.token # token

\* The storage and the backend are left alone.
LEMMA SameToken ==
    ASSUME IInv, UNCHANGED <<token, issued>>, expired' \subseteq issued,
           tab' \in [Tab -> TabState], requests' \subseteq Request, Numbered'
    PROVE  IInv' /\ LiveLogin
BY DEF IInv, TypeOK, TokenSigned, LiveLogin

LEMMA PagesKeep ==
    ASSUME IInv, NEW t \in Tab, NEW p \in Page, Navigate(t, p) \/ Open(t, p) \/ Logout(t)
    PROVE  IInv' /\ LiveLogin
<1>1. TypeOK /\ TokenSigned /\ Numbered
    BY DEF IInv
<1>2. CASE Navigate(t, p)
    <2>1. Route(t, p, token, requests) /\ UNCHANGED <<token, issued, expired>>
        BY <1>2 DEF Navigate
    <2>2. tab' \in [Tab -> TabState] /\ requests' \subseteq Request /\ Numbered'
        BY <1>1, <2>1, RouteKeeps DEF TypeOK
    <2>3. QED
        BY <1>1, <2>1, <2>2, SameToken DEF TypeOK
<1>3. CASE Open(t, p)
    <2> DEFINE q == ProtectedRoute(p, "login", token)
               rest == requests \ OfTab(t)
    <2>1. /\ tab' = [tab EXCEPT ![t] = Mounted(q)]
          /\ Send(t, Loads[q], "load", token, 0, rest)
          /\ UNCHANGED <<token, issued, expired>>
        BY <1>3 DEF Open
    <2>2. Mounted(q) \in TabState
        BY RoutedPage, PageFacts
    <2>3. rest \in SUBSET Request /\ Distinct(rest) /\ token \in Login \cup {None}
        BY <1>1 DEF TypeOK, Numbered, Distinct
    <2> HIDE DEF rest, q
    <2>4. requests' \subseteq Request /\ Numbered'
        <3>1. 0 \in Nat /\ "load" \in {"login", "register", "load", "save"}
            OBVIOUS
        <3>2. QED
            BY <2>1, <2>3, <3>1, SendKeeps
    <2>5. tab' \in [Tab -> TabState]
        BY <1>1, <2>1, <2>2 DEF TypeOK
    <2>6. QED
        BY <1>1, <2>1, <2>4, <2>5, SameToken DEF TypeOK
<1>4. CASE Logout(t)
    <2>1. token' = None /\ Route(t, "login", None, requests) /\ UNCHANGED <<issued, expired>>
        BY <1>4 DEF Logout
    <2>2. "login" \in Page
        BY PageFacts
    <2>3. tab' \in [Tab -> TabState] /\ requests' \subseteq Request /\ Numbered'
        BY <1>1, <2>1, <2>2, RouteKeeps DEF TypeOK
    <2>4. IInv'
        BY <1>1, <2>1, <2>3 DEF IInv, TypeOK, TokenSigned
    <2>5. QED
        BY <1>4, <2>4 DEF LiveLogin
<1>5. QED
    BY <1>2, <1>3, <1>4

LEMMA SubmitKeeps ==
    ASSUME IInv, NEW t \in Tab, LoginPage(t) \/ RegisterPage(t) \/ HandlePublish(t)
    PROVE  IInv' /\ LiveLogin
<1>1. TypeOK /\ TokenSigned /\ Numbered
    BY DEF IInv
<1>2. PICK act \in {"login", "register", "save"} : Send(t, 1, act, token, 0, requests)
    BY DEF LoginPage, RegisterPage, HandlePublish, Submit
<1>3. /\ tab' = [tab EXCEPT ![t] = [@ EXCEPT !.shows = "busy", !.accepted = 0]]
      /\ UNCHANGED <<token, issued, expired>>
    BY DEF LoginPage, RegisterPage, HandlePublish, Submit
<1>4. tab' \in [Tab -> TabState]
    <2>1. tab[t] \in TabState
        BY <1>1 DEF TypeOK
    <2>2. [tab[t] EXCEPT !.shows = "busy", !.accepted = 0] \in TabState
        BY <2>1 DEF TabState
    <2>3. QED
        BY <1>1, <1>3, <2>2 DEF TypeOK
<1>5. requests' \subseteq Request /\ Numbered'
    <2>1. /\ 0 \in Nat /\ act \in {"login", "register", "load", "save"}
          /\ token \in Login \cup {None} /\ requests \in SUBSET Request /\ Distinct(requests)
        BY <1>1 DEF TypeOK, Numbered
    <2>2. QED
        BY <1>2, <2>1, SendKeeps
<1>6. QED
    BY <1>1, <1>3, <1>4, <1>5, SameToken DEF TypeOK

LEMMA ResetAndExpireKeep ==
    ASSUME IInv, (\E t \in Tab : ResetAll(t)) \/ (\E l \in Login : Expire(l))
    PROVE  IInv' /\ LiveLogin
<1>1. TypeOK /\ TokenSigned /\ Numbered
    BY DEF IInv
<1>2. ASSUME NEW t \in Tab, ResetAll(t) PROVE IInv' /\ LiveLogin
    <2>1. Mounted("publish") \in TabState /\ tab[t].leaving \in BOOLEAN
        BY <1>1, PageFacts DEF TypeOK, TabState
    <2>2. [Mounted("publish") EXCEPT !.leaving = tab[t].leaving] \in TabState
        BY <2>1, TabStateKept
    <2>3. tab' \in [Tab -> TabState]
        BY <1>1, <1>2, <2>2 DEF ResetAll, TypeOK
    <2>4. requests' \subseteq Request /\ Numbered'
        BY <1>1, <1>2 DEF ResetAll, TypeOK, Numbered, Distinct
    <2>5. QED
        BY <1>1, <1>2, <2>3, <2>4, SameToken DEF ResetAll, TypeOK
<1>3. ASSUME NEW l \in Login, Expire(l) PROVE IInv' /\ LiveLogin
    <2>1. requests' \subseteq Request /\ Numbered'
        BY <1>1, <1>3 DEF Expire, TypeOK, Numbered, Distinct
    <2>2. QED
        BY <1>1, <1>3, <2>1, SameToken DEF Expire, TypeOK
<1>4. QED
    BY <1>2, <1>3

\* Requests that are answered leave; none comes instead of them.
LEMMA TakenOut ==
    ASSUME TypeOK, Numbered, NEW r \in requests, requests' = requests \ {r}
    PROVE  requests' \subseteq Request /\ Numbered' /\ r \in requests \ requests'
BY DEF TypeOK, Numbered, Distinct

LEMMA LoadAndFormKeep ==
    ASSUME IInv, NEW r \in requests, NEW answer,
           LoadAnswered(r, answer) \/ FormRefused(r, answer)
    PROVE  IInv' /\ LiveLogin
<1>1. TypeOK /\ TokenSigned /\ Numbered
    BY DEF IInv
<1>2. PICK page \in TabState : Answered(r, answer, page)
    <2>1. CASE LoadAnswered(r, answer)
        <3>1. Counted(r, answer) \in TabState
            BY <1>1, CountedKeeps
        <3> DEFINE shows == CASE Rejects(answer) -> "error"
                              [] Counted(r, answer).shows = "busy" /\ ~ Rejects(answer)
                                     /\ ~ Waits(r) -> "data"
                              [] OTHER -> Counted(r, answer).shows
        <3>2. shows \in {"form", "busy", "data", "success", "error"}
            BY <3>1 DEF TabState
        <3>3. Answered(r, answer, [Counted(r, answer) EXCEPT !.shows = shows])
            BY <2>1 DEF LoadAnswered
        <3> HIDE DEF shows
        <3>4. [Counted(r, answer) EXCEPT !.shows = shows] \in TabState
            BY <3>1, <3>2, TabStateKept
        <3>5. QED
            BY <3>3, <3>4
    <2>2. CASE FormRefused(r, answer)
        <3>1. tab[r.tab] \in TabState
            BY <1>1 DEF TypeOK, Request
        <3>2. [tab[r.tab] EXCEPT !.shows = "error"] \in TabState
            BY <3>1 DEF TabState
        <3>3. QED
            BY <2>2, <3>2 DEF FormRefused
    <2>3. QED
        BY <2>1, <2>2
<1>3. requests' = requests \ {r} /\ answer \in Answers(r)
    BY DEF LoadAnswered, FormRefused
<1>4. requests' \subseteq Request /\ Numbered' /\ r \in requests \ requests'
    BY <1>1, <1>3, TakenOut
<1>5. /\ tab' \in [Tab -> TabState]
      /\ token' \in {token, None} /\ issued' = issued /\ expired' = expired
      /\ TokenSigned'
      /\ token # None /\ token \notin expired /\ token' # token =>
             r.act = "login" \/ r.token # token
    BY <1>1, <1>2, <1>3, AnsweredKeeps
<1>6. IInv'
    BY <1>1, <1>4, <1>5 DEF IInv, TypeOK
<1>7. LiveLogin
    BY <1>4, <1>5 DEF LiveLogin
<1>8. QED
    BY <1>6, <1>7

\* The next request of handlePublish takes the place of the one before.
LEMMA SaveKeeps ==
    ASSUME IInv, NEW r \in requests, NEW answer, SaveAnswered(r, answer)
    PROVE  IInv' /\ LiveLogin
<1>1. TypeOK /\ TokenSigned /\ Numbered
    BY DEF IInv
<1>2. answer \in Answers(r) /\ Counted(r, answer) \in TabState
    BY <1>1, CountedKeeps DEF SaveAnswered
<1>3. PICK page \in TabState : Answered(r, answer, page)
    <2>1. /\ [Counted(r, answer) EXCEPT !.shows = "error"] \in TabState
          /\ [Counted(r, answer) EXCEPT !.shows = "success"] \in TabState
        BY <1>2, TabStateKept
    <2>2. QED
        BY <1>2, <2>1 DEF SaveAnswered
<1>4. /\ tab' \in [Tab -> TabState]
      /\ token' \in {token, None} /\ issued' = issued /\ expired' = expired
      /\ TokenSigned'
      /\ token # None /\ token \notin expired /\ token' # token =>
             Unauthorized(answer) /\ (r.act = "login" \/ r.token # token)
    BY <1>1, <1>2, <1>3, AnsweredKeeps
<1>5. CASE requests' = requests \ {r}
    <2>1. requests' \subseteq Request /\ Numbered' /\ r \in requests \ requests'
        BY <1>1, <1>5, TakenOut
    <2>2. QED
        BY <1>1, <1>4, <2>1 DEF IInv, TypeOK, LiveLogin
<1> DEFINE store == IF Unauthorized(answer) THEN None ELSE token
           next == [r EXCEPT !.done = r.done + 1, !.token = store]
<1>6. CASE ~ Rejects(answer) /\ requests' = (requests \ {r}) \cup {next}
    <2>1. ~ Unauthorized(answer)
        BY <1>6 DEF Rejects, Unauthorized
    <2>2. r \in Request /\ store \in Login \cup {None}
        BY <1>1 DEF TypeOK
    <2> HIDE DEF store
    <2>3. next \in Request /\ next.tab = r.tab /\ next.n = r.n
        <3>1. r.done + 1 \in Nat
            BY <2>2 DEF Request
        <3>2. PICK d \in Nat : d = r.done + 1
            BY <3>1
        <3>3. next = [r EXCEPT !.done = d, !.token = store]
            BY <3>2
        <3> HIDE DEF next
        <3>4. QED
            BY <2>2, <3>3 DEF Request
    <2> HIDE DEF next
    <2>4. requests' \subseteq Request
        BY <1>1, <1>6, <2>3 DEF TypeOK
    <2>5. Numbered'
        <3>1. ASSUME NEW p \in requests', NEW q \in requests', p.tab = q.tab, p.n = q.n
              PROVE  p = q
            <4>1. CASE p = next /\ q = next
                BY <4>1
            <4>2. CASE p \in requests \ {r} /\ q \in requests \ {r}
                BY <1>1, <3>1, <4>2 DEF Numbered, Distinct
            <4>3. CASE (p = next /\ q \in requests \ {r}) \/ (p \in requests \ {r} /\ q = next)
                BY <1>1, <2>3, <3>1, <4>3 DEF Numbered, Distinct
            <4>4. QED
                BY <1>6, <3>1, <4>1, <4>2, <4>3
        <3>2. QED
            BY <3>1 DEF Numbered, Distinct
    <2>6. IInv'
        BY <1>1, <1>4, <2>4, <2>5 DEF IInv, TypeOK
    <2>7. QED
        BY <1>4, <2>1, <2>6 DEF LiveLogin
<1>7. QED
    BY <1>5, <1>6 DEF SaveAnswered

LEMMA LoginAndRegisterKeep ==
    ASSUME IInv, NEW r \in requests,
           (\E l \in Login : LoginAnswered(r, l)) \/ RegisterAnswered(r)
    PROVE  IInv' /\ LiveLogin
<1>1. TypeOK /\ TokenSigned /\ Numbered
    BY DEF IInv
<1>2. /\ r.tab \in Tab /\ "overview" \in Page /\ "login" \in Page
      /\ (requests \ {r}) \in SUBSET requests /\ r \in requests \ (requests \ {r})
    BY <1>1, PageFacts DEF TypeOK, Request
<1>3. ASSUME NEW l \in Login, LoginAnswered(r, l) PROVE IInv' /\ LiveLogin
    <2>1. /\ r.act = "login" /\ token' = l /\ issued' = issued \cup {l} /\ expired' = expired
          /\ Route(r.tab, "overview", l, requests \ {r})
        BY <1>3 DEF LoginAnswered
    <2>2. /\ tab' \in [Tab -> TabState] /\ requests' \subseteq Request /\ Numbered'
          /\ r \notin requests'
        BY <1>1, <1>2, <2>1, RouteKeeps
    <2>3. IInv'
        BY <1>1, <2>1, <2>2 DEF IInv, TypeOK, TokenSigned
    <2>4. QED
        BY <2>1, <2>2, <2>3 DEF LiveLogin
<1>4. CASE RegisterAnswered(r)
    <2>1. UNCHANGED <<token, issued, expired>> /\ Route(r.tab, "login", token, requests \ {r})
        BY <1>4 DEF RegisterAnswered
    <2>2. tab' \in [Tab -> TabState] /\ requests' \subseteq Request /\ Numbered'
        BY <1>1, <1>2, <2>1, RouteKeeps DEF TypeOK
    <2>3. QED
        BY <1>1, <2>1, <2>2, SameToken DEF TypeOK
<1>5. QED
    BY <1>3, <1>4

--------------------------------------------------------------------------------
(* The invariant *)

LEMMA InitSound == Init => IInv
<1> SUFFICES ASSUME Init PROVE IInv
    OBVIOUS
<1>1. Mounted("login") \in TabState
    BY PageFacts
<1>2. TypeOK
    BY <1>1 DEF Init, TypeOK
<1>3. TokenSigned /\ Numbered
    BY DEF Init, TokenSigned, Numbered, Distinct
<1>4. QED
    BY <1>2, <1>3 DEF IInv

LEMMA StepSound == IInv /\ [Next]_vars => IInv' /\ (LiveLogin \/ UNCHANGED vars)
<1> SUFFICES ASSUME IInv, [Next]_vars PROVE IInv' /\ (LiveLogin \/ UNCHANGED vars)
    OBVIOUS
<1>1. ASSUME NEW t \in Tab, NEW p \in Page, Navigate(t, p) \/ Open(t, p)
      PROVE  IInv' /\ LiveLogin
    BY <1>1, PagesKeep
<1>2. ASSUME NEW t \in Tab, Logout(t) PROVE IInv' /\ LiveLogin
    BY <1>2, PagesKeep, PageFacts
<1>3. ASSUME NEW t \in Tab, LoginPage(t) \/ RegisterPage(t) \/ HandlePublish(t)
      PROVE  IInv' /\ LiveLogin
    BY <1>3, SubmitKeeps
<1>4. ASSUME NEW t \in Tab, ResetAll(t) PROVE IInv' /\ LiveLogin
    BY <1>4, ResetAndExpireKeep
<1>5. ASSUME NEW l \in Login, Expire(l) PROVE IInv' /\ LiveLogin
    BY <1>5, ResetAndExpireKeep
<1>6. ASSUME NEW r \in requests, NEW answer, LoadAnswered(r, answer) \/ FormRefused(r, answer)
      PROVE  IInv' /\ LiveLogin
    BY <1>6, LoadAndFormKeep
<1>7. ASSUME NEW r \in requests, NEW answer, SaveAnswered(r, answer)
      PROVE  IInv' /\ LiveLogin
    BY <1>7, SaveKeeps
<1>8. ASSUME NEW r \in requests, NEW l \in Login, LoginAnswered(r, l)
      PROVE  IInv' /\ LiveLogin
    BY <1>8, LoginAndRegisterKeep
<1>9. ASSUME NEW r \in requests, RegisterAnswered(r) PROVE IInv' /\ LiveLogin
    BY <1>9, LoginAndRegisterKeep
<1>10. CASE UNCHANGED vars
    BY <1>10 DEF vars, IInv, TypeOK, TokenSigned, Numbered, Distinct
<1>11. QED
    BY <1>1, <1>2, <1>3, <1>4, <1>5, <1>6, <1>7, <1>8, <1>9, <1>10 DEF Next

LEMMA SpecSound == Spec => []IInv
<1>1. Init => IInv
    BY InitSound
<1>2. IInv /\ [Next]_vars => IInv'
    BY StepSound
<1>3. QED
    BY <1>1, <1>2, PTL DEF Spec

--------------------------------------------------------------------------------
(* Counting *)

LEMMA BijectionCount ==
    ASSUME NEW S, IsFiniteSet(S), NEW T, NEW f \in [S -> T],
           \A a, b \in S : f[a] = f[b] => a = b,
           \A y \in T : \E x \in S : f[x] = y
    PROVE  IsFiniteSet(T) /\ Cardinality(T) = Cardinality(S)
<1>1. f \in Bijection(S, T)
    BY Fun_IsBij
<1>2. ExistsBijection(S, T)
    BY <1>1 DEF ExistsBijection
<1>3. QED
    BY <1>2, FS_Bijection

LEMMA SurjectionCount ==
    ASSUME NEW S, IsFiniteSet(S), NEW T, NEW f \in [S -> T],
           \A y \in T : \E x \in S : f[x] = y
    PROVE  IsFiniteSet(T) /\ Cardinality(T) <= Cardinality(S)
<1>1. f \in Surjection(S, T)
    BY Fun_IsSurj
<1>2. QED
    BY <1>1, FS_Surjection

LEMMA UpTo ==
    ASSUME NEW n \in Nat
    PROVE  IsFiniteSet(1..n) /\ Cardinality(1..n) = n
BY FS_Interval

\* Of a finite set of numbers, k have no more than k of them up to themselves.
LEMMA FirstsCount ==
    ASSUME NEW F \in SUBSET Nat, IsFiniteSet(F), NEW k \in Nat, k <= Cardinality(F)
    PROVE  LET first == {n \in F : Cardinality({m \in F : m <= n}) <= k}
           IN  IsFiniteSet(first) /\ Cardinality(first) = k
<1> DEFINE UpToN(n) == {m \in F : m <= n}
           rank == [n \in F |-> Cardinality(UpToN(n))]
           first == {n \in F : Cardinality({m \in F : m <= n}) <= k}
<1>1. PICK c \in Nat : c = Cardinality(F)
    BY FS_CardinalityType
<1>2. ASSUME NEW n \in F
      PROVE  IsFiniteSet(UpToN(n)) /\ Cardinality(UpToN(n)) \in 1..c
    <2>1. IsFiniteSet(UpToN(n)) /\ Cardinality(UpToN(n)) <= c
        BY <1>1, FS_Subset
    <2>2. n \in UpToN(n)
        OBVIOUS
    <2> HIDE DEF UpToN
    <2>3. Cardinality(UpToN(n)) \in Nat /\ Cardinality(UpToN(n)) # 0
        BY <2>1, <2>2, FS_CardinalityType, FS_EmptySet
    <2>4. QED
        BY <2>1, <2>3
<1>3. ASSUME NEW n \in F, NEW o \in F, n < o
      PROVE  Cardinality(UpToN(n)) < Cardinality(UpToN(o))
    <2>0. n \in Nat /\ o \in Nat /\ \A m \in F : m \in Nat
        OBVIOUS
    <2>1. UpToN(n) \in SUBSET UpToN(o) /\ o \in UpToN(o) /\ o \notin UpToN(n)
        <3>1. \A m \in F : m <= n => m <= o
            BY <1>3, <2>0
        <3>2. o <= o /\ ~ o <= n
            BY <1>3, <2>0
        <3>3. UpToN(n) \subseteq UpToN(o)
            BY <3>1
        <3>4. QED
            BY <3>2, <3>3
    <2>2. /\ IsFiniteSet(UpToN(n)) /\ Cardinality(UpToN(n)) \in 1..c
          /\ IsFiniteSet(UpToN(o)) /\ Cardinality(UpToN(o)) \in 1..c
        BY <1>2
    <2> HIDE DEF UpToN
    <2>3. Cardinality(UpToN(n)) <= Cardinality(UpToN(o))
        BY <2>1, <2>2, FS_Subset
    <2>4. Cardinality(UpToN(n)) # Cardinality(UpToN(o))
        BY <2>1, <2>2, FS_Subset
    <2>5. QED
        BY <2>2, <2>3, <2>4
<1>4. rank \in [F -> 1..c]
    BY <1>2
<1>5. \A n \in F : rank[n] = Cardinality({m \in F : m <= n})
    OBVIOUS
<1>6. ASSUME NEW n \in F, NEW o \in F, rank[n] = rank[o]
      PROVE  n = o
    <2>1. /\ rank[n] = Cardinality(UpToN(n)) /\ Cardinality(UpToN(n)) \in 1..c
          /\ rank[o] = Cardinality(UpToN(o)) /\ Cardinality(UpToN(o)) \in 1..c
        BY <1>2
    <2>2. n \in Nat /\ o \in Nat
        OBVIOUS
    <2> HIDE DEF UpToN, rank
    <2>3. ~ n < o /\ ~ o < n
        <3>1. PICK i \in 1..c : i = Cardinality(UpToN(n)) /\ i = Cardinality(UpToN(o))
            BY <1>6, <2>1
        <3>2. n < o => Cardinality(UpToN(n)) < Cardinality(UpToN(o))
            BY <1>3
        <3>3. o < n => Cardinality(UpToN(o)) < Cardinality(UpToN(n))
            BY <1>3
        <3>4. ~ i < i
            OBVIOUS
        <3>5. QED
            BY <3>1, <3>2, <3>3, <3>4
    <2>4. QED
        BY <2>2, <2>3
<1> HIDE DEF UpToN, rank
<1>7. rank \in Injection(F, 1..c)
    BY <1>4, <1>6, Fun_IsInj
<1>8. rank \in Surjection(F, 1..c)
    BY <1>1, <1>7, UpTo, FS_Injection
<1>9. \A y \in 1..c : \E x \in F : rank[x] = y
    BY <1>8, Fun_SurjectionProperties
<1>10. first \in SUBSET F /\ IsFiniteSet(first)
    BY FS_Subset
<1>11. \A n \in F : n \in first <=> rank[n] <= k
    BY <1>5
<1> HIDE DEF first
<1> DEFINE rk == [n \in first |-> rank[n]]
<1>12. rk \in [first -> 1..k]
    BY <1>4, <1>10, <1>11
<1>13. \A a, b \in first : rk[a] = rk[b] => a = b
    BY <1>6, <1>10
<1>14. \A y \in 1..k : \E x \in first : rk[x] = y
    <2>1. SUFFICES ASSUME NEW y \in 1..k
                   PROVE  \E x \in first : rk[x] = y
        OBVIOUS
    <2>2. y \in 1..c
        BY <1>1
    <2>3. PICK x \in F : rank[x] = y
        BY <1>9, <2>2
    <2>4. x \in first
        BY <1>11, <2>3
    <2>5. QED
        BY <2>3, <2>4
<1>15. Cardinality(1..k) = Cardinality(first)
    <2> HIDE DEF rk
    <2>1. QED
        BY <1>10, <1>12, <1>13, <1>14, BijectionCount
<1>16. QED
    BY <1>10, <1>15, UpTo DEF first

\* k requests of tab t are there beside others.
Joined(t, k, act, done, others) ==
    /\ others \subseteq requests' /\ IsFiniteSet(requests')
    /\ Cardinality(requests' \ others) = k
    /\ \A r \in requests' \ others :
           r.tab = t /\ r.act = act /\ r.mounted = TRUE /\ r.done = done

\* Send adds k requests, as MaxRequests leaves room for them.
LEMMA SendCounts ==
    ASSUME NEW t \in Tab, NEW k \in Nat, NEW act, NEW store, NEW done,
           NEW others \in SUBSET Request, IsFiniteSet(others),
           Send(t, k, act, store, done, others)
    PROVE  Joined(t, k, act, done, others)
<1> DEFINE mine == {q \in others : q.tab = t}
           used == {r.n : r \in mine}
           free == 1..MaxRequests \ used
           first == {n \in free : Cardinality({m \in free : m <= n}) <= k}
           new(n) == [tab |-> t, n |-> n, act |-> act, token |-> store, mounted |-> TRUE,
                      done |-> done]
           fresh == {new(n) : n \in first}
<1>1. Cardinality(others) + k <= MaxRequests /\ requests' = others \cup fresh
    BY DEF Send
<1>2. IsFiniteSet(used) /\ Cardinality(used) <= Cardinality(others)
    <2>1. IsFiniteSet(mine) /\ Cardinality(mine) <= Cardinality(others)
        BY FS_Subset
    <2> DEFINE f == [r \in mine |-> r.n]
    <2>2. f \in [mine -> used] /\ \A y \in used : \E x \in mine : f[x] = y
        OBVIOUS
    <2> HIDE DEF f, used, mine
    <2>3. IsFiniteSet(used) /\ Cardinality(used) <= Cardinality(mine)
        BY <2>1, <2>2, SurjectionCount
    <2>4. Cardinality(used) \in Nat /\ Cardinality(mine) \in Nat /\ Cardinality(others) \in Nat
        BY <2>1, <2>3, FS_CardinalityType
    <2>5. QED
        BY <2>1, <2>3, <2>4
<1>3. free \in SUBSET Nat /\ IsFiniteSet(free) /\ k <= Cardinality(free)
    <2> HIDE DEF used
    <2>1. free \in SUBSET Nat
        OBVIOUS
    <2>2. IsFiniteSet(1..MaxRequests) /\ Cardinality(1..MaxRequests) = MaxRequests
        BY UpTo
    <2> DEFINE both == (1..MaxRequests) \cap used
    <2>3. IsFiniteSet(both) /\ Cardinality(both) <= Cardinality(used)
        BY <1>2, FS_Subset
    <2>4. IsFiniteSet(free) /\ Cardinality(free) = MaxRequests - Cardinality(both)
        BY <2>2, FS_Difference
    <2> HIDE DEF both, free
    <2>5. /\ Cardinality(both) \in Nat /\ Cardinality(used) \in Nat
          /\ Cardinality(others) \in Nat
        BY <1>2, <2>3, FS_CardinalityType
    <2>6. k <= Cardinality(free)
        BY <1>1, <1>2, <2>3, <2>4, <2>5
    <2>7. QED
        BY <2>1, <2>4, <2>6
<1>4. \A n \in free : \A q \in others : q.tab = t => q.n # n
    OBVIOUS
<1>5. first \subseteq free
    OBVIOUS
<1>6. IsFiniteSet(first) /\ Cardinality(first) = k
    <2> HIDE DEF free
    <2>1. QED
        BY <1>3, FirstsCount
<1>7. \A n : /\ new(n).tab = t /\ new(n).n = n /\ new(n).act = act
             /\ new(n).mounted = TRUE /\ new(n).done = done
    OBVIOUS
<1> HIDE DEF free, first, new
<1>8. IsFiniteSet(fresh) /\ Cardinality(fresh) = k
    <2> DEFINE f == [n \in first |-> new(n)]
    <2>1. f \in [first -> fresh] /\ \A y \in fresh : \E x \in first : f[x] = y
        OBVIOUS
    <2>2. \A a, b \in first : f[a] = f[b] => a = b
        BY <1>7
    <2> HIDE DEF f, fresh
    <2>3. QED
        BY <1>6, <2>1, <2>2, BijectionCount
<1>9. fresh = requests' \ others
    <2>1. \A n \in first : new(n) \notin others
        BY <1>4, <1>5, <1>7
    <2>2. QED
        BY <1>1, <2>1
<1>10. \A r \in fresh : r.tab = t /\ r.act = act /\ r.mounted = TRUE /\ r.done = done
    BY <1>7
<1> HIDE DEF fresh
<1>11. IsFiniteSet(requests')
    BY <1>1, <1>8, FS_Union
<1>12. QED
    BY <1>1, <1>8, <1>9, <1>10, <1>11 DEF Joined

--------------------------------------------------------------------------------
(***************************************************************************)
(* What a page shows.  As long as no request of a load has been rejected,  *)
(* those accepted and those still waited for make up the load; a save that *)
(* the page waits for is the only one, and tells how many went before it.  *)
(***************************************************************************)

Waiting(t) == {r \in requests : r.tab = t /\ r.mounted}

Pending(t) == {r \in Waiting(t) : r.act = "load"}

PageSound(t) ==
    LET s == tab[t] IN
    /\ Loads[s.page] = 0 => Pending(t) = {} /\ s.shows # "data"
    /\ Loads[s.page] # 0 => s.shows \in {"busy", "data", "error"}
    /\ Loads[s.page] # 0 /\ s.shows # "error" =>
           s.accepted + Cardinality(Pending(t)) = Loads[s.page]
    /\ s.shows = "data" => s.accepted = Loads[s.page]
    /\ s.shows = "success" => s.page = "publish" /\ s.accepted = Saves
    /\ \A r \in Waiting(t) : r.act \in {"login", "register"} => s.page = r.act
    /\ \A r \in Waiting(t) : r.act = "save" =>
           s.page = "publish" /\ s.shows = "busy" /\ s.accepted = r.done
    /\ \A r, q \in Waiting(t) : r.act = "save" /\ q.act = "save" => r = q

PagesSound == \A t \in Tab : PageSound(t)

ShownInv == IsFiniteSet(requests) /\ PagesSound

\* The page is as it was and waits for the same requests, but for some that are
\* not of its load.
LEMMA SameShown ==
    ASSUME NEW u \in Tab, PageSound(u),
           tab'[u].page = tab[u].page, tab'[u].shows = tab[u].shows,
           tab'[u].accepted = tab[u].accepted,
           Waiting(u)' \subseteq Waiting(u), Pending(u)' = Pending(u)
    PROVE  PageSound(u)'
<1>1. /\ Loads[tab[u].page] = 0 => Pending(u) = {} /\ tab[u].shows # "data"
      /\ Loads[tab[u].page] # 0 => tab[u].shows \in {"busy", "data", "error"}
      /\ Loads[tab[u].page] # 0 /\ tab[u].shows # "error" =>
             tab[u].accepted + Cardinality(Pending(u)) = Loads[tab[u].page]
      /\ tab[u].shows = "data" => tab[u].accepted = Loads[tab[u].page]
      /\ tab[u].shows = "success" => tab[u].page = "publish" /\ tab[u].accepted = Saves
    BY DEF PageSound
<1>2. /\ \A r \in Waiting(u) : r.act \in {"login", "register"} => tab[u].page = r.act
      /\ \A r \in Waiting(u) : r.act = "save" =>
             tab[u].page = "publish" /\ tab[u].shows = "busy" /\ tab[u].accepted = r.done
      /\ \A r, q \in Waiting(u) : r.act = "save" /\ q.act = "save" => r = q
    BY DEF PageSound
<1>3. /\ \A r \in Waiting(u)' : r.act \in {"login", "register"} => tab'[u].page = r.act
      /\ \A r \in Waiting(u)' : r.act = "save" =>
             tab'[u].page = "publish" /\ tab'[u].shows = "busy" /\ tab'[u].accepted = r.done
      /\ \A r, q \in Waiting(u)' : r.act = "save" /\ q.act = "save" => r = q
    BY <1>2
<1>4. QED
    BY <1>1, <1>3 DEF PageSound

\* A page that is new waits for its load and for nothing else.
LEMMA FreshPage ==
    ASSUME NEW u \in Tab, NEW q \in Page, tab'[u].page = q,
           tab'[u].shows = (IF Loads[q] = 0 THEN "form" ELSE "busy"), tab'[u].accepted = 0,
           \A r \in Waiting(u)' : r.act = "load",
           IsFiniteSet(Waiting(u)'), Cardinality(Waiting(u)') = Loads[q]
    PROVE  PageSound(u)'
<1>1. Pending(u)' = Waiting(u)'
    BY DEF Pending
<1>2. Loads[q] = 0 => Pending(u)' = {}
    BY <1>1, FS_EmptySet
<1>3. Loads[q] \in Nat
    BY PageFacts
<1>4. 0 + Cardinality(Pending(u)') = Loads[q]
    BY <1>1, <1>3
<1>5. QED
    BY <1>2, <1>4 DEF PageSound

\* What the tab of a new page waits for, and the other tabs, when the requests are
\* those of others and k more.
LEMMA FreshRequests ==
    ASSUME TypeOK, PagesSound, NEW t \in Tab, NEW q \in Page, NEW store, NEW left \in SUBSET Request,
           IsFiniteSet(left), Send(t, Loads[q], "load", store, 0, left),
           \A r \in left : r.tab = t => r.mounted = FALSE,
           \A r \in left : r.tab # t => r \in requests,
           \A r \in requests : r.tab # t /\ r.act = "load" => r \in left,
           tab'[t].page = q, tab'[t].shows = (IF Loads[q] = 0 THEN "form" ELSE "busy"),
           tab'[t].accepted = 0,
           \A u \in Tab \ {t} : tab'[u] = tab[u]
    PROVE  ShownInv'
<1> DEFINE fresh == requests' \ left
<1>1. PICK k \in Nat : k = Loads[q]
    BY PageFacts
<1>2. /\ left \subseteq requests' /\ IsFiniteSet(requests')
      /\ IsFiniteSet(fresh) /\ Cardinality(fresh) = Loads[q]
      /\ \A r \in fresh : r.tab = t /\ r.act = "load" /\ r.mounted = TRUE
    <2>1. Send(t, k, "load", store, 0, left)
        BY <1>1
    <2>2. Joined(t, k, "load", 0, left)
        BY <2>1, SendCounts
    <2>3. /\ left \subseteq requests' /\ IsFiniteSet(requests')
          /\ Cardinality(requests' \ left) = k
          /\ \A r \in requests' \ left :
                 r.tab = t /\ r.act = "load" /\ r.mounted = TRUE /\ r.done = 0
        BY <2>2 DEF Joined
    <2>4. IsFiniteSet(fresh)
        BY <2>3, FS_Subset
    <2>5. QED
        BY <1>1, <2>3, <2>4
<1>3. Waiting(t)' = fresh
    BY <1>2 DEF Waiting
<1>4. PageSound(t)'
    <2>1. \A r \in Waiting(t)' : r.act = "load"
        BY <1>2, <1>3
    <2>2. IsFiniteSet(Waiting(t)') /\ Cardinality(Waiting(t)') = Loads[q]
        BY <1>2, <1>3
    <2>3. QED
        BY <2>1, <2>2, FreshPage
<1>5. ASSUME NEW u \in Tab \ {t}
      PROVE  PageSound(u)'
    <2>1. Waiting(u)' \subseteq Waiting(u)
        BY <1>2 DEF Waiting
    <2>2. Pending(u) \subseteq Pending(u)'
        BY <1>2 DEF Waiting, Pending
    <2>3. Pending(u)' \subseteq Pending(u)
        BY <2>1 DEF Pending
    <2>4. PageSound(u) /\ tab'[u] = tab[u]
        BY DEF PagesSound
    <2>5. Pending(u)' = Pending(u)
        BY <2>2, <2>3
    <2>6. QED
        BY <2>1, <2>4, <2>5, SameShown
<1>6. QED
    BY <1>2, <1>4, <1>5 DEF ShownInv, PagesSound

LEMMA RouteShown ==
    ASSUME TypeOK, ShownInv, NEW t \in Tab, NEW p \in Page, NEW store,
           NEW others \in SUBSET requests, \A r \in requests \ others : r.act # "load",
           Route(t, p, store, others)
    PROVE  ShownInv'
<1> DEFINE q == ProtectedRoute(p, tab[t].page, store)
           left == Unmounted(t, others)
<1>1. q \in Page /\ Mounted(q) \in TabState
    BY RoutedPage, PageFacts
<1>2. IsFiniteSet(others) /\ others \in SUBSET Request
    BY FS_Subset DEF ShownInv, TypeOK
<1>3. CASE requests' = others /\ UNCHANGED tab
    <2>1. ASSUME NEW u \in Tab
          PROVE  PageSound(u)'
        <3>1. Waiting(u)' \subseteq Waiting(u) /\ Pending(u)' = Pending(u)
            BY <1>3 DEF Waiting, Pending
        <3>2. PageSound(u) /\ tab'[u] = tab[u]
            BY <1>3 DEF ShownInv, PagesSound
        <3>3. QED
            BY <3>1, <3>2, SameShown
    <2>2. QED
        BY <1>2, <1>3, <2>1 DEF ShownInv, PagesSound
<1>4. CASE /\ tab' = [tab EXCEPT ![t] = [Mounted(q) EXCEPT !.leaving = tab[t].leaving]]
           /\ Send(t, Loads[q], "load", store, 0, left)
    <2> HIDE DEF q
    <2>1. left \in SUBSET Request /\ IsFiniteSet(left)
        <3>1. left \in SUBSET Request
            BY <1>2, UnmountedSame
        <3> DEFINE f == [r \in others |-> IF r.tab = t THEN [r EXCEPT !.mounted = FALSE] ELSE r]
        <3>2. f \in [others -> left] /\ \A y \in left : \E x \in others : f[x] = y
            BY DEF Unmounted
        <3> HIDE DEF f, left
        <3>3. IsFiniteSet(left)
            BY <1>2, <3>2, SurjectionCount
        <3>4. QED
            BY <3>1, <3>3
    <2>2. ASSUME NEW r \in left
          PROVE  (r.tab = t => r.mounted = FALSE) /\ (r.tab # t => r \in requests)
        <3>1. PICK r0 \in others : r0.tab = r.tab
                    /\ r = IF r0.tab = t THEN [r0 EXCEPT !.mounted = FALSE] ELSE r0
            BY <1>2, UnmountedSame
        <3>2. r0 \in Request
            BY <1>2
        <3>3. QED
            BY <3>1, <3>2 DEF Request
    <2>3. \A r \in requests : r.tab # t /\ r.act = "load" => r \in left
        BY DEF Unmounted
    <2>4. /\ tab'[t].page = q /\ tab'[t].accepted = 0
          /\ tab'[t].shows = (IF Loads[q] = 0 THEN "form" ELSE "busy")
          /\ \A u \in Tab \ {t} : tab'[u] = tab[u]
        <3>1. tab'[t] = [Mounted(q) EXCEPT !.leaving = tab[t].leaving]
            BY <1>4 DEF TypeOK
        <3>2. \A u \in Tab \ {t} : tab'[u] = tab[u]
            BY <1>4 DEF TypeOK
        <3>3. QED
            BY <3>1, <3>2 DEF Mounted
    <2> HIDE DEF left
    <2>6. /\ \A r \in left : r.tab = t => r.mounted = FALSE
          /\ \A r \in left : r.tab # t => r \in requests
        BY <2>2
    <2>5. QED
        BY <1>1, <1>4, <2>1, <2>6, <2>2, <2>3, <2>4, FreshRequests DEF ShownInv
<1>5. QED
    BY <1>3, <1>4 DEF Route

LEMMA PagesShown ==
    ASSUME IInv, ShownInv, NEW t \in Tab, NEW p \in Page,
           Navigate(t, p) \/ Open(t, p) \/ Logout(t)
    PROVE  ShownInv'
<1>1. TypeOK /\ requests \in SUBSET requests
    BY DEF IInv
<1>2. CASE Navigate(t, p)
    BY <1>1, <1>2, RouteShown DEF Navigate
<1>3. CASE Logout(t)
    BY <1>1, <1>3, RouteShown, PageFacts DEF Logout
<1>4. CASE Open(t, p)
    <2> DEFINE q == ProtectedRoute(p, "login", token)
               left == requests \ OfTab(t)
    <2>1. /\ tab' = [tab EXCEPT ![t] = Mounted(q)]
          /\ Send(t, Loads[q], "load", token, 0, left)
        BY <1>4 DEF Open
    <2>2. q \in Page
        BY RoutedPage
    <2>3. /\ left \in SUBSET Request /\ IsFiniteSet(left)
        BY <1>1, FS_Subset DEF ShownInv, TypeOK
    <2>4. /\ \A r \in left : r.tab = t => r.mounted = FALSE
          /\ \A r \in left : r.tab # t => r \in requests
          /\ \A r \in requests : r.tab # t /\ r.act = "load" => r \in left
        BY DEF OfTab
    <2> HIDE DEF q, left
    <2>5. /\ tab'[t].page = q /\ tab'[t].accepted = 0
          /\ tab'[t].shows = (IF Loads[q] = 0 THEN "form" ELSE "busy")
          /\ \A u \in Tab \ {t} : tab'[u] = tab[u]
        BY <1>1, <2>1 DEF TypeOK, Mounted
    <2>6. QED
        BY <1>1, <2>1, <2>2, <2>3, <2>4, <2>5, FreshRequests DEF ShownInv
<1>5. QED
    BY <1>2, <1>3, <1>4

\* A form, or PublishPage, sends one request and waits for it.
LEMMA SubmitShown ==
    ASSUME IInv, ShownInv, NEW t \in Tab,
           NEW page, NEW act, <<page, act>> \in {<<"login", "login">>, <<"register", "register">>,
                                                <<"publish", "save">>},
           Submit(t, page, act)
    PROVE  ShownInv'
<1>1. TypeOK /\ IsFiniteSet(requests) /\ requests \in SUBSET Request /\ PageSound(t)
    BY DEF IInv, TypeOK, ShownInv, PagesSound
<1>2. /\ tab[t].page = page /\ tab[t].shows \in {"form", "error"}
      /\ tab' = [tab EXCEPT ![t] = [@ EXCEPT !.shows = "busy", !.accepted = 0]]
      /\ Send(t, 1, act, token, 0, requests)
    BY DEF Submit
<1>3. /\ page \in {"login", "register", "publish"} /\ act \in {"login", "register", "save"}
      /\ act \in {"login", "register"} => act = page
      /\ act = "save" => page = "publish"
      /\ Loads[page] = 0
    BY DEF Loads, PublishPage
<1> DEFINE fresh == requests' \ requests
<1>4. /\ requests \subseteq requests' /\ IsFiniteSet(requests') /\ Cardinality(fresh) = 1
      /\ \A r \in fresh : r.tab = t /\ r.act = act /\ r.mounted = TRUE /\ r.done = 0
    <2>1. Joined(t, 1, act, 0, requests)
        BY <1>1, <1>2, SendCounts
    <2>2. QED
        BY <2>1 DEF Joined
<1>5. \A r, q \in fresh : r = q
    <2>1. IsFiniteSet(fresh)
        BY <1>4, FS_Subset
    <2> HIDE DEF fresh
    <2>2. \E x : fresh = {x}
        BY <1>4, <2>1, FS_Singleton
    <2>3. QED
        BY <2>2
<1>6. /\ tab'[t].page = page /\ tab'[t].shows = "busy" /\ tab'[t].accepted = 0
      /\ \A u \in Tab \ {t} : tab'[u] = tab[u]
    <2>1. tab[t] \in TabState
        BY <1>1 DEF TypeOK
    <2>2. tab'[t] = [tab[t] EXCEPT !.shows = "busy", !.accepted = 0]
        BY <1>1, <1>2 DEF TypeOK
    <2>3. \A u \in Tab \ {t} : tab'[u] = tab[u]
        BY <1>1, <1>2 DEF TypeOK
    <2>4. QED
        BY <1>2, <2>1, <2>2, <2>3 DEF TabState
<1> HIDE DEF fresh
<1>7. \A r \in Waiting(t)' : r \in fresh \/ r \in Waiting(t)
    BY DEF Waiting, fresh
<1>8. \A r \in Waiting(t) : r.act # "load" /\ r.act # "save"
    <2>1. Pending(t) = {}
        BY <1>1, <1>2, <1>3 DEF PageSound
    <2>2. \A r \in Waiting(t) : r.act = "save" => tab[t].shows = "busy"
        BY <1>1 DEF PageSound
    <2>3. QED
        BY <1>2, <2>1, <2>2 DEF Pending
<1>9. PageSound(t)'
    <2>1. \A r \in Waiting(t)' : r.act # "load"
        BY <1>3, <1>4, <1>7, <1>8
    <2>2. Pending(t)' = {}
        BY <2>1 DEF Pending
    <2>3. \A r \in Waiting(t)' : r.act \in {"login", "register"} => page = r.act
        <3>1. \A r \in Waiting(t) : r.act \in {"login", "register"} => page = r.act
            BY <1>1, <1>2 DEF PageSound
        <3>2. QED
            BY <1>3, <1>4, <1>7, <3>1
    <2>4. \A r \in Waiting(t)' : r.act = "save" => r \in fresh /\ page = "publish" /\ r.done = 0
        BY <1>3, <1>4, <1>7, <1>8
    <2>5. \A r, q \in Waiting(t)' : r.act = "save" /\ q.act = "save" => r = q
        BY <1>5, <2>4
    <2>6. QED
        BY <1>3, <1>6, <2>2, <2>3, <2>4, <2>5 DEF PageSound
<1>10. ASSUME NEW u \in Tab \ {t}
       PROVE  PageSound(u)'
    <2>1. Waiting(u)' = Waiting(u)
        BY <1>4 DEF Waiting, fresh
    <2>2. Pending(u)' = Pending(u)
        BY <2>1 DEF Pending
    <2>3. PageSound(u) /\ tab'[u] = tab[u]
        BY <1>6 DEF ShownInv, PagesSound
    <2>4. QED
        BY <2>1, <2>2, <2>3, SameShown
<1>11. QED
    BY <1>4, <1>9, <1>10 DEF ShownInv, PagesSound

\* After a success nothing is waited for.
LEMMA ResetShown ==
    ASSUME IInv, ShownInv, NEW t \in Tab, ResetAll(t)
    PROVE  ShownInv'
<1>1. TypeOK /\ PageSound(t)
    BY DEF IInv, ShownInv, PagesSound
<1>2. /\ tab[t].shows = "success" /\ requests' = requests
      /\ tab' = [tab EXCEPT ![t] = [Mounted("publish") EXCEPT !.leaving = tab[t].leaving]]
    BY DEF ResetAll
<1>3. /\ tab'[t].page = "publish" /\ tab'[t].shows = "form" /\ tab'[t].accepted = 0
      /\ \A u \in Tab \ {t} : tab'[u] = tab[u]
    <2>1. tab'[t] = [Mounted("publish") EXCEPT !.leaving = tab[t].leaving]
        BY <1>1, <1>2 DEF TypeOK
    <2>2. \A u \in Tab \ {t} : tab'[u] = tab[u]
        BY <1>1, <1>2 DEF TypeOK
    <2>3. QED
        BY <2>1, <2>2 DEF Mounted, Loads, PublishPage
<1>4. \A u : Waiting(u)' = Waiting(u) /\ Pending(u)' = Pending(u)
    BY <1>2 DEF Waiting, Pending
<1>5. PageSound(t)'
    <2>1. tab[t].page = "publish" /\ Loads["publish"] = 0
        BY <1>1, <1>2 DEF PageSound, Loads, PublishPage
    <2>2. Pending(t)' = {}
        BY <1>1, <1>4, <2>1 DEF PageSound
    <2>3. \A r \in Waiting(t) : r.act \notin {"login", "register", "save"}
        BY <1>1, <1>2, <2>1 DEF PageSound
    <2>4. \A r \in Waiting(t)' : r.act \notin {"login", "register", "save"}
        BY <1>4, <2>3
    <2>5. QED
        BY <1>3, <2>1, <2>2, <2>4 DEF PageSound
<1>6. ASSUME NEW u \in Tab \ {t}
      PROVE  PageSound(u)'
    <2>1. PageSound(u) /\ tab'[u] = tab[u]
        BY <1>3 DEF ShownInv, PagesSound
    <2>2. QED
        BY <1>4, <2>1, SameShown
<1>7. QED
    BY <1>2, <1>5, <1>6 DEF ShownInv, PagesSound

LEMMA UnchangedShown ==
    ASSUME ShownInv, tab' = tab, requests' = requests
    PROVE  ShownInv'
<1>1. ASSUME NEW u \in Tab
      PROVE  PageSound(u)'
    <2>1. Waiting(u)' = Waiting(u) /\ Pending(u)' = Pending(u)
        BY DEF Waiting, Pending
    <2>2. PageSound(u)
        BY DEF ShownInv, PagesSound
    <2>3. QED
        BY <2>1, <2>2, SameShown
<1>2. QED
    BY <1>1 DEF ShownInv, PagesSound

\* Tab t shows what s says.
ShowsAs(t, s) ==
    tab'[t].page = s.page /\ tab'[t].shows = s.shows /\ tab'[t].accepted = s.accepted

\* Only the page of the tab that is answered changes, and only if it waits.
LEMMA AnsweredTab ==
    ASSUME TypeOK, NEW r \in requests, NEW answer, NEW page \in TabState,
           Answered(r, answer, page)
    PROVE  /\ r.mounted => ShowsAs(r.tab, page)
           /\ ~ r.mounted => ShowsAs(r.tab, tab[r.tab])
           /\ \A u \in Tab \ {r.tab} : tab'[u] = tab[u]
<1> DEFINE seen == IF r.mounted THEN page ELSE tab[r.tab]
<1>1. r.tab \in Tab /\ tab[r.tab] \in TabState
    BY DEF TypeOK, Request
<1>2. tab' = [tab EXCEPT ![r.tab] =
                 [seen EXCEPT !.leaving = seen.leaving \/ Unauthorized(answer)]]
    BY DEF Answered
<1>3. seen \in TabState
    BY <1>1
<1> HIDE DEF seen
<1>4. tab'[r.tab] = [seen EXCEPT !.leaving = seen.leaving \/ Unauthorized(answer)]
    BY <1>1, <1>2 DEF TypeOK
<1>5. \A u \in Tab \ {r.tab} : tab'[u] = tab[u]
    BY <1>1, <1>2 DEF TypeOK
<1>6. /\ tab'[r.tab].page = seen.page /\ tab'[r.tab].shows = seen.shows
      /\ tab'[r.tab].accepted = seen.accepted
    BY <1>3, <1>4 DEF TabState
<1>7. QED
    BY <1>5, <1>6 DEF seen, ShowsAs

\* An answer to a page that has been left changes nothing that a page shows.
LEMMA LeftPageShown ==
    ASSUME IInv, ShownInv, NEW r \in requests, r.mounted = FALSE, NEW answer,
           NEW page \in TabState, Answered(r, answer, page),
           IsFiniteSet(requests'),
           \A u \in Tab : Waiting(u)' = Waiting(u)
    PROVE  ShownInv'
<1>1. TypeOK /\ r.tab \in Tab
    BY DEF IInv, TypeOK, Request
<1>2. /\ tab'[r.tab].page = tab[r.tab].page /\ tab'[r.tab].shows = tab[r.tab].shows
      /\ tab'[r.tab].accepted = tab[r.tab].accepted
      /\ \A u \in Tab \ {r.tab} : tab'[u] = tab[u]
    BY <1>1, AnsweredTab DEF ShowsAs
<1>3. ASSUME NEW u \in Tab
      PROVE  PageSound(u)'
    <2>1. Pending(u)' = Pending(u)
        BY DEF Pending
    <2>2. /\ tab'[u].page = tab[u].page /\ tab'[u].shows = tab[u].shows
          /\ tab'[u].accepted = tab[u].accepted
        BY <1>2
    <2>3. PageSound(u)
        BY DEF ShownInv, PagesSound
    <2>4. QED
        BY <2>1, <2>2, <2>3, SameShown
<1>4. QED
    BY <1>3 DEF ShownInv, PagesSound

\* The other tabs, when one is answered.
LEMMA OthersShown ==
    ASSUME ShownInv, NEW t \in Tab, \A u \in Tab \ {t} : tab'[u] = tab[u],
           \A u \in Tab \ {t} : Waiting(u)' = Waiting(u),
           IsFiniteSet(requests'), PageSound(t)'
    PROVE  ShownInv'
<1>1. ASSUME NEW u \in Tab \ {t}
      PROVE  PageSound(u)'
    <2>1. Pending(u)' = Pending(u)
        BY DEF Pending
    <2>2. PageSound(u) /\ tab'[u] = tab[u]
        BY DEF ShownInv, PagesSound
    <2>3. QED
        BY <2>1, <2>2, SameShown
<1>2. QED
    BY <1>1 DEF ShownInv, PagesSound

LEMMA CountedIs ==
    ASSUME TypeOK, NEW r \in requests, NEW answer
    PROVE  /\ Counted(r, answer).page = tab[r.tab].page
           /\ Counted(r, answer).shows = tab[r.tab].shows
           /\ Counted(r, answer).accepted =
                  tab[r.tab].accepted + (IF answer = "ok" THEN 1 ELSE 0)
<1>1. tab[r.tab] \in TabState
    BY DEF TypeOK, Request
<1>2. CASE answer = "ok"
    <2>1. Counted(r, answer) = [tab[r.tab] EXCEPT !.accepted = tab[r.tab].accepted + 1]
        BY <1>2 DEF Counted
    <2>2. QED
        BY <1>1, <1>2, <2>1 DEF TabState
<1>3. CASE answer # "ok"
    <2>1. Counted(r, answer) = [tab[r.tab] EXCEPT !.accepted = tab[r.tab].accepted]
        BY <1>3 DEF Counted
    <2>2. QED
        BY <1>1, <1>3, <2>1 DEF TabState
<1>4. QED
    BY <1>2, <1>3

LEMMA AnswersAre ==
    ASSUME NEW r, r.act \in {"load", "save"}, NEW answer \in Answers(r)
    PROVE  answer \in {"ok", "failed", "unauthorized"} /\ (~ Rejects(answer) <=> answer = "ok")
BY DEF Answers, Rejects

\* One request less is waited for: data is shown after the last one.
LEMMA LoadShown ==
    ASSUME IInv, ShownInv, NEW r \in requests, NEW answer, LoadAnswered(r, answer)
    PROVE  ShownInv'
<1> DEFINE t == r.tab
           page == Counted(r, answer)
           shows == CASE Rejects(answer) -> "error"
                      [] page.shows = "busy" /\ ~ Rejects(answer) /\ ~ Waits(r) -> "data"
                      [] OTHER -> page.shows
           seen == [page EXCEPT !.shows = shows]
<1>1. /\ TypeOK /\ t \in Tab /\ tab[t] \in TabState /\ IsFiniteSet(requests) /\ PageSound(t)
    BY DEF IInv, TypeOK, Request, ShownInv, PagesSound
<1>2. /\ r.act = "load" /\ answer \in Answers(r) /\ Answered(r, answer, seen)
      /\ requests' = requests \ {r}
    BY DEF LoadAnswered
<1>3. answer \in {"ok", "failed", "unauthorized"} /\ (~ Rejects(answer) <=> answer = "ok")
    BY <1>2, AnswersAre
<1>4. /\ page \in TabState /\ page.page = tab[t].page /\ page.shows = tab[t].shows
      /\ page.accepted = tab[t].accepted + (IF answer = "ok" THEN 1 ELSE 0)
    BY <1>1, CountedKeeps, CountedIs
<1>5. /\ answer # "ok" => shows = "error"
      /\ answer = "ok" => shows = IF tab[t].shows = "busy" /\ ~ Waits(r) THEN "data" ELSE tab[t].shows
    BY <1>3, <1>4
<1> HIDE DEF page, shows, seen
<1>6. /\ seen \in TabState /\ seen.page = tab[t].page /\ seen.shows = shows
      /\ seen.accepted = tab[t].accepted + (IF answer = "ok" THEN 1 ELSE 0)
    <2>1. shows \in {"form", "busy", "data", "success", "error"}
        BY <1>1, <1>5 DEF TabState
    <2>2. seen = [page EXCEPT !.shows = shows]
        BY DEF seen
    <2>3. QED
        BY <1>4, <2>1, <2>2 DEF TabState
<1>7. IsFiniteSet(requests') /\ \A u \in Tab \ {t} : Waiting(u)' = Waiting(u)
    BY <1>1, <1>2, FS_RemoveElement DEF Waiting
<1>8. CASE r.mounted = FALSE
    <2>1. \A u \in Tab : Waiting(u)' = Waiting(u)
        BY <1>2, <1>8 DEF Waiting
    <2>2. QED
        BY <1>2, <1>6, <1>7, <1>8, <2>1, LeftPageShown
<1>9. CASE r.mounted # FALSE
    <2>1. r \in Pending(t) /\ Waiting(t)' = Waiting(t) \ {r} /\ Pending(t)' = Pending(t) \ {r}
        <3>1. r.mounted
            BY <1>1, <1>9 DEF TypeOK, Request
        <3>2. QED
            BY <1>2, <3>1 DEF Waiting, Pending
    <2>2. /\ tab'[t].page = tab[t].page /\ tab'[t].shows = shows
          /\ tab'[t].accepted = tab[t].accepted + (IF answer = "ok" THEN 1 ELSE 0)
          /\ \A u \in Tab \ {t} : tab'[u] = tab[u]
        <3>1. r.mounted
            BY <1>1, <1>9 DEF TypeOK, Request
        <3>2. ShowsAs(t, seen) /\ \A u \in Tab \ {t} : tab'[u] = tab[u]
            BY <1>1, <1>2, <1>6, <3>1, AnsweredTab
        <3>3. QED
            BY <1>6, <3>2 DEF ShowsAs
    <2>3. PICK l \in Nat : l = Loads[tab[t].page]
        BY <1>1, PageFacts DEF TabState
    <2>4. PICK a \in Nat : a = tab[t].accepted
        BY <1>1 DEF TabState
    <2>5. IsFiniteSet(Pending(t))
        <3>1. Pending(t) \subseteq requests
            BY DEF Pending, Waiting
        <3>2. QED
            BY <1>1, <3>1, FS_Subset
    <2>6. PICK c \in Nat : c = Cardinality(Pending(t))
        BY <2>5, FS_CardinalityType
    <2>7. c # 0 /\ Cardinality(Pending(t)') = c - 1
        <3>1. c # 0
            BY <2>1, <2>5, <2>6, FS_EmptySet
        <3>2. Cardinality(Pending(t) \ {r}) = c - 1
            BY <2>1, <2>5, <2>6, FS_RemoveElement
        <3>3. QED
            BY <2>1, <3>1, <3>2
    <2>8. l # 0 /\ tab[t].shows \in {"busy", "error"} /\ (tab[t].shows = "busy" => a + c = l)
        <3>1. l # 0
            BY <1>1, <2>1, <2>3 DEF PageSound
        <3>2. tab[t].shows \in {"busy", "data", "error"}
            BY <1>1, <2>3, <3>1 DEF PageSound
        <3>3. tab[t].shows # "error" => a + c = l
            BY <1>1, <2>3, <2>4, <2>6, <3>1 DEF PageSound
        <3>4. tab[t].shows = "data" => a = l
            BY <1>1, <2>3, <2>4 DEF PageSound
        <3>5. a + c = l => a # l
            BY <2>7
        <3>6. QED
            BY <3>1, <3>2, <3>3, <3>4, <3>5
    <2>9. ~ Waits(r) => c = 1
        <3>1. ASSUME ~ Waits(r)
              PROVE  Pending(t) = {r}
            BY <2>1, <3>1 DEF Waits, Pending, Waiting
        <3>2. QED
            BY <2>5, <2>6, <3>1, FS_Singleton
    <2>10. shows \in {"busy", "data", "error"}
        BY <1>5, <2>8
    <2>11. shows # "error" => tab'[t].accepted = a + 1 /\ (a + 1) + (c - 1) = l
        BY <1>5, <2>2, <2>4, <2>8
    <2>12. shows = "data" => c = 1
        BY <1>5, <2>8, <2>9
    <2>13. shows = "data" => tab'[t].accepted = l
        BY <2>11, <2>12
    <2>14. /\ \A q \in Waiting(t)' : q.act \in {"login", "register"} => tab[t].page = q.act
           /\ \A q \in Waiting(t)' : q.act # "save"
        <3>1. /\ \A q \in Waiting(t) : q.act \in {"login", "register"} => tab[t].page = q.act
              /\ \A q \in Waiting(t) : q.act = "save" => tab[t].page = "publish"
            BY <1>1 DEF PageSound
        <3>2. Loads["publish"] = 0
            BY DEF Loads, PublishPage
        <3>3. QED
            BY <2>1, <2>3, <2>8, <3>1, <3>2
    <2>15. shows # "error" => tab'[t].accepted + Cardinality(Pending(t)') = l
        BY <2>7, <2>11
    <2>16. PageSound(t)'
        BY <2>2, <2>3, <2>8, <2>10, <2>13, <2>14, <2>15 DEF PageSound
    <2>17. QED
        BY <1>1, <1>7, <2>2, <2>16, OthersShown
<1>10. QED
    BY <1>8, <1>9

\* PublishPage waits for its save alone.
LEMMA SaveAlone ==
    ASSUME IInv, ShownInv, NEW r \in requests, r.act = "save", r.mounted
    PROVE  /\ tab[r.tab].page = "publish" /\ tab[r.tab].shows = "busy"
           /\ tab[r.tab].accepted = r.done /\ Waiting(r.tab) = {r}
<1> DEFINE t == r.tab
<1>1. r \in Request /\ t \in Tab /\ r \in Waiting(t)
    BY DEF IInv, TypeOK, Request, Waiting
<1>2. PageSound(t)
    BY <1>1 DEF ShownInv, PagesSound
<1>3. /\ tab[t].page = "publish" /\ tab[t].shows = "busy" /\ tab[t].accepted = r.done
    BY <1>1, <1>2 DEF PageSound
<1>4. Loads["publish"] = 0
    BY DEF Loads, PublishPage
<1>5. Pending(t) = {}
    BY <1>2, <1>3, <1>4 DEF PageSound
<1>6. ASSUME NEW q \in Waiting(t)
      PROVE  q = r
    <2>1. q.act \in {"login", "register", "load", "save"}
        BY <1>6 DEF Waiting, IInv, TypeOK, Request
    <2>2. q.act # "load"
        BY <1>5, <1>6 DEF Pending
    <2>3. q.act \notin {"login", "register"}
        <3>1. q.act \in {"login", "register"} => tab[t].page = q.act
            BY <1>2, <1>6 DEF PageSound
        <3>2. QED
            BY <1>3, <3>1
    <2>4. q.act = "save"
        BY <2>1, <2>2, <2>3
    <2>5. QED
        BY <1>1, <1>2, <1>6, <2>4 DEF PageSound
<1>7. QED
    BY <1>1, <1>3, <1>6

\* What is left to wait for after the answer decides what PublishPage may show.
LEMMA PublishSound ==
    ASSUME NEW t \in Tab, tab'[t].page = "publish",
           tab'[t].shows \in {"busy", "success", "error"},
           tab'[t].shows = "success" => tab'[t].accepted = Saves,
           \A r \in Waiting(t)' :
               r.act = "save" /\ tab'[t].shows = "busy" /\ tab'[t].accepted = r.done,
           \A r, q \in Waiting(t)' : r = q
    PROVE  PageSound(t)'
<1>1. Loads["publish"] = 0
    BY DEF Loads, PublishPage
<1>2. Pending(t)' = {}
    BY DEF Pending
<1>3. QED
    BY <1>1, <1>2 DEF PageSound

\* Success is shown after the last of Saves requests, each sent when the one before
\* was accepted.
LEMMA SaveShown ==
    ASSUME IInv, ShownInv, NEW r \in requests, NEW answer, SaveAnswered(r, answer)
    PROVE  ShownInv'
<1> DEFINE t == r.tab
           page == Counted(r, answer)
           next == [r EXCEPT !.done = r.done + 1,
                             !.token = IF Unauthorized(answer) THEN None ELSE token]
<1>1. /\ TypeOK /\ r \in Request /\ t \in Tab /\ tab[t] \in TabState /\ IsFiniteSet(requests)
    BY DEF IInv, TypeOK, Request, ShownInv
<1>2. /\ r.act = "save" /\ answer \in Answers(r)
      /\ \/ /\ Rejects(answer)
            /\ Answered(r, answer, [page EXCEPT !.shows = "error"])
            /\ requests' = requests \ {r}
         \/ /\ ~ Rejects(answer)
            /\ Answered(r, answer, page)
            /\ requests' = (requests \ {r}) \cup {next}
         \/ /\ ~ Rejects(answer) /\ r.done + 1 = Saves
            /\ Answered(r, answer, [page EXCEPT !.shows = "success"])
            /\ requests' = requests \ {r}
    BY DEF SaveAnswered
<1>3. ~ Rejects(answer) <=> answer = "ok"
    BY <1>2, AnswersAre
<1>4. /\ page \in TabState /\ page.page = tab[t].page /\ page.shows = tab[t].shows
      /\ page.accepted = tab[t].accepted + (IF answer = "ok" THEN 1 ELSE 0)
    BY <1>1, CountedKeeps, CountedIs
<1> HIDE DEF page
<1>5. next.tab = t /\ next.act = "save" /\ next.mounted = r.mounted /\ next.done = r.done + 1
    BY <1>1, <1>2 DEF Request
<1> HIDE DEF next
<1>6. PICK seen \in TabState :
          /\ Answered(r, answer, seen) /\ seen.page = tab[t].page
          /\ seen.accepted = tab[t].accepted + (IF answer = "ok" THEN 1 ELSE 0)
          /\ \/ /\ seen.shows = "error" /\ requests' = requests \ {r}
             \/ /\ answer = "ok" /\ seen.shows = tab[t].shows
                /\ requests' = (requests \ {r}) \cup {next}
             \/ /\ answer = "ok" /\ seen.shows = "success" /\ r.done + 1 = Saves
                /\ requests' = requests \ {r}
    <2>1. ASSUME NEW d \in {"error", "success"}
          PROVE  /\ [page EXCEPT !.shows = d] \in TabState
                 /\ [page EXCEPT !.shows = d].shows = d
                 /\ [page EXCEPT !.shows = d].page = page.page
                 /\ [page EXCEPT !.shows = d].accepted = page.accepted
        BY <1>4 DEF TabState
    <2>2. CASE /\ Rejects(answer)
               /\ Answered(r, answer, [page EXCEPT !.shows = "error"])
               /\ requests' = requests \ {r}
        BY <1>4, <2>1, <2>2
    <2>3. CASE /\ ~ Rejects(answer)
               /\ Answered(r, answer, page)
               /\ requests' = (requests \ {r}) \cup {next}
        BY <1>3, <1>4, <2>3
    <2>4. CASE /\ ~ Rejects(answer) /\ r.done + 1 = Saves
               /\ Answered(r, answer, [page EXCEPT !.shows = "success"])
               /\ requests' = requests \ {r}
        BY <1>3, <1>4, <2>1, <2>4
    <2>5. QED
        BY <1>2, <2>2, <2>3, <2>4
<1>7. /\ IsFiniteSet(requests') /\ \A u \in Tab \ {t} : Waiting(u)' = Waiting(u)
      /\ \/ requests' = requests \ {r}
         \/ requests' = (requests \ {r}) \cup {next}
    <2>1. requests' = requests \ {r} \/ requests' = (requests \ {r}) \cup {next}
        BY <1>6
    <2>2. IsFiniteSet(requests \ {r})
        BY <1>1, FS_RemoveElement
    <2>3. IsFiniteSet(requests')
        BY <2>1, <2>2, FS_AddElement
    <2>4. \A u \in Tab \ {t} : Waiting(u)' = Waiting(u)
        BY <1>5, <2>1 DEF Waiting
    <2>5. QED
        BY <2>1, <2>3, <2>4
<1>8. CASE r.mounted = FALSE
    <2>1. \A u \in Tab : Waiting(u)' = Waiting(u)
        BY <1>5, <1>7, <1>8 DEF Waiting
    <2>2. QED
        BY <1>6, <1>7, <1>8, <2>1, LeftPageShown
<1>9. CASE r.mounted # FALSE
    <2>1. r.mounted
        BY <1>1, <1>9 DEF Request
    <2>2. /\ tab[t].page = "publish" /\ tab[t].shows = "busy"
          /\ tab[t].accepted = r.done /\ Waiting(t) = {r}
        BY <1>2, <2>1, SaveAlone
    <2>3. ShowsAs(t, seen) /\ \A u \in Tab \ {t} : tab'[u] = tab[u]
        BY <1>1, <1>6, <2>1, AnsweredTab
    <2>4. Waiting(t)' \subseteq {next}
        BY <1>5, <1>7, <2>2 DEF Waiting
    <2>5. requests' = requests \ {r} => Waiting(t)' = {}
        BY <2>2 DEF Waiting
    <2>6. tab'[t].page = "publish" /\ tab'[t].shows \in {"busy", "success", "error"}
        BY <1>6, <2>2, <2>3 DEF ShowsAs
    <2>7. tab'[t].shows = "success" => tab'[t].accepted = Saves
        BY <1>6, <2>2, <2>3 DEF ShowsAs
    <2>8. \A q \in Waiting(t)' :
              q.act = "save" /\ tab'[t].shows = "busy" /\ tab'[t].accepted = q.done
        BY <1>5, <1>6, <2>2, <2>3, <2>4, <2>5 DEF ShowsAs
    <2>9. \A q, s \in Waiting(t)' : q = s
        BY <2>4
    <2>10. PageSound(t)'
        BY <1>1, <2>6, <2>7, <2>8, <2>9, PublishSound
    <2>11. QED
        BY <1>1, <1>7, <2>3, <2>10, OthersShown
<1>10. QED
    BY <1>8, <1>9

\* A form that is refused waits on a page of its own, which shows no data.
LEMMA FormShown ==
    ASSUME IInv, ShownInv, NEW r \in requests, NEW answer, FormRefused(r, answer)
    PROVE  ShownInv'
<1> DEFINE t == r.tab
           seen == [tab[t] EXCEPT !.shows = "error"]
<1>1. /\ TypeOK /\ r \in Request /\ t \in Tab /\ tab[t] \in TabState
      /\ IsFiniteSet(requests) /\ PageSound(t)
    BY DEF IInv, TypeOK, Request, ShownInv, PagesSound
<1>2. /\ r.act \in {"login", "register"} /\ Answered(r, answer, seen)
      /\ requests' = requests \ {r}
    BY DEF FormRefused
<1>3. /\ seen \in TabState /\ seen.page = tab[t].page /\ seen.shows = "error"
      /\ seen.accepted = tab[t].accepted
    BY <1>1 DEF TabState
<1> HIDE DEF seen
<1>4. IsFiniteSet(requests') /\ \A u \in Tab \ {t} : Waiting(u)' = Waiting(u)
    BY <1>1, <1>2, FS_RemoveElement DEF Waiting
<1>5. CASE r.mounted = FALSE
    <2>1. \A u \in Tab : Waiting(u)' = Waiting(u)
        BY <1>2, <1>5 DEF Waiting
    <2>2. QED
        BY <1>2, <1>3, <1>4, <1>5, <2>1, LeftPageShown
<1>6. CASE r.mounted # FALSE
    <2>1. r.mounted /\ r \in Waiting(t)
        BY <1>1, <1>6 DEF Request, Waiting
    <2>2. tab[t].page = r.act /\ Loads[r.act] = 0
        BY <1>1, <1>2, <2>1 DEF PageSound, Loads
    <2>3. ShowsAs(t, seen) /\ \A u \in Tab \ {t} : tab'[u] = tab[u]
        BY <1>1, <1>2, <1>3, <2>1, AnsweredTab
    <2>4. Pending(t) = {}
        BY <1>1, <2>2 DEF PageSound
    <2>5. Waiting(t)' \subseteq Waiting(t) /\ Pending(t)' = {}
        BY <1>2, <2>4 DEF Waiting, Pending
    <2>6. \A q \in Waiting(t) : q.act # "save"
        <3>1. \A q \in Waiting(t) : q.act = "save" => tab[t].page = "publish"
            BY <1>1 DEF PageSound
        <3>2. QED
            BY <1>2, <2>2, <3>1
    <2>7. \A q \in Waiting(t)' : q.act \in {"login", "register"} => tab[t].page = q.act
        BY <1>1, <2>5 DEF PageSound
    <2>8. \A q \in Waiting(t)' : q.act # "save"
        BY <2>5, <2>6
    <2>9. tab'[t].page = tab[t].page /\ tab'[t].shows = "error" /\ Loads[tab'[t].page] = 0
        BY <1>3, <2>2, <2>3 DEF ShowsAs
    <2>10. PageSound(t)'
        BY <2>5, <2>7, <2>8, <2>9 DEF PageSound
    <2>11. QED
        BY <1>1, <1>4, <2>3, <2>10, OthersShown
<1>7. QED
    BY <1>5, <1>6

LEMMA LoginAndRegisterShown ==
    ASSUME IInv, ShownInv, NEW r \in requests,
           (\E l \in Login : LoginAnswered(r, l)) \/ RegisterAnswered(r)
    PROVE  ShownInv'
<1>1. /\ TypeOK /\ r.tab \in Tab /\ "overview" \in Page /\ "login" \in Page
      /\ (requests \ {r}) \in SUBSET requests
    BY PageFacts DEF IInv, TypeOK, Request
<1>2. PICK p \in Page, store \in {token, None} \cup Login : Route(r.tab, p, store, requests \ {r}) /\ r.act # "load"
    <2>1. CASE \E l \in Login : LoginAnswered(r, l)
        BY <1>1, <2>1 DEF LoginAnswered
    <2>2. CASE RegisterAnswered(r)
        BY <1>1, <2>2 DEF RegisterAnswered
    <2>3. QED
        BY <2>1, <2>2
<1>3. \A q \in requests \ (requests \ {r}) : q.act # "load"
    BY <1>2
<1>4. QED
    BY <1>1, <1>2, <1>3, RouteShown

LEMMA ShownStart == Init => ShownInv
<1> SUFFICES ASSUME Init PROVE ShownInv
    OBVIOUS
<1>1. IsFiniteSet(requests)
    BY FS_EmptySet DEF Init
<1>2. ASSUME NEW t \in Tab
      PROVE  PageSound(t)
    <2>1. tab[t] = Mounted("login") /\ Waiting(t) = {} /\ Pending(t) = {} /\ Loads["login"] = 0
        BY DEF Init, Waiting, Pending, Loads
    <2>2. tab[t].page = "login" /\ tab[t].shows = "form"
        BY <2>1 DEF Mounted
    <2>3. QED
        BY <2>1, <2>2 DEF PageSound
<1>3. QED
    BY <1>1, <1>2 DEF ShownInv, PagesSound

LEMMA ShownStep == IInv /\ ShownInv /\ [Next]_vars => ShownInv'
<1> SUFFICES ASSUME IInv, ShownInv, [Next]_vars PROVE ShownInv'
    OBVIOUS
<1>1. ASSUME NEW t \in Tab, NEW p \in Page, Navigate(t, p) \/ Open(t, p)
      PROVE  ShownInv'
    BY <1>1, PagesShown
<1>2. ASSUME NEW t \in Tab, Logout(t) PROVE ShownInv'
    BY <1>2, PagesShown, PageFacts
<1>3. ASSUME NEW t \in Tab, LoginPage(t) \/ RegisterPage(t) \/ HandlePublish(t)
      PROVE  ShownInv'
    BY <1>3, SubmitShown DEF LoginPage, RegisterPage, HandlePublish
<1>4. ASSUME NEW t \in Tab, ResetAll(t) PROVE ShownInv'
    BY <1>4, ResetShown
<1>5. ASSUME NEW l \in Login, Expire(l) PROVE ShownInv'
    BY <1>5, UnchangedShown DEF Expire
<1>6. ASSUME NEW r \in requests, NEW answer,
             LoadAnswered(r, answer) \/ SaveAnswered(r, answer) \/ FormRefused(r, answer)
      PROVE  ShownInv'
    BY <1>6, LoadShown, SaveShown, FormShown
<1>7. ASSUME NEW r \in requests,
             (\E l \in Login : LoginAnswered(r, l)) \/ RegisterAnswered(r)
      PROVE  ShownInv'
    BY <1>7, LoginAndRegisterShown
<1>8. CASE UNCHANGED vars
    BY <1>8, UnchangedShown DEF vars
<1>9. QED
    BY <1>1, <1>2, <1>3, <1>4, <1>5, <1>6, <1>7, <1>8 DEF Next

LEMMA ShownSound == Spec => []ShownInv
<1>1. Init => ShownInv
    BY ShownStart
<1>2. IInv /\ ShownInv /\ [Next]_vars => ShownInv'
    BY ShownStep
<1>3. QED
    BY <1>1, <1>2, SpecSound, PTL DEF Spec

--------------------------------------------------------------------------------
(* Theorems *)

\* Storage, backend, tabs and requests keep their types: the token is one of a
\* login or absent, whatever the tabs do to it.
THEOREM TypeCorrect == Spec => []TypeOK
<1>1. IInv => TypeOK
    BY DEF IInv
<1>2. QED
    BY <1>1, SpecSound, PTL

\* The interceptor removes the token of a live login only after the answer to an
\* attempt to log in, or to a request that was sent with another token: for any
\* number of tabs, requests and logins.
THEOREM LiveLoginIsKept == Spec => LiveLoginStays
<1>1. IInv /\ [Next]_vars => [LiveLogin]_vars
    BY StepSound
<1>2. Spec => [][LiveLogin]_vars
    BY <1>1, SpecSound, PTL DEF Spec
<1>3. QED
    BY <1>2 DEF LiveLoginStays, LiveLogin

\* A page shows its data or its success only after the backend has accepted every one
\* of its requests: for any tabs, for loads and drafts of any size, and whatever
\* becomes of the token while the answers are under way.
THEOREM ShownIsSound == Spec => []ShownIsAccepted
<1>1. ShownInv => ShownIsAccepted
    BY DEF ShownInv, PagesSound, PageSound, ShownIsAccepted
<1>2. QED
    BY <1>1, ShownSound, PTL
=================================================================================
