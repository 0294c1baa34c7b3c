----------------------------- MODULE InsurerSession -----------------------------
(***************************************************************************)
(* The insurer's frontend between its login and its pages: tabs of one     *)
(* browser, which share the token in localStorage, the requests of the     *)
(* pages, and the interceptors of api/client.js, which add the token to a  *)
(* request and turn every answer of 401 into a way back to the login.      *)
(*                                                                         *)
(* A full load of a page ends what its scripts were waiting for; moving    *)
(* inside the application does not: an answer to a page that has been left *)
(* still passes the interceptor, and handlePublish still goes on.          *)
(***************************************************************************)
EXTENDS Naturals, FiniteSets

CONSTANTS
    Tab,
    Login,         \* the tokens of successful logins, a bound on their number
    None,          \* no token
    Saves,         \* requests of one handlePublish
    InventoryPage, \* requests of one load of the inventory: three
    MaxRequests    \* a bound on the requests under way

ASSUME ConstantsAssumption ==
    /\ None \notin Login
    /\ Saves \in Nat \ {0} /\ InventoryPage \in Nat \ {0} /\ MaxRequests \in Nat

VARIABLES
    token,      \* localStorage.bpp_token
    issued,     \* tokens the backend has signed
    expired,    \* tokens older than 24 hours
    tab,        \* tab[t]: its page
    requests    \* requests under way

vars == <<token, issued, expired, tab, requests>>

--------------------------------------------------------------------------------
(* Types *)

Public == {"login", "register"}

\* What the pages ask for when they are mounted: the list pages of policies, claims,
\* messages, tickets and ratings are to the session what the overview is.
OverviewPage == 1
PublishPage == 0

Loads == [login |-> 0, register |-> 0, overview |-> OverviewPage, publish |-> PublishPage,
          inventory |-> InventoryPage]

Page == DOMAIN Loads

\* shows: "busy" is a spinner or a disabled button.
\* accepted: requests the backend has carried out for what the page shows.
\* leaving: window.location.href is set and the document is still there.
TabState == [page: Page, shows: {"form", "busy", "data", "success", "error"},
             accepted: Nat, leaving: BOOLEAN]

\* n: tells the requests of a tab apart.  token: as the interceptor found it.
\* mounted: the component that waits for the answer is.  done: saves before this one.
Request == [tab: Tab, n: 1..MaxRequests, act: {"login", "register", "load", "save"},
            token: Login \cup {None}, mounted: BOOLEAN, done: Nat]

TypeOK ==
    /\ token \in Login \cup {None}
    /\ issued \subseteq Login
    /\ expired \subseteq issued
    /\ tab \in [Tab -> TabState]
    /\ requests \subseteq Request

Mounted(p) == [page |-> p, shows |-> IF Loads[p] = 0 THEN "form" ELSE "busy",
               accepted |-> 0, leaving |-> FALSE]

Init ==
    /\ token = None /\ issued = {} /\ expired = {}
    /\ tab = [t \in Tab |-> Mounted("login")]
    /\ requests = {}

--------------------------------------------------------------------------------
(* Pages *)

OfTab(t) == {r \in requests : r.tab = t}

\* The request interceptor: k requests of tab t, beside others, with the token of now.
Send(t, k, act, store, done, others) ==
    LET free == 1..MaxRequests \ {r.n : r \in {q \in others : q.tab = t}}
        first == {n \in free : Cardinality({m \in free : m <= n}) <= k} IN
    /\ Cardinality(others) + k <= MaxRequests
    /\ requests' = others \cup
           {[tab |-> t, n |-> n, act |-> act, token |-> store, mounted |-> TRUE,
             done |-> done] : n \in first}

Unmounted(t, rs) ==
    {IF r.tab = t THEN [r EXCEPT !.mounted = FALSE] ELSE r : r \in rs}

\* ProtectedRoute looks for a token, of whatever age, and only when it is mounted.
ProtectedRoute(p, from, store) ==
    IF p \notin Public /\ from \in Public /\ store = None THEN "login" ELSE p

\* Page p in place of the one shown, by the router.
Route(t, p, store, others) ==
    LET q == ProtectedRoute(p, tab[t].page, store) IN
    \/ /\ q = tab[t].page
       /\ requests' = others
       /\ UNCHANGED tab
    \/ /\ q # tab[t].page
       /\ tab' = [tab EXCEPT ![t] = [Mounted(q) EXCEPT !.leaving = tab[t].leaving]]
       /\ Send(t, Loads[q], "load", store, 0, Unmounted(t, others))

\* A link, or the browser's history.
Navigate(t, p) ==
    /\ p # tab[t].page
    /\ Route(t, p, token, requests)
    /\ UNCHANGED <<token, issued, expired>>

\* Variant: the entry is blanked instead of removed.
LogoutBlank(t) ==
    /\ tab[t].page \notin Public
    /\ token' = ""
    /\ Route(t, "login", None, requests)
    /\ UNCHANGED <<issued, expired>>

\* handleLogout.  The other tabs notice by their next request, and handlePublish of
\* this one goes on.
Logout(t) ==
    /\ tab[t].page \notin Public
    /\ token' = None
    /\ Route(t, "login", None, requests)
    /\ UNCHANGED <<issued, expired>>

\* A full load: of /login after an answer of 401, else of what the user asks for.
Open(t, p) ==
    LET q == ProtectedRoute(p, "login", token) IN
    /\ tab[t].leaving => p = "login"
    /\ tab' = [tab EXCEPT ![t] = Mounted(q)]
    /\ Send(t, Loads[q], "load", token, 0, requests \ OfTab(t))
    /\ UNCHANGED <<token, issued, expired>>

--------------------------------------------------------------------------------
(* Requests *)

Submit(t, page, act) ==
    /\ tab[t].page = page /\ tab[t].shows \in {"form", "error"}
    /\ tab' = [tab EXCEPT ![t].shows = "busy", ![t].accepted = 0]
    /\ Send(t, 1, act, token, 0, requests)
    /\ UNCHANGED <<token, issued, expired>>

LoginPage(t) == Submit(t, "login", "login")
RegisterPage(t) == Submit(t, "register", "register")
HandlePublish(t) == Submit(t, "publish", "save")

\* "Publish another": the wizard starts again.
ResetAll(t) ==
    /\ tab[t].shows = "success"
    /\ tab' = [tab EXCEPT ![t] = [Mounted("publish") EXCEPT !.leaving = tab[t].leaving]]
    /\ UNCHANGED <<token, issued, expired, requests>>

Expire(l) ==
    /\ l \in issued \ expired
    /\ expired' = expired \cup {l}
    /\ UNCHANGED <<token, issued, tab, requests>>

\* AuthMiddleware, and the error of a handler, of the database or of the network.
Answers(r) ==
    {"failed"} \cup
    CASE r.act = "login" -> {"unauthorized"}
      [] r.act = "register" -> {"ok"}
      [] OTHER -> IF r.token \in issued \ expired THEN {"ok"} ELSE {"unauthorized"}

\* Variant: whatever fails ends the login.
UnauthorizedAny(answer) == answer # "ok"

Unauthorized(answer) == answer = "unauthorized"

\* Variant: the interceptor returns after it has set the new location.
RejectsOthers(answer) == answer = "failed"

\* What the interceptor lets a page see as an error.
Rejects(answer) == answer \in {"failed", "unauthorized"}

\* The response interceptor, and the tab it answers as page makes it.
Answered(r, answer, page) ==
    LET seen == IF r.mounted THEN page ELSE tab[r.tab] IN
    /\ token' = IF Unauthorized(answer) THEN None ELSE token
    /\ tab' = [tab EXCEPT ![r.tab] =
                  [seen EXCEPT !.leaving = seen.leaving \/ Unauthorized(answer)]]
    /\ UNCHANGED <<issued, expired>>

Counted(r, answer) ==
    [tab[r.tab] EXCEPT !.accepted = IF answer = "ok" THEN @ + 1 ELSE @]

Waits(r) == \E q \in requests \ {r} : q.tab = r.tab /\ q.act = "load" /\ q.mounted

\* Promise.all: the first that is rejected shows the error, the last the data.
LoadAnswered(r, answer) ==
    LET page == Counted(r, answer)
        shows == CASE Rejects(answer) -> "error"
                   [] page.shows = "busy" /\ ~ Rejects(answer) /\ ~ Waits(r) -> "data"
                   [] OTHER -> page.shows IN
    /\ r \in requests /\ r.act = "load" /\ answer \in Answers(r)
    /\ Answered(r, answer, [page EXCEPT !.shows = shows])
    /\ requests' = requests \ {r}

\* The next request of handlePublish carries the token of now, or none.
SaveAnswered(r, answer) ==
    LET page == Counted(r, answer) IN
    /\ r \in requests /\ r.act = "save" /\ answer \in Answers(r)
    /\ \/ /\ Rejects(answer)
          /\ Answered(r, answer, [page EXCEPT !.shows = "error"])
          /\ requests' = requests \ {r}
       \/ /\ ~ Rejects(answer) /\ r.done + 1 < Saves
          /\ Answered(r, answer, page)
          /\ requests' = (requests \ {r}) \cup
                 {[r EXCEPT !.done = @ + 1,
                            !.token = IF Unauthorized(answer) THEN None ELSE token]}
       \/ /\ ~ Rejects(answer) /\ r.done + 1 = Saves
          /\ Answered(r, answer, [page EXCEPT !.shows = "success"])
          /\ requests' = requests \ {r}

\* The page that waited may have been left for another: it leads to the dashboard
\* all the same.
LoginAnswered(r, l) ==
    /\ r \in requests /\ r.act = "login"
    /\ l \in Login \ issued
    /\ token' = l
    /\ issued' = issued \cup {l}
    /\ Route(r.tab, "overview", l, requests \ {r})
    /\ UNCHANGED expired

RegisterAnswered(r) ==
    /\ r \in requests /\ r.act = "register"
    /\ Route(r.tab, "login", token, requests \ {r})
    /\ UNCHANGED <<token, issued, expired>>

\* Wrong credentials are answered 401 too: the page is loaded again, the message is
\* gone, and so is a token that another tab has stored.
FormRefused(r, answer) ==
    /\ r \in requests /\ r.act \in {"login", "register"}
    /\ answer \in Answers(r) \ {"ok"}
    /\ Answered(r, answer, [tab[r.tab] EXCEPT !.shows = "error"])
    /\ requests' = requests \ {r}

--------------------------------------------------------------------------------

Next ==
    \/ \E t \in Tab :
           \/ \E p \in Page : Navigate(t, p) \/ Open(t, p)
           \/ Logout(t)
           \/ LoginPage(t)
           \/ RegisterPage(t)
           \/ HandlePublish(t)
           \/ ResetAll(t)
    \/ \E l \in Login : Expire(l)
    \/ \E r \in requests :
           \/ \E answer \in {"ok", "failed", "unauthorized"} :
                  LoadAnswered(r, answer) \/ SaveAnswered(r, answer) \/ FormRefused(r, answer)
           \/ \E l \in Login : LoginAnswered(r, l)
           \/ RegisterAnswered(r)

Spec == Init /\ [][Next]_vars

--------------------------------------------------------------------------------
(* Properties *)

\* A page shows its data, and PublishPage its success, only if the backend has
\* carried out every one of the page's requests, whatever logins, logouts, 401s and
\* other tabs have done to the token in between.
ShownIsAccepted ==
    \A t \in Tab :
        /\ tab[t].shows = "data" => tab[t].accepted = Loads[tab[t].page]
        /\ tab[t].shows = "success" => tab[t].accepted = Saves

\* The token of a login that has not expired leaves the storage only by a logout, by
\* another attempt to log in, or by the answer to a request that was sent without it:
\* an error of the backend never ends the login of the tabs.
LiveLoginStays ==
    [][token # None /\ token \notin expired /\ token' # token =>
           \/ \E t \in Tab : Logout(t)
           \/ \E r \in requests \ requests' : r.act = "login" \/ r.token # token]_vars
=================================================================================
