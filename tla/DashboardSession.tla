---------------------------- MODULE DashboardSession ----------------------------
(***************************************************************************)
(* A browser with several tabs on the dashboard (dashboard/api.py): the    *)
(* session cookie, the signed double-submit CSRF token that lives in a     *)
(* cookie and in every rendered page, and the middleware that checks it    *)
(* and re-issues it.  The cookie jar is one for all the tabs, a page keeps *)
(* the token it was rendered with.                                         *)
(*                                                                         *)
(* A request carries the cookies of the moment it is sent; it is handled,  *)
(* and its response applied, in one later step.  A token is its nonce, or   *)
(* Invalid once its signature no longer verifies.  The browser's requests  *)
(* come from the dashboard's own origin, so _origin_ok holds of them all.  *)
(***************************************************************************)
EXTENDS Integers, FiniteSets

CONSTANTS
  Tabs,
  MaxNonce,    \* nonces are reused, and there is always a fresh one
  MaxSecrets   \* bound on the rotations of jwt_secret

ASSUME SessionAssumption ==
  /\ IsFiniteSet(Tabs)
  /\ MaxSecrets \in Nat
  /\ MaxNonce \in Nat /\ MaxNonce > 2 * Cardinality(Tabs) + 1

VARIABLES
  secret,    \* how often the jwt_secret has been rotated
  csrf,      \* the CSRF cookie
  session,   \* the session cookie: none, or whether it still verifies
  tabs       \* [Tabs -> Tab]

sessionVars == <<secret, csrf, session, tabs>>

Nonces == 1..MaxNonce
None == 0       \* no cookie, or no form in the page
Invalid == -1   \* foreign, corrupted, or signed under an earlier secret

Token == Nonces \cup {None, Invalid}

Pages == {"blank", "login", "board", "error"}
Requests == {"none", "login_form", "page", "partial", "login", "bad_login", "action", "logout"}

Tab == [page   : Pages,
        token  : Token,                       \* in the page's forms and hx-headers
        req    : Requests,
        cookie : Token,                       \* sent with the request
        signed : {"none", "good", "stale"}]   \* the session sent with it

SessionTypeOK ==
  /\ secret \in 0..MaxSecrets
  /\ csrf \in Token
  /\ session \in {"none", "good", "stale"}
  /\ tabs \in [Tabs -> Tab]

NewTab == [page |-> "blank", token |-> None,
           req |-> "none", cookie |-> None, signed |-> "none"]

SessionInit ==
  /\ secret = 0
  /\ csrf \in {None, Invalid}
  /\ session = "none"
  /\ tabs = [t \in Tabs |-> NewTab]

-----------------------------------------------------------------------------
(* Mutated forms of the definitions below, each a plausible bug. *)

ReissuedIfAbsent(presented, issued) == IF presented # None THEN csrf ELSE issued

KeptForOneUse(presented) == FALSE

-----------------------------------------------------------------------------
(* _csrf_valid. *)
Valid(token) == token \in Nonces

(* issue_csrf_token. *)
Used == {csrf} \cup {tabs[t].token : t \in Tabs} \cup {tabs[t].cookie : t \in Tabs}

FreshNonce == CHOOSE n \in Nonces : n \notin Used

(* _csrf_middleware and _csrf_token keep the token that the request came    *)
(* with, if it is valid.                                                   *)
Kept(presented) == Valid(presented)

(* The cookie that the response to this request leaves in the browser, if  *)
(* it sets one: the token that the handler put in the page, if it did.     *)
Reissued(presented, issued) == IF Kept(presented) THEN csrf ELSE issued

(* The token that _csrf_token embeds in a page. *)
Embedded(presented, issued) == IF Kept(presented) THEN presented ELSE issued

(* csrf_check, for the requests that change state. *)
Passes(tab) == Valid(tab.cookie) /\ Valid(tab.token) /\ tab.cookie = tab.token

(* A tab sends a request, with the cookies of now. *)
Sent(tab, req, cookie, signed) ==
  [tab EXCEPT !.req = req, !.cookie = cookie, !.signed = signed]

Idle(tab) == Sent(tab, "none", None, "none")

(* The response to it is a page with this token. *)
Rendered(tab, page, embedded) == [Idle(tab) EXCEPT !.page = page, !.token = embedded]

Sends(t, req) ==
  /\ tabs[t].req = "none"
  /\ tabs' = [tabs EXCEPT ![t] = Sent(@, req, csrf, session)]
  /\ UNCHANGED <<secret, csrf, session>>

-----------------------------------------------------------------------------
(* What the user and the page do. *)

Open(t) == Sends(t, "page")

SubmitLogin(t) ==
  /\ tabs[t].page = "login"
  /\ \E req \in {"login", "bad_login"} : Sends(t, req)

(* The fragments that the page polls, and the buttons on it. *)
Poll(t) == tabs[t].page = "board" /\ Sends(t, "partial")

Act(t) == tabs[t].page = "board" /\ Sends(t, "action")

Logout(t) == tabs[t].page = "board" /\ Sends(t, "logout")

-----------------------------------------------------------------------------
(* What the server does, and the browser with the response. *)

Handles(t, req) == tabs[t].req = req /\ UNCHANGED secret

(* GET /login. *)
LoginForm(t) ==
  /\ Handles(t, "login_form")
  /\ csrf' = Reissued(tabs[t].cookie, FreshNonce)
  /\ tabs' = [tabs EXCEPT ![t] = Rendered(@, "login", Embedded(@.cookie, FreshNonce))]
  /\ UNCHANGED session

(* A page, with a session that verifies. *)
Page(t) ==
  /\ Handles(t, "page")
  /\ tabs[t].signed = "good"
  /\ csrf' = Reissued(tabs[t].cookie, FreshNonce)
  /\ tabs' = [tabs EXCEPT ![t] = Rendered(@, "board", Embedded(@.cookie, FreshNonce))]
  /\ UNCHANGED session

(* And without: page_principal redirects to /login, and the browser goes    *)
(* there with the cookie that the redirect has left.                       *)
PageRedirects(t) ==
  /\ Handles(t, "page")
  /\ tabs[t].signed # "good"
  /\ csrf' = Reissued(tabs[t].cookie, FreshNonce)
  /\ tabs' = [tabs EXCEPT ![t] = Sent(@, "login_form", csrf', session)]
  /\ UNCHANGED session

(* A polled fragment, or its 401: either comes through the middleware. *)
Partial(t) ==
  /\ Handles(t, "partial")
  /\ csrf' = Reissued(tabs[t].cookie, FreshNonce)
  /\ tabs' = [tabs EXCEPT ![t] = Idle(@)]
  /\ UNCHANGED session

(* The middleware rejects a request before its handler and sets no cookie. *)
(* A plain form's answer replaces its page, an HTMX answer does not.       *)
Rejected(t) ==
  /\ tabs[t].req \in {"login", "bad_login", "action", "logout"}
  /\ ~Passes(tabs[t])
  /\ tabs' = [tabs EXCEPT ![t] =
       IF @.req = "action" THEN Idle(@) ELSE Rendered(@, "error", None)]
  /\ UNCHANGED <<secret, csrf, session>>

(* POST /login with a good token starts a session, rotates the CSRF token  *)
(* and redirects to the overview.                                          *)
Login(t) ==
  /\ Handles(t, "login")
  /\ Passes(tabs[t])
  /\ session' = "good"
  /\ csrf' = FreshNonce
  /\ tabs' = [tabs EXCEPT ![t] = Sent(@, "page", FreshNonce, "good")]

(* And with a bad one, it renders the form again. *)
LoginFails(t) ==
  /\ Handles(t, "bad_login")
  /\ Passes(tabs[t])
  /\ tabs' = [tabs EXCEPT ![t] = Rendered(@, "login", Embedded(@.cookie, FreshNonce))]
  /\ UNCHANGED <<csrf, session>>

(* POST /actions/...: done, or refused for want of a session; neither      *)
(* changes the cookies or the page's token.                                *)
Action(t) ==
  /\ Handles(t, "action")
  /\ Passes(tabs[t])
  /\ tabs' = [tabs EXCEPT ![t] = Idle(@)]
  /\ UNCHANGED <<csrf, session>>

(* POST /logout asks for no session, and deletes both cookies. *)
LoggedOut(t) ==
  /\ Handles(t, "logout")
  /\ Passes(tabs[t])
  /\ session' = "none"
  /\ csrf' = None
  /\ tabs' = [tabs EXCEPT ![t] = Sent(@, "login_form", None, "none")]

-----------------------------------------------------------------------------
(* The server restarts with another secret: what the old one signed no     *)
(* longer verifies, and the requests on their way are lost.                *)
Outdated(token) == IF Valid(token) THEN Invalid ELSE token

Rotate ==
  /\ secret < MaxSecrets
  /\ secret' = secret + 1
  /\ session' = IF session = "none" THEN "none" ELSE "stale"
  /\ csrf' = Outdated(csrf)
  /\ tabs' = [t \in Tabs |-> [Idle(tabs[t]) EXCEPT !.token = Outdated(@)]]

(* The session's token expires, for the requests on their way as well. *)
Expire ==
  /\ session = "good"
  /\ session' = "stale"
  /\ tabs' = [t \in Tabs |->
       [tabs[t] EXCEPT !.signed = IF @ = "good" THEN "stale" ELSE @]]
  /\ UNCHANGED <<secret, csrf>>

Responds(t) ==
  \/ LoginForm(t) \/ Page(t) \/ PageRedirects(t) \/ Partial(t)
  \/ Rejected(t) \/ Login(t) \/ LoginFails(t) \/ Action(t) \/ LoggedOut(t)

SessionNext ==
  \/ \E t \in Tabs : Open(t) \/ SubmitLogin(t) \/ Poll(t) \/ Act(t) \/ Logout(t)
  \/ \E t \in Tabs : Responds(t)
  \/ Rotate \/ Expire

SessionSpec == SessionInit /\ [][SessionNext]_sessionVars

-----------------------------------------------------------------------------
(* PROPERTIES *)

(* What this page would post is accepted. *)
Works(t) == Valid(csrf) /\ tabs[t].token = csrf

(* "Re-issuing on invalidity breaks that lockout" (api.py:359): a reload    *)
(* leaves a page that can post, if no other tab changed the cookie while   *)
(* it was under way, whatever cookie the browser had.                      *)
ReloadHeals ==
  [][\A t \in Tabs :
       (LoginForm(t) \/ Page(t)) /\ tabs[t].cookie = csrf => Works(t)']_sessionVars

(* Tabs leave each other alone: a page that can post stays so, until a      *)
(* login or a logout, another secret, or an answer to a request that was   *)
(* sent without a valid cookie (_csrf_middleware re-issues to no other).   *)
TabsCoexist ==
  [][\A t \in Tabs : Works(t) /\ ~Works(t)' =>
       \/ secret' # secret
       \/ \E u \in Tabs : Login(u) \/ LoggedOut(u)
       \/ \E u \in Tabs : Responds(u) /\ ~Valid(tabs[u].cookie)
       \/ Page(t) \/ LoginForm(t)]_sessionVars

-----------------------------------------------------------------------------
(* Fairness.  Requests are answered, and nothing more: it is the user who   *)
(* opens pages.                                                            *)
Fairness == \A t \in Tabs : WF_sessionVars(Responds(t))

LiveSpec == SessionSpec /\ Fairness

Quiet(t) == \A u \in Tabs \ {t} : tabs[u].req = "none"

(* No lockout: a user who reloads a tab now and then, the others being      *)
(* quiet, has a page there that can post again and again, also after a     *)
(* logout, a rejected form or a rotated secret (api.py:352-359).           *)
NoLockout ==
  \A t \in Tabs : SF_sessionVars(Open(t)) /\ <>[]Quiet(t) => []<>Works(t)

=============================================================================
