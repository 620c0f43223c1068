----------------------------- MODULE WebSession -----------------------------
(***************************************************************************)
(* The session of a browser: its tabs (auth-context.tsx, bff-client.ts),   *)
(* the cookies they share, and the route handlers of the Next.js server    *)
(* that hold the refresh token for them (app/api/auth, protected-upstream).*)
(*                                                                         *)
(* Refresh tokens are numbered as the backend issues them, access tokens   *)
(* are the version of the password they were issued under; one may expire  *)
(* at any time.  A handler sees the cookies as they were when its request  *)
(* was sent, and what it writes reaches the browser with its answer, unless*)
(* the tab has given the request up.  One action is what a handler does    *)
(* between two awaits.  One account, one server process, no clock: the     *)
(* marker expires at any time.                                             *)
(***************************************************************************)
EXTENDS Integers, FiniteSets

CONSTANTS
  Tabs,        \* tabs of the browser
  Slots,       \* requests a browser has open at a time, numbered from 1
  MaxLoads,    \* bound: pages loaded
  MaxAsks,     \* bound: further requests of the user
  MaxGivenUp   \* bound: requests a tab gives up

ASSUME WebBounds ==
  /\ Slots \subseteq Nat \ {0} /\ IsFiniteSet(Slots)
  /\ MaxLoads \in Nat /\ MaxAsks \in Nat /\ MaxGivenUp \in Nat

VARIABLES
  jar,       \* the cookies: refresh_token (0: none), refresh_auth_error
  tabs,      \* what each tab shows and the access token it holds (0: none)
  reqs,      \* the requests
  inFlight,  \* inFlightRefreshByToken: from a token to the slot whose call refreshes it
  account,   \* backend: tokens issued, tokens it accepts, password version
  history    \* greatest token an answer brought or replaced, why a successor was
             \* lost, whether the backend ended the session, budgets

webVars == <<jar, tabs, reqs, inFlight, account, history>>

NoRequest == [kind |-> "none"]
Keep == -1
Open == {r \in Slots : reqs[r] # NoRequest}

\* A tab without a page, and one with a new page: it starts with bootstrap(),
\* whose attempts are numbered.
Closed == [status |-> "idle", access |-> 0, attempt |-> 0, told |-> FALSE]
Loading == [status |-> "loading", access |-> 0, attempt |-> 1, told |-> FALSE]
BootstrapAttempts == 3
SignedOut(tab) == [tab EXCEPT !.status = "out", !.access = 0]
SignedIn(tab, access) == [tab EXCEPT !.status = "in", !.access = access]

-----------------------------------------------------------------------------
(* Sending.                                                                *)

Sent(t, kind) ==
  /\ Open # Slots
  /\ LET r == CHOOSE i \in Slots \ Open : \A j \in Slots \ Open : i <= j
     IN reqs' = [reqs EXCEPT ![r] =
          [kind |-> kind, tab |-> t, tok |-> jar.tok, marked |-> jar.mark,
           auth |-> tabs[t].access, wanted |-> TRUE, phase |-> "sent",
           leader |-> 0, refresh |-> "none", fresh |-> 0, next |-> 0,
           setTok |-> Keep, setMark |-> "keep", answer |-> "none"]]

Waiting(t, kind) == \E r \in Open : reqs[r].kind = kind /\ reqs[r].tab = t /\ reqs[r].wanted

\* bootstrap() asks /api/auth/me; it goes on when a logout is heard meanwhile.
Bootstrap(t) ==
  /\ tabs[t].attempt > 0 /\ ~Waiting(t, "me")
  /\ Sent(t, "me")
  /\ UNCHANGED <<jar, tabs, inFlight, account, history>>

\* What a user does: a protected request, a sign-in, a sign-out, a new password.
Ask(t, kind) ==
  /\ history.asks < MaxAsks
  /\ tabs[t].status = IF kind = "login" THEN "out" ELSE "in"
  /\ kind # "call" => ~Waiting(t, kind)
  /\ Sent(t, kind)
  /\ history' = [history EXCEPT !.asks = @ + 1]
  /\ UNCHANGED <<jar, tabs, inFlight, account>>

-----------------------------------------------------------------------------
(* The route handlers.                                                     *)

Respond(q, answer, tok, mark) ==
  [q EXCEPT !.phase = "done", !.answer = answer, !.setTok = tok, !.setMark = mark]

\* clearRefreshSession, as every logout ends.
SessionCleared(q, answer) == Respond(q, answer, 0, "clear")
\* An answer that leaves the token, or the one just set, and clears the marker.
Unmarked(q, answer) == Respond(q, answer, q.setTok, "clear")

\* inFlightRefreshByToken.set
WithFlight(k, r) == [j \in DOMAIN inFlight \cup {k} |-> IF j = k THEN r ELSE inFlight[j]]

\* Mutant: every handler calls the backend itself.
RefreshingAlone(r, q) ==
  IF q.tok = 0
    THEN /\ reqs' = [reqs EXCEPT ![r] = Unmarked(q, "unauthenticated")]
         /\ UNCHANGED inFlight
    ELSE /\ reqs' = [reqs EXCEPT ![r] = [q EXCEPT !.phase = "flight", !.leader = r, !.refresh = "called"]]
         /\ inFlight' = WithFlight(q.tok, r)

\* refreshWithSingleFlight, or no token to refresh with.
Refreshing(r, q) ==
  IF q.tok = 0
    THEN /\ reqs' = [reqs EXCEPT ![r] = Unmarked(q, "unauthenticated")]
         /\ UNCHANGED inFlight
  ELSE IF q.tok \in DOMAIN inFlight
    THEN /\ reqs' = [reqs EXCEPT ![r] = [q EXCEPT !.phase = "flight", !.leader = inFlight[q.tok]]]
         /\ UNCHANGED inFlight
    ELSE /\ reqs' = [reqs EXCEPT ![r] = [q EXCEPT !.phase = "flight", !.leader = r, !.refresh = "called"]]
         /\ inFlight' = WithFlight(q.tok, r)

GatewayTakes(r) ==
  LET q == reqs[r] IN
  /\ r \in Open /\ q.phase = "sent"
  /\ \/ /\ \/ q.kind = "me"
           \/ q.kind \in {"call", "password"} /\ q.auth = 0
        /\ Refreshing(r, q)
     \/ /\ q.kind = "logout" /\ q.tok = 0
        /\ reqs' = [reqs EXCEPT ![r] = SessionCleared(q, "ok")]
        /\ UNCHANGED inFlight
     \/ /\ \/ q.kind = "login"
           \/ q.kind \in {"call", "password"} /\ q.auth # 0
           \/ q.kind = "logout" /\ q.tok # 0
        /\ reqs' = [reqs EXCEPT ![r].phase = "upstream"]
        /\ UNCHANGED inFlight
  /\ UNCHANGED <<jar, tabs, account, history>>

\* A new refresh token; the tokens of `gone` are refused from now on.
Issue(gone) ==
  [account EXCEPT !.issued = @ + 1, !.good = (@ \ gone) \cup {account.issued + 1}]

\* What the backend does for a request that bears an accepted access token, and
\* the answer the handler makes of it.
Accepted(r, q) ==
  \/ /\ q.kind \in {"me", "call"}
     /\ reqs' = [reqs EXCEPT ![r] =
          IF q.kind = "me" THEN Respond(q, "ok", q.next, "clear") ELSE Unmarked(q, "ok")]
     /\ UNCHANGED account
  \/ /\ q.kind = "login"
     /\ account' = Issue({})
     /\ reqs' = [reqs EXCEPT ![r] =
          Respond([q EXCEPT !.fresh = account.version], "ok", account.issued + 1, "clear")]
  \/ /\ q.kind = "password"
     /\ account' = [Issue(account.good) EXCEPT !.version = @ + 1]
     /\ reqs' = [reqs EXCEPT ![r] =
          Respond([q EXCEPT !.fresh = account.version + 1], "ok", account.issued + 1, "clear")]
  \/ /\ q.kind = "logout"
     /\ account' = [account EXCEPT !.good = @ \ {q.tok}]
     /\ reqs' = [reqs EXCEPT ![r] = SessionCleared(q, "ok")]

\* The request with the tab's own access token: it is accepted, fails, or the
\* token is refused, which leads to a refresh.
UpstreamAnswers(r) ==
  LET q == reqs[r] IN
  /\ r \in Open /\ q.phase = "upstream"
  /\ \/ /\ (q.auth = account.version \/ q.kind = "login")
        /\ Accepted(r, q) /\ UNCHANGED inFlight
     \/ /\ reqs' = [reqs EXCEPT ![r] =
             CASE q.kind = "logout" -> SessionCleared(q, "ok")
               [] q.kind = "login" -> Respond(q, "error", Keep, "keep")
               [] OTHER -> Unmarked(q, "error")]
        /\ UNCHANGED <<account, inFlight>>
     \/ /\ q.kind # "login" /\ Refreshing(r, q) /\ UNCHANGED account
  /\ UNCHANGED <<jar, tabs, history>>

\* The backend's RefreshTokenSerializer: one use of each token.
RefreshServed(r) ==
  LET q == reqs[r] IN
  /\ r \in Open /\ q.phase = "flight" /\ q.refresh = "called"
  /\ IF q.tok \in account.good
       THEN /\ account' = Issue({q.tok})
            /\ reqs' = [reqs EXCEPT ![r].refresh = "rotated", ![r].next = account.issued + 1,
                                    ![r].fresh = account.version]
       ELSE /\ reqs' = [reqs EXCEPT ![r].refresh = "refused"]
            /\ UNCHANGED account
  /\ UNCHANGED <<jar, tabs, inFlight, history>>

\* What a handler does with the result of the flight: handleRefreshFailure, or
\* on with the fresh access token.  A logout ignores failures.
AfterRefresh(q, result, lead) ==
  IF result = "success"
    THEN [q EXCEPT !.phase = "again", !.fresh = lead.fresh, !.next = lead.next,
                   !.setTok = IF q.kind \in {"call", "password"} THEN lead.next ELSE @]
  ELSE IF q.kind = "logout" THEN SessionCleared(q, "ok")
  ELSE IF result = "transient" THEN Unmarked(q, "error")
  ELSE IF q.marked THEN SessionCleared(q, "hard") ELSE Respond(q, "soft", Keep, "set")

\* The promise settles for everybody who awaits it and leaves the map.
FlightResolves(r, result) ==
  LET lead == reqs[r] IN
  /\ r \in Open /\ lead.phase = "flight" /\ lead.leader = r
  /\ CASE result = "success" -> lead.refresh = "rotated"
       [] result = "refused" -> lead.refresh = "refused"
       [] result = "transient" -> lead.refresh \in {"called", "rotated"}
  /\ reqs' = [s \in Slots |->
       IF s \in Open /\ reqs[s].phase = "flight" /\ reqs[s].leader = r
         THEN [AfterRefresh(reqs[s], result, lead) EXCEPT !.leader = 0, !.refresh = "none"]
         ELSE reqs[s]]
  /\ inFlight' = [k \in DOMAIN inFlight \ {lead.tok} |-> inFlight[k]]
  /\ history' = IF result = "transient" /\ lead.refresh = "rotated"
                  THEN [history EXCEPT !.lapses = @ \cup {"refresh"}] ELSE history
  /\ UNCHANGED <<jar, tabs, account>>

\* The request with the fresh access token.  /api/auth/me sets the cookie only
\* after it, the others have set it before.
RetryAnswers(r) ==
  LET q == reqs[r] IN
  /\ r \in Open /\ q.phase = "again"
  /\ \/ q.fresh = account.version /\ Accepted(r, q) /\ UNCHANGED history
     \/ /\ q.fresh # account.version
        /\ reqs' = [reqs EXCEPT ![r] = SessionCleared(q, IF q.kind = "logout" THEN "ok" ELSE "hard")]
        /\ UNCHANGED <<account, history>>
     \/ /\ reqs' = [reqs EXCEPT ![r] =
             IF q.kind = "logout" THEN SessionCleared(q, "ok") ELSE Unmarked(q, "error")]
        /\ history' = IF q.kind = "me" THEN [history EXCEPT !.lapses = @ \cup {"me"}] ELSE history
        /\ UNCHANGED account
  /\ UNCHANGED <<jar, tabs, inFlight>>

-----------------------------------------------------------------------------
(* The browser.                                                            *)

\* An answer of /api/auth/me, or that there was none, in bootstrap(); an error is
\* one it retries (429, 5xx, no answer).
Bootstrapped(tab, q) ==
  CASE q.answer = "ok" -> [SignedIn(tab, q.fresh) EXCEPT !.attempt = 0]
    [] q.answer \in {"error", "soft"} /\ tab.attempt < BootstrapAttempts ->
         [tab EXCEPT !.attempt = @ + 1]
    [] OTHER -> [SignedOut(tab) EXCEPT !.attempt = 0]

\* Signing out tells the other tabs.
TabsAfter(q) ==
  IF q.kind = "logout"
    THEN [t \in Tabs |-> IF t = q.tab THEN SignedOut(tabs[t])
                       ELSE [tabs[t] EXCEPT !.told = tabs[t] # Closed]]
    ELSE [tabs EXCEPT ![q.tab] =
      CASE q.kind = "me" -> Bootstrapped(@, q)
        [] q.kind = "call" /\ q.answer = "ok" /\ q.fresh # 0 -> [@ EXCEPT !.access = q.fresh]
        [] q.kind \in {"login", "password"} /\ q.answer = "ok" -> SignedIn(@, q.fresh)
        [] OTHER -> @]

Greatest(S) == CHOOSE n \in S : \A m \in S : m <= n

\* Set-Cookie, then whoever waits for the answer.
BrowserReceives(r) ==
  LET q == reqs[r] IN
  /\ r \in Open /\ q.phase = "done"
  /\ IF q.wanted
       THEN /\ jar' = [tok |-> IF q.setTok = Keep THEN jar.tok ELSE q.setTok,
                       mark |-> IF q.setMark = "keep" THEN jar.mark ELSE q.setMark = "set"]
            /\ tabs' = TabsAfter(q)
            /\ history' = [history EXCEPT
                 !.ended = @ \/ q.answer = "hard",
                 !.top = Greatest({@, q.setTok, q.next}),
                 !.lapses = IF 0 < q.setTok /\ q.setTok < history.top THEN @ \cup {"late"} ELSE @]
       ELSE /\ history' = IF q.setTok > 0 \/ q.next > 0 THEN [history EXCEPT !.lapses = @ \cup {"lost"}] ELSE history
            /\ UNCHANGED <<jar, tabs>>
  /\ reqs' = [reqs EXCEPT ![r] = NoRequest]
  /\ UNCHANGED <<inFlight, account>>

\* A timeout in the tab, or a connection that breaks: the handler goes on, its
\* answer is dropped.
GiveUp(r) ==
  /\ history.givenUp < MaxGivenUp
  /\ r \in Open /\ reqs[r].wanted
  /\ reqs' = [reqs EXCEPT ![r].wanted = FALSE]
  /\ tabs' = TabsAfter([reqs[r] EXCEPT !.answer = "error"])
  /\ history' = [history EXCEPT !.givenUp = @ + 1]
  /\ UNCHANGED <<jar, inFlight, account>>

\* A page is loaded: what its predecessor in the tab waited for is aborted.
LoadPage(t) ==
  /\ history.loads < MaxLoads
  /\ tabs' = [tabs EXCEPT ![t] = Loading]
  /\ reqs' = [r \in Slots |->
       IF r \in Open /\ reqs[r].tab = t THEN [reqs[r] EXCEPT !.wanted = FALSE] ELSE reqs[r]]
  /\ history' = [history EXCEPT !.loads = @ + 1]
  /\ UNCHANGED <<jar, inFlight, account>>

\* onAuthMessage: a sign-out in another tab.
HearLogout(t) ==
  /\ tabs[t].told
  /\ tabs' = [tabs EXCEPT ![t] = [SignedOut(@) EXCEPT !.told = FALSE]]
  /\ UNCHANGED <<jar, reqs, inFlight, account, history>>

MarkerExpires ==
  /\ jar.mark /\ jar' = [jar EXCEPT !.mark = FALSE]
  /\ UNCHANGED <<tabs, reqs, inFlight, account, history>>

-----------------------------------------------------------------------------

WebInit ==
  /\ \E signedIn \in BOOLEAN :
       /\ jar = [tok |-> IF signedIn THEN 1 ELSE 0, mark |-> FALSE]
       /\ account = [issued |-> 1, good |-> {1}, version |-> 1]
  /\ tabs = [t \in Tabs |-> Closed]
  /\ reqs = [r \in Slots |-> NoRequest]
  /\ inFlight = [k \in {} |-> 0]
  /\ history = [top |-> 1, lapses |-> {}, ended |-> FALSE, loads |-> 0, asks |-> 0, givenUp |-> 0]

WebNext ==
  \/ \E t \in Tabs :
       \/ Bootstrap(t) \/ LoadPage(t) \/ HearLogout(t)
       \/ \E kind \in {"call", "login", "logout", "password"} : Ask(t, kind)
  \/ \E r \in Slots :
       \/ GatewayTakes(r) \/ UpstreamAnswers(r) \/ RefreshServed(r) \/ RetryAnswers(r)
       \/ BrowserReceives(r) \/ GiveUp(r)
       \/ \E result \in {"success", "refused", "transient"} : FlightResolves(r, result)
  \/ MarkerExpires

WebSpec == WebInit /\ [][WebNext]_webVars

-----------------------------------------------------------------------------
(* Properties.                                                             *)

Request ==
  [kind : {"me", "call", "login", "logout", "password"}, tab : Tabs, tok : Nat,
   marked : BOOLEAN, auth : Nat, wanted : BOOLEAN,
   phase : {"sent", "upstream", "flight", "again", "done"}, leader : {0} \cup Slots,
   refresh : {"none", "called", "rotated", "refused"}, fresh : Nat, next : Nat,
   setTok : {Keep} \cup Nat, setMark : {"keep", "set", "clear"},
   answer : {"none", "ok", "error", "unauthenticated", "soft", "hard"}]

\* The cookies, tabs, requests, calls in flight and tokens keep their types.
WebTypeOK ==
  /\ jar \in [tok : Nat, mark : BOOLEAN]
  /\ tabs \in [Tabs -> [status : {"idle", "loading", "in", "out"}, access : Nat,
                        attempt : 0..BootstrapAttempts, told : BOOLEAN]]
  /\ reqs \in [Slots -> Request \cup {NoRequest}]
  /\ DOMAIN inFlight \subseteq 1..account.issued /\ inFlight \in [DOMAIN inFlight -> Slots]
  /\ account.good \subseteq 1..account.issued

\* No token is under way to the backend twice: the second call would be refused
\* and look like the end of the session.
FlightsAreSingle ==
  \A r, s \in Open :
    /\ r # s /\ reqs[r].refresh # "none" /\ reqs[s].refresh # "none"
    => reqs[r].tok # reqs[s].tok

\* At rest the jar holds the last token issued, unless it is empty or something
\* happened to an answer: it was given up, the answer of a rotation was lost on
\* its way to the server, it came after that of a later rotation, or it was one
\* of /api/auth/me that failed after its refresh.
CookieIsNewest ==
  Open = {} /\ jar.tok # 0 /\ history.lapses = {} => jar.tok = account.issued

\* "Session expired." is said only of a token the backend no longer accepts, and
\* only to a browser that was warned by a marker or has just been given a fresh
\* access token that was refused.
EndIsTrue ==
  \A r \in Open : reqs[r].answer = "hard" =>
    reqs[r].tok \notin account.good /\ (reqs[r].marked \/ reqs[r].next # 0)

\* A sign-out reaches every tab: at rest no tab shows a session when the jar holds
\* none, unless the backend ended it, which the other tabs are not told.
SignOutIsShared ==
  Open = {} /\ jar.tok = 0 /\ ~history.ended /\ (\A t \in Tabs : ~tabs[t].told)
  => \A t \in Tabs : tabs[t].status # "in"

\* The session of the browser is sound.
WebSound == FlightsAreSingle /\ CookieIsNewest /\ EndIsTrue /\ SignOutIsShared

\* README.md:126: the route handlers transparently refresh expired access
\* tokens: a failure of the backend after a refresh does not cost the session.
RefreshIsTransparent ==
  Open = {} /\ jar.tok # 0 /\ history.lapses \subseteq {"me"} => jar.tok = account.issued
=============================================================================
