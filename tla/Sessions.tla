------------------------------ MODULE Sessions ------------------------------
(***************************************************************************)
(* A user's sessions: postLogin, postRefresh and postLogout of             *)
(* src/api/routes/auth.ts over the RefreshToken rows, and the browser      *)
(* side of them: the cookie jar all tabs share, each tab's access token in *)
(* memory, and the interceptor of frontend/src/lib/api.ts that refreshes   *)
(* on a 401 and replays the request.  One action is what runs between two  *)
(* awaits and the one database command, or the one answer, it ends with.   *)
(***************************************************************************)
EXTENDS Naturals, FiniteSets

CONSTANTS
  Tabs,    \* open tabs of one browser, all of one user
  Works,   \* ordinary API requests a tab can have in flight
  Tokens,  \* refresh tokens that can be minted (random: never reused)
  Habits,  \* what may happen besides: see AllHabits
  None     \* no token

\* timer: the proactive refresh a minute before the access token expires.
\* access, refresh: an access token, a refresh token outlives its TTL.
\* lose: a request or an answer is lost.  admin: the user is deactivated and
\* reactivated.
AllHabits == {"timer", "access", "refresh", "lose", "admin"}

ASSUME HabitsAssumption == Habits \subseteq AllHabits
ASSUME NoTokenAssumption == None \notin Tokens
ASSUME SlotsAssumption == Works \cap {"login", "logout", "refresh", "timer"} = {}
ASSUME FiniteAssumption == IsFiniteSet(Tabs) /\ IsFiniteSet(Works) /\ IsFiniteSet(Tokens)

VARIABLES
  active,      \* User.isActive
  token,       \* RefreshToken rows: unissued, live, revoked or past expiresAt
  origin,      \* the login a token descends from and the token it replaced
  cookie,      \* the refresh cookie in the browser
  undelivered, \* tokens whose Set-Cookie was lost
  tab,         \* per tab: lib/api.ts's module state and the auth store
  req,         \* requests in flight
  overlapped   \* history: logins of which two refreshes were in flight at once

server == <<active, token, origin>>
browser == <<cookie, undelivered, tab, overlapped>>
vars == <<server, browser, req>>

\* "refresh" is the request behind refreshPromise, "timer" the proactive one.
Refreshes == {"refresh", "timer"}
Slots == {"login", "logout"} \cup Refreshes \cup Works

NoReq == [pc |-> "idle", cookie |-> None, auth |-> "none", minted |-> None, retried |-> FALSE]
NewTab == [signedIn |-> FALSE, access |-> "none", timer |-> FALSE, modals |-> {}, refused |-> None]

Init ==
  /\ active = TRUE
  /\ token = [k \in Tokens |-> "unissued"]
  /\ origin = [k \in Tokens |-> [login |-> None, from |-> None]]
  /\ cookie = None
  /\ undelivered = {}
  /\ tab = [t \in Tabs |-> NewTab]
  /\ req = [x \in Tabs \X Slots |-> NoReq]
  /\ overlapped = {}

-----------------------------------------------------------------------------
(* The server                                                              *)

InFlight(x) == req[x].pc # "idle"
Goes(x, pc) == req' = [req EXCEPT ![x].pc = pc]
Present(k) == k # None /\ token[k] = "live"
FreshToken == CHOOSE k \in Tokens : token[k] = "unissued"

\* createRefreshToken, then the answer that sets the cookie.
Mint(x, login, from) ==
  /\ token' = [token EXCEPT ![FreshToken] = "live"]
  /\ origin' = [origin EXCEPT ![FreshToken] = [login |-> login, from |-> from]]
  /\ req' = [req EXCEPT ![x].pc = "200", ![x].minted = FreshToken]
  /\ UNCHANGED <<active, browser>>

Revoke(x, pc) ==
  /\ token' = [token EXCEPT ![req[x].cookie] = "revoked"]
  /\ Goes(x, pc)
  /\ UNCHANGED <<active, origin, browser>>

\* postLogin: wrong credentials (401), a disabled account (403), or a session.
LoginUser(x) ==
  /\ req[x].pc = "loginUser"
  /\ \/ Goes(x, "401")
     \/ ~active /\ Goes(x, "403")
     \/ active /\ Goes(x, "loginMint")
  /\ UNCHANGED <<server, browser>>

LoginMint(x) == req[x].pc = "loginMint" /\ Mint(x, FreshToken, None)

\* postRefresh: findActiveByHash.  Only a refused cookie is cleared.
RefreshFind(x) ==
  /\ req[x].pc = "refreshFind"
  /\ \/ req[x].cookie = None /\ Goes(x, "401")
     \/ req[x].cookie # None /\ ~Present(req[x].cookie) /\ Goes(x, "401clear")
     \/ Present(req[x].cookie) /\ Goes(x, "refreshUser")
  /\ UNCHANGED <<server, browser>>

RefreshUser(x) ==
  /\ req[x].pc = "refreshUser"
  /\ Goes(x, IF active THEN "refreshRevoke" ELSE "refreshRefuse")
  /\ UNCHANGED <<server, browser>>

\* Mutant: the token of a deactivated user is refused, and left as it is.
RefuseOnly(x) ==
  req[x].pc = "refreshRefuse" /\ Goes(x, "401clear") /\ UNCHANGED <<server, browser>>

RefreshRefuse(x) == req[x].pc = "refreshRefuse" /\ Revoke(x, "401clear")

\* Mutant: the new token is minted beside the old one.
RotateWithoutRevoke(x) ==
  req[x].pc = "refreshRevoke" /\ Goes(x, "refreshMint") /\ UNCHANGED <<server, browser>>

RefreshRevoke(x) == req[x].pc = "refreshRevoke" /\ Revoke(x, "refreshMint")

RefreshMint(x) ==
  req[x].pc = "refreshMint" /\ Mint(x, origin[req[x].cookie].login, req[x].cookie)

\* postLogout behind requireAuth: an expired access token ends it there.
LogoutFind(x) ==
  /\ req[x].pc = "logoutFind"
  /\ \/ req[x].auth # "valid" /\ Goes(x, "401")
     \/ req[x].auth = "valid" /\ Goes(x, IF Present(req[x].cookie) THEN "logoutRevoke" ELSE "204")
  /\ UNCHANGED <<server, browser>>

LogoutRevoke(x) == req[x].pc = "logoutRevoke" /\ Revoke(x, "204")

\* Any other route: requireAuth verifies the access token alone.
Serve(x) ==
  /\ req[x].pc = "sent"
  /\ Goes(x, IF req[x].auth = "valid" THEN "200" ELSE "401")
  /\ UNCHANGED <<server, browser>>

\* setActive and updateUser of the users router: no token is touched.
SetActive ==
  /\ "admin" \in Habits
  /\ active' = ~active
  /\ UNCHANGED <<token, origin, browser, req>>

\* expiresAt passes.
ExpireToken(k) ==
  /\ "refresh" \in Habits
  /\ token[k] = "live"
  /\ token' = [token EXCEPT ![k] = "expired"]
  /\ UNCHANGED <<active, origin, browser, req>>

-----------------------------------------------------------------------------
(* The browser                                                             *)

\* Bound: a request that can end in a mint starts only while a token is left.
TokenLeft ==
  Cardinality({x \in Tabs \X (Slots \ {"logout"}) : InFlight(x)})
    < Cardinality({k \in Tokens : token[k] = "unissued"})

Sends(x, r) == req' = [req EXCEPT ![x] = r]

\* What a request carries: the cookie to /auth, the access token elsewhere.
Refresh == [NoReq EXCEPT !.pc = "refreshFind", !.cookie = cookie]
LoginRequest == [NoReq EXCEPT !.pc = "loginUser"]
LogoutRequest(t) == [NoReq EXCEPT !.pc = "logoutFind", !.cookie = cookie, !.auth = tab[t].access]
WorkRequest(t) == [NoReq EXCEPT !.pc = "sent", !.auth = tab[t].access]

\* A refresh of the cookie's login starts beside another.
Overlaps ==
  IF cookie # None /\ \E x \in Tabs \X Refreshes : InFlight(x)
  THEN overlapped \cup {origin[cookie].login} ELSE overlapped

\* The modals are not dismissable: nothing is clicked behind them.
Clicks(t, slot, signedIn) ==
  /\ tab[t].signedIn = signedIn
  /\ tab[t].modals = {}
  /\ ~InFlight(<<t, slot>>)

Login(t) ==
  /\ Clicks(t, "login", FALSE)
  /\ TokenLeft
  /\ Sends(<<t, "login">>, LoginRequest)
  /\ UNCHANGED <<server, browser>>

Logout(t) ==
  /\ Clicks(t, "logout", TRUE)
  /\ Sends(<<t, "logout">>, LogoutRequest(t))
  /\ UNCHANGED <<server, browser>>

Request(t, w) ==
  /\ Clicks(t, w, TRUE)
  /\ TokenLeft
  /\ Sends(<<t, w>>, WorkRequest(t))
  /\ UNCHANGED <<server, browser>>

\* scheduleProactiveRefresh calls silentRefresh, not doRefresh.
TimerFires(t) ==
  /\ "timer" \in Habits
  /\ tab[t].timer
  /\ TokenLeft
  /\ ~InFlight(<<t, "timer">>)
  /\ Sends(<<t, "timer">>, Refresh)
  /\ overlapped' = Overlaps
  /\ tab' = [tab EXCEPT ![t].timer = FALSE]
  /\ UNCHANGED <<server, cookie, undelivered>>

AccessExpires(t) ==
  /\ "access" \in Habits
  /\ tab[t].access = "valid"
  /\ tab' = [tab EXCEPT ![t].access = "expired"]
  /\ UNCHANGED <<server, cookie, undelivered, req, overlapped>>

\* setAccessToken(token, expiresIn) and setAccessToken(null).
Holding(tb) == [tb EXCEPT !.access = "valid", !.timer = TRUE]
Empty(tb) == [tb EXCEPT !.access = "none", !.timer = FALSE]

\* What the auth store makes of it: the two modals, a login, a logout.
SessionExpired(tb, k) == [Empty(tb) EXCEPT !.modals = @ \cup {"expired"}, !.refused = k]
AccountDisabled(tb) == [Empty(tb) EXCEPT !.modals = @ \cup {"disabled"}]
LoggedIn(tb) == [Holding(tb) EXCEPT !.signedIn = TRUE, !.modals = @ \ {"expired"}]
LoggedOut(tb) == [Empty(tb) EXCEPT !.signedIn = FALSE, !.modals = @ \ {"expired"}]
Cleared(tb) == [Empty(tb) EXCEPT !.signedIn = FALSE, !.modals = {}]

Waiters(t) == {x \in {t} \X Works : req[x].pc = "waiting"}

\* The waiters of refreshPromise become rq(x), its own request is over.
Resolve(t, Rq(_)) ==
  req' = [x \in DOMAIN req |-> IF x = <<t, "refresh">> THEN NoReq
                               ELSE IF x \in Waiters(t) THEN Rq(x) ELSE req[x]]

\* doRefresh: one refresh in flight, which later 401s join.
DoRefresh(t) ==
  IF InFlight(<<t, "refresh">>) THEN req[<<t, "refresh">>] ELSE Refresh

WorkAnswered(t, w) ==
  LET x == <<t, w>> IN
  /\ req[x].pc \in {"200", "401"}
  /\ \/ /\ req[x].pc = "401" /\ ~req[x].retried
        /\ req' = [req EXCEPT ![x].pc = "waiting", ![x].retried = TRUE,
                              ![<<t, "refresh">>] = DoRefresh(t)]
        /\ overlapped' = IF InFlight(<<t, "refresh">>) THEN overlapped ELSE Overlaps
     \/ /\ req[x].pc = "200" \/ req[x].retried
        /\ req' = [req EXCEPT ![x] = NoReq]
        /\ UNCHANGED overlapped
  /\ UNCHANGED <<server, cookie, undelivered, tab>>

Resent(x) == [req[x] EXCEPT !.pc = "sent", !.auth = "valid"]

\* silentRefresh resolves.
Refreshed(t, slot) ==
  LET x == <<t, slot>> IN
  /\ req[x].pc = "200"
  /\ cookie' = req[x].minted
  /\ tab' = [tab EXCEPT ![t] = Holding(@)]
  /\ IF slot = "refresh" THEN Resolve(t, Resent) ELSE req' = [req EXCEPT ![x] = NoReq]
  /\ UNCHANGED <<server, undelivered, overlapped>>

\* Mutant: the interceptor also handles the 401 of /auth/refresh itself, which
\* then waits for its own promise.
RefreshRefusedAwaitsItself(t) ==
  /\ req[<<t, "refresh">>].pc = "401"
  /\ Goes(<<t, "refresh">>, "waiting")
  /\ UNCHANGED <<server, browser>>

\* Mutant: the failed refresh leaves its waiters as they are.
RejectedNever(x) == req[x]

Rejected(x) == NoReq

\* Mutant: any failed refresh opens the modal, a network error too.
LoseExpires(t, slot) ==
  LET x == <<t, slot>> IN
  /\ "lose" \in Habits /\ slot = "refresh"
  /\ req[x].pc = "refreshFind"
  /\ tab' = [tab EXCEPT ![t] = SessionExpired(@, req[x].cookie)]
  /\ Resolve(t, Rejected)
  /\ UNCHANGED <<server, cookie, undelivered, overlapped>>

ClearedBy(x) == IF req[x].pc = "401clear" THEN None ELSE cookie

\* REFRESH_TOKEN_INVALID: the waiters fail, and the session-expired modal opens.
RefreshRefused(t) ==
  LET x == <<t, "refresh">> IN
  /\ req[x].pc \in {"401", "401clear"}
  /\ cookie' = ClearedBy(x)
  /\ tab' = [tab EXCEPT ![t] = SessionExpired(@, req[x].cookie)]
  /\ Resolve(t, Rejected)
  /\ UNCHANGED <<server, undelivered, overlapped>>

\* The proactive refresh fails silently; its answer clears the cookie all the same.
TimerRefused(t) ==
  LET x == <<t, "timer">> IN
  /\ req[x].pc \in {"401", "401clear"}
  /\ cookie' = ClearedBy(x)
  /\ req' = [req EXCEPT ![x] = NoReq]
  /\ UNCHANGED <<server, undelivered, tab, overlapped>>

LoginAnswered(t) ==
  LET x == <<t, "login">> IN
  /\ \/ /\ req[x].pc = "200"
        /\ cookie' = req[x].minted
        /\ tab' = [tab EXCEPT ![t] = LoggedIn(@)]
     \/ /\ req[x].pc = "403"
        /\ tab' = [tab EXCEPT ![t] = AccountDisabled(@)]
        /\ UNCHANGED cookie
     \/ req[x].pc = "401" /\ UNCHANGED <<cookie, tab>>
  /\ req' = [req EXCEPT ![x] = NoReq]
  /\ UNCHANGED <<server, undelivered, overlapped>>

\* Best effort: the local state is cleared whatever the answer.
LogoutAnswered(t) ==
  LET x == <<t, "logout">> IN
  /\ req[x].pc \in {"204", "401"}
  /\ cookie' = IF req[x].pc = "204" THEN None ELSE cookie
  /\ tab' = [tab EXCEPT ![t] = LoggedOut(@)]
  /\ req' = [req EXCEPT ![x] = NoReq]
  /\ UNCHANGED <<server, undelivered, overlapped>>

\* The Sign In button of the modals: clearAuth.
SignInAgain(t) ==
  /\ tab[t].modals # {}
  /\ tab' = [tab EXCEPT ![t] = Cleared(@)]
  /\ UNCHANGED <<server, cookie, undelivered, req, overlapped>>

\* A request that never arrives, or whose answer does not: a network error,
\* which is no REFRESH_TOKEN_INVALID.
Lose(t, slot) ==
  LET x == <<t, slot>> IN
  /\ "lose" \in Habits
  /\ req[x].pc \in {"loginUser", "refreshFind", "logoutFind", "sent",
                    "200", "204", "401", "401clear", "403"}
  /\ undelivered' = undelivered \cup ({req[x].minted} \ {None})
  /\ tab' = IF slot = "logout" THEN [tab EXCEPT ![t] = LoggedOut(@)] ELSE tab
  /\ IF slot = "refresh" THEN Resolve(t, Rejected) ELSE req' = [req EXCEPT ![x] = NoReq]
  /\ UNCHANGED <<server, cookie, overlapped>>

-----------------------------------------------------------------------------
ServerStep(x) ==
  \/ LoginUser(x) \/ LoginMint(x) \/ Serve(x)
  \/ RefreshFind(x) \/ RefreshUser(x) \/ RefreshRefuse(x) \/ RefreshRevoke(x) \/ RefreshMint(x)
  \/ LogoutFind(x) \/ LogoutRevoke(x)

\* An answer arrives.
Arrives(t, slot) ==
  \/ slot \in Works /\ WorkAnswered(t, slot)
  \/ slot \in Refreshes /\ Refreshed(t, slot)
  \/ slot = "refresh" /\ RefreshRefused(t)
  \/ slot = "timer" /\ TimerRefused(t)
  \/ slot = "login" /\ LoginAnswered(t)
  \/ slot = "logout" /\ LogoutAnswered(t)

Next ==
  \/ \E x \in Tabs \X Slots : ServerStep(x)
  \/ \E t \in Tabs : \/ Login(t) \/ Logout(t) \/ SignInAgain(t)
                     \/ \E w \in Works : Request(t, w)
                     \/ TimerFires(t) \/ AccessExpires(t)
                     \/ \E slot \in Slots : Arrives(t, slot) \/ Lose(t, slot)
  \/ SetActive
  \/ \E k \in Tokens : ExpireToken(k)

Spec == Init /\ [][Next]_vars

\* Node's and the browser's event loops run; nobody has to click.
Fairness ==
  /\ \A x \in Tabs \X Slots : WF_vars(ServerStep(x))
  /\ \A t \in Tabs, slot \in Slots : WF_vars(Arrives(t, slot))

FairSpec == Spec /\ Fairness

-----------------------------------------------------------------------------
ReqPcs == {"idle", "waiting", "sent", "loginUser", "loginMint", "refreshFind", "refreshUser",
           "refreshRefuse", "refreshRevoke", "refreshMint", "logoutFind", "logoutRevoke",
           "200", "204", "401", "401clear", "403"}

\* The shape of the state, and of the shared refresh: requests wait exactly
\* while the one refresh they share is in flight.
TypeOK ==
  /\ active \in BOOLEAN
  /\ token \in [Tokens -> {"unissued", "live", "revoked", "expired"}]
  /\ origin \in [Tokens -> [login : Tokens \cup {None}, from : Tokens \cup {None}]]
  /\ cookie \in Tokens \cup {None}
  /\ undelivered \subseteq Tokens
  /\ tab \in [Tabs -> [signedIn : BOOLEAN, access : {"none", "valid", "expired"}, timer : BOOLEAN,
                       modals : SUBSET {"expired", "disabled"}, refused : Tokens \cup {None}]]
  /\ req \in [Tabs \X Slots -> [pc : ReqPcs, cookie : Tokens \cup {None},
                                auth : {"none", "valid", "expired"},
                                minted : Tokens \cup {None}, retried : BOOLEAN]]
  /\ overlapped \subseteq Tokens
  /\ \A t \in Tabs : Waiters(t) # {} <=> InFlight(<<t, "refresh">>)

Kin(k1, k2) == origin[k1].login = origin[k2].login
LiveKin(k) == {m \in Tokens : token[m] = "live" /\ Kin(m, k)}

\* At any moment one login has at most one live refresh token, through the
\* revoke and the mint of a rotation, the requests of a tab sharing one refresh,
\* logouts in the middle of it and lost answers.  The proactive timer, and a
\* second tab, do not share: two refreshes of one login are out of its reach.
OneLiveToken ==
  \A k \in Tokens : token[k] = "live" /\ origin[k].login \notin overlapped => LiveKin(k) = {k}

\* A token a refresh was refused for stays unusable, also for a user who is
\* activated again before the refusal arrives.
RefusedIsDead ==
  \A x \in Tabs \X Refreshes : req[x].pc = "401clear" => ~Present(req[x].cookie)

\* The user is told the session expired only when it has: the login of the
\* refused cookie has no live token left, except one the browser never got.
ExpiredIsDead ==
  \A t \in Tabs :
    /\ "expired" \in tab[t].modals
    /\ tab[t].refused # None
    /\ origin[tab[t].refused].login \notin overlapped
    => LiveKin(tab[t].refused) \subseteq undelivered

\* Every request ends: its 401, the refresh it waits for and the replay
\* included, whatever is refused or lost.
RequestsEnd ==
  \A x \in Tabs \X Works : req[x].pc # "idle" ~> req[x].pc = "idle"
=============================================================================
