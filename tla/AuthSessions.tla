----------------------------- MODULE AuthSessions -----------------------------
(***************************************************************************)
(* Login, refresh and logout: the sessions of services/auth.py, the        *)
(* accounts of services/users.py that an admin updates and deletes, and    *)
(* one browser, whose tabs share the stored tokens and refresh them for    *)
(* requests that were answered 401 (client.ts, auth-context.tsx).          *)
(*                                                                         *)
(* A refresh token is its session; an access token stands for the session  *)
(* it was minted from, and any of them may have expired.  Every await of a *)
(* handler and every answer is a step; answers may be lost.                *)
(***************************************************************************)
EXTENDS Integers, FiniteSets

CONSTANTS
  Users,      \* accounts
  MaxLogins,  \* bound: sessions that logins open
  Tabs,       \* tabs of the browser
  Requests,   \* authorised requests
  TabOf,      \* the tab of each request
  NoUser

ASSUME LoginsAssumption == MaxLogins \in Nat
ASSUME TabAssumption == TabOf \in [Requests -> Tabs]
ASSUME UserAssumption == NoUser \notin Users

Sessions == 1..MaxLogins
None == 0     \* no token

VARIABLES
  accounts,  \* the users that exist
  session,   \* each session's row
  owner,     \* ... and its user
  revoking,  \* POST /auth/logout for each session, at the server
  deleting,  \* DELETE /admin/users/{id}, for each user
  access,    \* localStorage: the access token
  refresh,   \* localStorage: the refresh token
  login,     \* the login of each tab
  logout,    \* the logout of each tab
  slot,      \* refreshPromise of each tab
  request,   \* where each request is, and the access token it was sent with
  ended      \* history: sessions a logout or a deletion has ended

accountVars == <<accounts, deleting>>
sessionVars == <<session, owner, revoking, ended>>
storageVars == <<access, refresh>>
pageVars == <<login, logout>>
serverVars == <<accountVars, sessionVars>>
browserVars == <<storageVars, pageVars, slot, request>>
vars == <<serverVars, browserVars>>

-----------------------------------------------------------------------------
(* The data. *)

Token == Sessions \cup {None}
NoLogin == [at |-> "idle", user |-> NoUser, session |-> None]
NoLogout == [at |-> "none", token |-> None]
NoSlot == [at |-> "none", token |-> None]
Verdicts == {"ok", "revoked", "gone", "fault", "network", "unreadable"}

\* retried: it was sent again after a refresh; boot: it is the getMe of a page
\* that loads.
Request == [at : {"idle", "sent", "waiting"}, token : Token,
            retried : BOOLEAN, boot : BOOLEAN]
NoRequest == [at |-> "idle", token |-> None, retried |-> FALSE, boot |-> FALSE]

Init ==
  /\ accounts = Users
  /\ session = [s \in Sessions |-> "none"]
  /\ owner = [s \in Sessions |-> NoUser]
  /\ revoking = [s \in Sessions |-> "none"]
  /\ deleting = [u \in Users |-> "none"]
  /\ access = None /\ refresh = None
  /\ login = [t \in Tabs |-> NoLogin]
  /\ logout = [t \in Tabs |-> NoLogout]
  /\ slot = [t \in Tabs |-> NoSlot]
  /\ request = [q \in Requests |-> NoRequest]
  /\ ended = {}

-----------------------------------------------------------------------------
(* Accounts: services/users.py. *)

\* update_user saves whole the user its dependency has loaded some time before,
\* which inserts it if it is gone by now.
UpdateUser(u) ==
  /\ accounts' = accounts \cup {u}
  /\ UNCHANGED <<deleting, sessionVars, browserVars>>

\* delete_user: the user was found ...
DeleteLoad(u) ==
  /\ u \in accounts /\ deleting[u] = "none"
  /\ deleting' = [deleting EXCEPT ![u] = "sessions"]
  /\ UNCHANGED <<accounts, sessionVars, browserVars>>

Owned(u) == {s \in Sessions : owner[s] = u}

\* Mutant: the rows are left to the index that removes them once expired.
KeepRows(u) == {}

RowsDeleted(u) == Owned(u)

\* ... its sessions are deleted ...
DeleteSessions(u) ==
  /\ deleting[u] = "sessions"
  /\ deleting' = [deleting EXCEPT ![u] = "account"]
  /\ session' = [s \in Sessions |-> IF s \in RowsDeleted(u) THEN "gone" ELSE session[s]]
  /\ ended' = ended \cup Owned(u)
  /\ UNCHANGED <<accounts, owner, revoking, browserVars>>

\* ... and then the account.
DeleteAccount(u) ==
  /\ deleting[u] = "account"
  /\ deleting' = [deleting EXCEPT ![u] = "none"]
  /\ accounts' = accounts \ {u}
  /\ UNCHANGED <<sessionVars, browserVars>>

-----------------------------------------------------------------------------
(* Login. *)

\* authenticate: the user is there and the password is right.
Authenticate(t, u) ==
  /\ login[t] = NoLogin /\ logout[t] = NoLogout
  /\ u \in accounts
  /\ login' = [login EXCEPT ![t] = [NoLogin EXCEPT !.at = "insert", !.user = u]]
  /\ UNCHANGED <<serverVars, storageVars, logout, slot, request>>

\* issue_tokens inserts the session.
IssueTokens(t) ==
  /\ login[t].at = "insert"
  /\ \E s \in Sessions :
       /\ session[s] = "none" /\ \A n \in 1..(s - 1) : session[n] # "none"
       /\ session' = [session EXCEPT ![s] = "valid"]
       /\ owner' = [owner EXCEPT ![s] = login[t].user]
       /\ login' = [login EXCEPT ![t].at = "answer", ![t].session = s]
  /\ UNCHANGED <<accountVars, revoking, ended, storageVars, logout, slot, request>>

\* setTokens with both tokens.
StoreBoth(s) == access' = s /\ refresh' = s

\* The browser stores both tokens.
LoggedIn(t) ==
  /\ login[t].at = "answer"
  /\ StoreBoth(login[t].session)
  /\ login' = [login EXCEPT ![t] = NoLogin]
  /\ UNCHANGED <<serverVars, logout, slot, request>>

\* The login fails, or its answer is lost.
LoginFails(t) ==
  /\ login[t] # NoLogin
  /\ login' = [login EXCEPT ![t] = NoLogin]
  /\ UNCHANGED <<serverVars, storageVars, logout, slot, request>>

-----------------------------------------------------------------------------
(* Logout. *)

Clear == access' = None /\ refresh' = None

\* POST /auth/logout with the stored refresh token, which may never arrive.
PostLogout ==
  IF refresh = None THEN UNCHANGED revoking
  ELSE \/ revoking[refresh] = "none" /\ revoking' = [revoking EXCEPT ![refresh] = "find"]
       \/ UNCHANGED revoking

Logout(t) ==
  /\ logout[t] = NoLogout /\ login[t] = NoLogin
  /\ refresh # None
  /\ PostLogout
  /\ logout' = [logout EXCEPT ![t] = [at |-> "sent", token |-> refresh]]
  /\ UNCHANGED <<accountVars, session, owner, ended, storageVars, login, slot, request>>

\* Nothing to revoke.
LogoutLocally(t) ==
  /\ logout[t] = NoLogout /\ login[t] = NoLogin
  /\ refresh = None
  /\ Clear
  /\ UNCHANGED <<serverVars, pageVars, slot, request>>

\* Answered or failed, the stored tokens go.
LoggedOut(t) ==
  /\ logout[t].at \in {"sent", "retried"}
  /\ logout' = [logout EXCEPT ![t] = NoLogout]
  /\ Clear
  /\ UNCHANGED <<serverVars, login, slot, request>>

\* revoke_refresh_token: find the session, if it is still there ...
RevokeFind(s) ==
  /\ revoking[s] = "find"
  /\ revoking' = [revoking EXCEPT ![s] = IF session[s] = "gone" THEN "none" ELSE "save"]
  /\ UNCHANGED <<accountVars, session, owner, ended, browserVars>>

\* ... and save it revoked, which inserts it again if it was deleted meanwhile.
RevokeSave(s) ==
  /\ revoking[s] = "save"
  /\ session' = [session EXCEPT ![s] = "revoked"]
  /\ ended' = ended \cup {s}
  /\ revoking' = [revoking EXCEPT ![s] = "none"]
  /\ UNCHANGED <<accountVars, owner, browserVars>>

\* The token expires, and the index on expires_at removes its row.
Expires(s) ==
  /\ session[s] \in {"valid", "revoked"}
  /\ session' = [session EXCEPT ![s] = "gone"]
  /\ UNCHANGED <<accountVars, owner, revoking, ended, browserVars>>

\* A page goes, by closing, navigating or reloading: pagehide posts a logout
\* and leaves the tokens where they are.  What the page was waiting for is lost.
PageHide(t) ==
  /\ PostLogout
  /\ login' = [login EXCEPT ![t] = NoLogin]
  /\ logout' = [logout EXCEPT ![t] = NoLogout]
  /\ slot' = [slot EXCEPT ![t] = NoSlot]
  /\ request' = [q \in Requests |-> IF TabOf[q] = t THEN NoRequest ELSE request[q]]
  /\ UNCHANGED <<accountVars, session, owner, ended, storageVars>>

-----------------------------------------------------------------------------
(* Requests. *)

\* A page that loads with a stored token sends getMe; any page sends others.
Send(q) ==
  /\ request[q] = NoRequest
  /\ \E b \in IF access = None THEN {FALSE} ELSE BOOLEAN :
       request' = [request EXCEPT ![q] = [at |-> "sent", token |-> access,
                                          retried |-> FALSE, boot |-> b]]
  /\ UNCHANGED <<serverVars, storageVars, pageVars, slot>>

Sent(q) == request[q].at = "sent"
Finish(q) == request' = [request EXCEPT ![q] = NoRequest]

\* The page forgets the tokens, whosever they are by now, if its getMe fails.
FailedBoot(q) == IF request[q].boot THEN Clear ELSE UNCHANGED storageVars

\* get_current_user lets it through and the route answers.
Succeeds(q) ==
  /\ Sent(q)
  /\ request[q].token # None /\ owner[request[q].token] \in accounts
  /\ Finish(q)
  /\ UNCHANGED <<serverVars, storageVars, pageVars, slot>>

\* It is answered with another error than 401: a user that is gone, a limit, a
\* fault.
ErrorAnswer(q) ==
  /\ Sent(q)
  /\ Finish(q)
  /\ FailedBoot(q)
  /\ UNCHANGED <<serverVars, pageVars, slot>>

\* The fetch itself fails, or the answer's body cannot be read: neither is the
\* ApiError of status 0 that the page looks for.
NetworkError(q) ==
  /\ Sent(q)
  /\ Finish(q)
  /\ FailedBoot(q)
  /\ UNCHANGED <<serverVars, pageVars, slot>>

\* Mutant: isRetry is not looked at.
AlwaysRefresh(q) == TRUE

MayRefresh(q) == ~request[q].retried

\* Mutant: whatever is stored is presented.
PresentAnything == TRUE

HasRefreshToken == refresh # None

\* The refresh of a tab is joined, or started if there is none.
JoinRefresh(t) ==
  /\ slot[t] # NoSlot \/ HasRefreshToken
  /\ slot' = IF slot[t] # NoSlot THEN slot
             ELSE [slot EXCEPT ![t] = [at |-> "find", token |-> refresh]]

\* 401: the token is missing or has expired.  The request waits for the refresh
\* of its tab.
AwaitRefresh(q) ==
  /\ Sent(q) /\ MayRefresh(q)
  /\ JoinRefresh(TabOf[q])
  /\ request' = [request EXCEPT ![q].at = "waiting", ![q].token = None]
  /\ UNCHANGED <<serverVars, storageVars, pageVars>>

\* 401 to a logout, which is a request like any other: the refresh token it
\* carries has expired.
LogoutAwaits(t) ==
  /\ logout[t].at = "sent" /\ session[logout[t].token] = "gone"
  /\ JoinRefresh(t)
  /\ logout' = [logout EXCEPT ![t].at = "waiting"]
  /\ UNCHANGED <<serverVars, storageVars, login, request>>

\* 401 without a refresh token to present: the session is over.
NothingToRefresh(q) ==
  /\ Sent(q) /\ MayRefresh(q)
  /\ slot[TabOf[q]] = NoSlot /\ ~HasRefreshToken
  /\ Finish(q)
  /\ Clear
  /\ UNCHANGED <<serverVars, pageVars, slot>>

\* 401 again, after a refresh: an error like any other.
StillUnauthorized(q) ==
  /\ Sent(q) /\ ~MayRefresh(q)
  /\ Finish(q)
  /\ FailedBoot(q)
  /\ UNCHANGED <<serverVars, pageVars, slot>>

-----------------------------------------------------------------------------
(* The refresh of a tab. *)

\* refresh_access_token finds the session ...
RefreshFind(t) ==
  /\ slot[t].at = "find"
  /\ slot' = [slot EXCEPT ![t].at = IF session[slot[t].token] = "valid" THEN "mint" ELSE "revoked"]
  /\ UNCHANGED <<serverVars, storageVars, pageVars, request>>

\* ... and its user, and mints an access token.
RefreshMint(t) ==
  /\ slot[t].at = "mint"
  /\ slot' = [slot EXCEPT ![t].at = IF owner[slot[t].token] \in accounts THEN "ok" ELSE "gone"]
  /\ UNCHANGED <<serverVars, storageVars, pageVars, request>>

\* A 429 or a 5xx instead, or no answer.
RefreshFault(t) ==
  /\ slot[t].at \in {"find", "mint", "ok"}
  /\ \E v \in {"fault", "network"} : slot' = [slot EXCEPT ![t].at = v]
  /\ UNCHANGED <<serverVars, storageVars, pageVars, request>>

\* The answer is 2xx, but its body is lost or not what it should be: it is read
\* outside the try, so what is thrown is neither verdict.
RefreshUnreadable(t) ==
  /\ slot[t].at = "ok"
  /\ slot' = [slot EXCEPT ![t].at = "unreadable"]
  /\ UNCHANGED <<serverVars, storageVars, pageVars, request>>

Waiting(t) == {q \in Requests : TabOf[q] = t /\ request[q].at = "waiting"}

\* Mutant: no answer counts as a rejection.
AllButOk == Verdicts \ {"ok"}

\* Every answer that is not 2xx counts as a rejection of the token.
Rejections == {"revoked", "gone", "fault"}

\* A logout that waits goes on with the others: to its second try, which carries
\* the same token, or to its end.
LogoutGoesOn(t, x) ==
  logout' = IF logout[t].at = "waiting" THEN [logout EXCEPT ![t] = x] ELSE logout

\* The new token is stored, whatever is stored by now, and the requests that
\* wait for it are sent again.
Refreshed(t) ==
  /\ slot[t].at = "ok"
  /\ slot' = [slot EXCEPT ![t] = NoSlot]
  /\ access' = slot[t].token
  /\ request' = [q \in Requests |->
                  IF q \in Waiting(t)
                  THEN [request[q] EXCEPT !.at = "sent", !.token = slot[t].token, !.retried = TRUE]
                  ELSE request[q]]
  /\ LogoutGoesOn(t, [logout[t] EXCEPT !.at = "retried"])
  /\ UNCHANGED <<serverVars, refresh, login>>

\* A loading page that meets what was thrown takes its session for over.
BootMisled(t) ==
  slot[t].at = "unreadable" /\ \E q \in Waiting(t) : request[q].boot

\* The requests that wait fail.  A rejection is a forced logout, and a logout
\* that waits is over; without an answer the tokens stay, for a loading page too.
NotRefreshed(t) ==
  /\ slot[t].at \in Verdicts \ {"ok"}
  /\ slot' = [slot EXCEPT ![t] = NoSlot]
  /\ request' = [q \in Requests |-> IF q \in Waiting(t) THEN NoRequest ELSE request[q]]
  /\ IF slot[t].at \in Rejections \/ logout[t].at = "waiting" \/ BootMisled(t)
     THEN Clear ELSE UNCHANGED storageVars
  /\ LogoutGoesOn(t, NoLogout)
  /\ UNCHANGED <<serverVars, login>>

-----------------------------------------------------------------------------
Accounts(u) == UpdateUser(u) \/ DeleteLoad(u) \/ DeleteSessions(u) \/ DeleteAccount(u)
Rows(s) == RevokeFind(s) \/ RevokeSave(s) \/ Expires(s)
Logins(t) == (\E u \in Users : Authenticate(t, u)) \/ IssueTokens(t) \/ LoggedIn(t) \/ LoginFails(t)
Logouts(t) == Logout(t) \/ LogoutLocally(t) \/ LogoutAwaits(t) \/ LoggedOut(t) \/ PageHide(t)
Answers(q) == Succeeds(q) \/ ErrorAnswer(q) \/ NetworkError(q) \/ AwaitRefresh(q) \/ NothingToRefresh(q) \/ StillUnauthorized(q)
Refreshes(t) == RefreshFind(t) \/ RefreshMint(t) \/ RefreshFault(t) \/ RefreshUnreadable(t) \/ Refreshed(t) \/ NotRefreshed(t)

Next ==
  \/ \E u \in Users : Accounts(u)
  \/ \E s \in Sessions : Rows(s)
  \/ \E t \in Tabs : Logins(t) \/ Logouts(t) \/ Refreshes(t)
  \/ \E q \in Requests : Send(q) \/ Answers(q)

Spec == Init /\ [][Next]_vars

-----------------------------------------------------------------------------
(* Properties. *)

AuthTypeOK ==
  /\ accounts \subseteq Users
  /\ deleting \in [Users -> {"none", "sessions", "account"}]
  /\ session \in [Sessions -> {"none", "valid", "revoked", "gone"}]
  /\ owner \in [Sessions -> Users \cup {NoUser}]
  /\ revoking \in [Sessions -> {"none", "find", "save"}]
  /\ access \in Token /\ refresh \in Token
  /\ login \in [Tabs -> [at : {"idle", "insert", "answer"},
                         user : Users \cup {NoUser}, session : Token]]
  /\ logout \in [Tabs -> [at : {"none", "sent", "waiting", "retried"}, token : Token]]
  /\ slot \in [Tabs -> {NoSlot} \cup [at : {"find", "mint"} \cup Verdicts, token : Sessions]]
  /\ request \in [Requests -> Request]
  /\ ended \subseteq Sessions

\* The row of a session that a logout or the deletion of its user has ended is
\* never valid again, whatever is saved over it late and even if the account
\* comes back: a refresh that looks it up from then on is refused.  (An access
\* token from before, or of a refresh that had looked it up already, is good for
\* requests until it expires.)
EndedStaysEnded == \A s \in ended : session[s] \in {"revoked", "gone"}

\* A tab's refresh is under way, and presents a session that a login has opened.
Refreshing(t) == slot[t].token # None /\ session[slot[t].token] # "none"

\* Nobody waits for ever: a request or a logout that waits has a refresh under
\* way in its tab, and a request has not waited before.
WaitsEnd ==
  /\ \A q \in Requests :
       request[q].at = "waiting" => Refreshing(TabOf[q]) /\ ~request[q].retried
  /\ \A t \in Tabs : logout[t].at = "waiting" => Refreshing(t)

Stale(t) == slot[t].token # refresh

Works(s) == s # None /\ session[s] = "valid" /\ owner[s] \in accounts

\* A stored session that works is dropped only by a logout, by a page it would
\* have loaded, or by a refresh that met a fault or an absent user or was about
\* another session: never by a refresh that says "revoked" of that very session,
\* and never by one that got no answer, unless a logout waits for it.  A page
\* drops it when its own request fails, and when the answer to the refresh
\* cannot be read.
DropsJustified ==
  [][Works(refresh) /\ refresh' = None =>
       \/ \E t \in Tabs : LoggedOut(t)
       \/ \E q \in Requests : request[q].boot /\ (ErrorAnswer(q) \/ NetworkError(q) \/ StillUnauthorized(q))
       \/ \E t \in Tabs : /\ NotRefreshed(t)
                          /\ \/ slot[t].at \in {"fault", "gone"} \/ Stale(t)
                             \/ logout[t].at = "waiting" \/ BootMisled(t)]_vars
=============================================================================
