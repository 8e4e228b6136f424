-------------------------- MODULE AuthSessionsProofs --------------------------
(***************************************************************************)
(* Proofs about AuthSessions, for any accounts, tabs and requests and any  *)
(* number of logins.                                                       *)
(***************************************************************************)
EXTENDS AuthSessions, TLAPS

USE LoginsAssumption, TabAssumption, UserAssumption

-----------------------------------------------------------------------------
(* Types. *)

Login == [at : {"idle", "insert", "answer"}, user : Users \cup {NoUser},
          session : Token]
Slot == [at : {"find", "mint"} \cup Verdicts, token : Sessions]
Leaving == [at : {"none", "sent", "waiting", "retried"}, token : Token]

\* What a tab's refresh slot can be.
LEMMA SlotFields ==
  ASSUME NEW x \in {NoSlot} \cup Slot
  PROVE  /\ x.at = "none" => x = NoSlot
         /\ x.at # "none" => x \in Slot /\ x.token \in Sessions
         /\ x # NoSlot => x \in Slot /\ x.at # "none"
BY DEF NoSlot, Slot, Verdicts

\* A refresh that goes on to another verdict keeps its token.
LEMMA SlotMoves ==
  ASSUME NEW x \in Slot, NEW v \in {"find", "mint"} \cup Verdicts
  PROVE  /\ [x EXCEPT !.at = v] \in Slot
         /\ [x EXCEPT !.at = v].at = v
         /\ [x EXCEPT !.at = v].token = x.token
BY DEF Slot

\* What the logout of a tab becomes.
LEMMA LogoutMoves ==
  /\ NoLogout \in Leaving /\ NoLogout.at = "none"
  /\ \A k \in Token : [at |-> "sent", token |-> k] \in Leaving
  /\ \A x \in Leaving, a \in {"waiting", "retried"} :
       [x EXCEPT !.at = a] \in Leaving /\ [x EXCEPT !.at = a].at = a
BY DEF NoLogout, Leaving, Token, None

\* A request that waits for a refresh, and that is sent again after it.
LEMMA RequestMoves ==
  ASSUME NEW x \in Request, NEW k \in Token
  PROVE  /\ [x EXCEPT !.at = "waiting", !.token = None] \in Request
         /\ [x EXCEPT !.at = "sent", !.token = k, !.retried = TRUE] \in Request
<1>1. None \in Token
  BY DEF Token, None
<1>2. [x EXCEPT !.at = "waiting", !.token = None] \in Request
  BY <1>1, Zenon DEF Request
<1>3. [x EXCEPT !.at = "sent", !.token = k, !.retried = TRUE] \in Request
  BY Zenon DEF Request
<1> QED
  BY <1>2, <1>3

\* The accounts and the rows of the sessions.
ServerTypes ==
  /\ accounts \subseteq Users
  /\ deleting \in [Users -> {"none", "sessions", "account"}]
  /\ session \in [Sessions -> {"none", "valid", "revoked", "gone"}]
  /\ owner \in [Sessions -> Users \cup {NoUser}]
  /\ revoking \in [Sessions -> {"none", "find", "save"}]
  /\ ended \subseteq Sessions

\* What the browser stores, and its logins and logouts.
PageTypes ==
  /\ access \in Token /\ refresh \in Token
  /\ login \in [Tabs -> Login]
  /\ logout \in [Tabs -> Leaving]

SlotTypes == slot \in [Tabs -> {NoSlot} \cup Slot]
RequestTypes == request \in [Requests -> Request]

LEMMA TypeParts ==
  /\ AuthTypeOK <=> ServerTypes /\ PageTypes /\ SlotTypes /\ RequestTypes
  /\ AuthTypeOK' <=> ServerTypes' /\ PageTypes' /\ SlotTypes' /\ RequestTypes'
BY DEF AuthTypeOK, ServerTypes, PageTypes, SlotTypes, RequestTypes, Login, Slot, Leaving

LEMMA InitTypes == Init => AuthTypeOK
<1> SUFFICES ASSUME Init PROVE AuthTypeOK
  OBVIOUS
<1> USE DEF Init
<1>1. ServerTypes
  BY DEF ServerTypes
<1>2. PageTypes
  BY LogoutMoves DEF PageTypes, Login, NoLogin, Token, None
<1>3. SlotTypes
  BY DEF SlotTypes
<1>4. NoRequest \in Request
  BY DEF NoRequest, Request, Token, None
<1>5. RequestTypes
  BY <1>4 DEF RequestTypes
<1> QED
  BY <1>1, <1>2, <1>3, <1>5, TypeParts

LEMMA AccountsTypes ==
  ASSUME AuthTypeOK, NEW u \in Users, Accounts(u) PROVE AuthTypeOK'
<1> USE DEF AuthTypeOK, sessionVars, browserVars, storageVars, pageVars
<1>1. CASE UpdateUser(u)  BY <1>1 DEF UpdateUser
<1>2. CASE DeleteLoad(u)  BY <1>2 DEF DeleteLoad
<1>3. CASE DeleteSessions(u)  BY <1>3 DEF DeleteSessions, Owned
<1>4. CASE DeleteAccount(u)  BY <1>4 DEF DeleteAccount
<1> QED  BY <1>1, <1>2, <1>3, <1>4 DEF Accounts

LEMMA RowsTypes ==
  ASSUME AuthTypeOK, NEW s \in Sessions, Rows(s) PROVE AuthTypeOK'
<1> USE DEF AuthTypeOK, accountVars, browserVars, storageVars, pageVars
<1>1. CASE RevokeFind(s)  BY <1>1 DEF RevokeFind
<1>2. CASE RevokeSave(s)  BY <1>2 DEF RevokeSave
<1>3. CASE Expires(s)  BY <1>3 DEF Expires
<1> QED  BY <1>1, <1>2, <1>3 DEF Rows

LEMMA PostLogoutTypes ==
  ASSUME AuthTypeOK, PostLogout
  PROVE  revoking' \in [Sessions -> {"none", "find", "save"}]
BY DEF AuthTypeOK, PostLogout, Token, None

\* A tab's refresh is joined, or started with the stored token.
LEMMA JoinTypes ==
  ASSUME AuthTypeOK, NEW t \in Tabs, JoinRefresh(t)
  PROVE  /\ SlotTypes'
         /\ slot'[t] # NoSlot
         /\ \/ UNCHANGED slot
            \/ /\ refresh # None
               /\ slot' = [slot EXCEPT ![t] = [at |-> "find", token |-> refresh]]
<1>1. CASE UNCHANGED slot /\ slot[t] # NoSlot
  BY <1>1, TypeParts DEF SlotTypes
<1>2. CASE /\ refresh # None
           /\ slot' = [slot EXCEPT ![t] = [at |-> "find", token |-> refresh]]
  <2>1. refresh \in Sessions
    BY <1>2, TypeParts DEF PageTypes, Token
  <2> QED
    BY <1>2, <2>1, TypeParts DEF SlotTypes, Slot, NoSlot
<1> QED
  BY <1>1, <1>2 DEF JoinRefresh, HasRefreshToken

LEMMA PagesTypes ==
  ASSUME AuthTypeOK, NEW t \in Tabs, Logins(t) \/ Logouts(t) PROVE AuthTypeOK'
<1> USE DEF serverVars, accountVars, sessionVars, storageVars, pageVars
<1>1. ASSUME NEW u \in Users, Authenticate(t, u) PROVE AuthTypeOK'
  <2>1. [NoLogin EXCEPT !.at = "insert", !.user = u] \in Login
    BY DEF NoLogin, Login, Token, None
  <2> QED
    BY <1>1, <2>1, TypeParts
    DEF Authenticate, ServerTypes, PageTypes, SlotTypes, RequestTypes
<1>2. CASE IssueTokens(t)
  <2>1. PICK s \in Sessions :
          /\ session' = [session EXCEPT ![s] = "valid"]
          /\ owner' = [owner EXCEPT ![s] = login[t].user]
          /\ login' = [login EXCEPT ![t].at = "answer", ![t].session = s]
    BY <1>2 DEF IssueTokens
  <2>2. login[t].user \in Users \cup {NoUser}
    BY TypeParts DEF PageTypes, Login
  <2>3. [login[t] EXCEPT !.at = "answer", !.session = s] \in Login
    <3>1. login[t] \in Login
      BY TypeParts DEF PageTypes
    <3> QED
      BY <3>1 DEF Login, Token
  <2>4. ServerTypes'
    BY <1>2, <2>1, <2>2, TypeParts DEF IssueTokens, ServerTypes
  <2>5. login' \in [Tabs -> Login]
    BY <2>1, <2>3, TypeParts DEF PageTypes
  <2> QED
    BY <1>2, <2>4, <2>5, TypeParts
    DEF IssueTokens, PageTypes, SlotTypes, RequestTypes
<1>3. CASE LoggedIn(t)
  BY <1>3 DEF AuthTypeOK, LoggedIn, StoreBoth, NoLogin, Token, None
<1>4. CASE LoginFails(t)
  BY <1>4 DEF AuthTypeOK, LoginFails, NoLogin, Token, None
<1>5. CASE Logout(t)
  <2>1. logout' \in [Tabs -> Leaving]
    BY <1>5, LogoutMoves, TypeParts DEF Logout, PageTypes
  <2> QED
    BY <1>5, <2>1, PostLogoutTypes, TypeParts
    DEF Logout, ServerTypes, PageTypes, SlotTypes, RequestTypes
<1>6. CASE LogoutLocally(t) \/ LoggedOut(t)
  <2>1. logout' \in [Tabs -> Leaving]
    BY <1>6, LogoutMoves, TypeParts DEF LogoutLocally, LoggedOut, PageTypes
  <2> QED
    BY <1>6, <2>1, TypeParts
    DEF LogoutLocally, LoggedOut, Clear, Token, None, ServerTypes, PageTypes,
        SlotTypes, RequestTypes
<1>8. CASE LogoutAwaits(t)
  <2>1. logout' \in [Tabs -> Leaving]
    <3>1. logout' = [logout EXCEPT ![t] = [logout[t] EXCEPT !.at = "waiting"]]
      BY <1>8 DEF LogoutAwaits
    <3> QED
      BY <3>1, LogoutMoves, TypeParts DEF PageTypes
  <2>2. SlotTypes'
    BY <1>8, JoinTypes DEF LogoutAwaits
  <2> QED
    BY <1>8, <2>1, <2>2, TypeParts
    DEF LogoutAwaits, ServerTypes, PageTypes, RequestTypes
<1>7. CASE PageHide(t)
  <2>1. NoRequest \in Request /\ NoLogin \in Login
    BY DEF NoRequest, Request, NoLogin, Login, Token, None
  <2>2. RequestTypes'
    BY <1>7, <2>1, TypeParts DEF PageHide, RequestTypes
  <2>3. logout' \in [Tabs -> Leaving]
    BY <1>7, LogoutMoves, TypeParts DEF PageHide, PageTypes
  <2> QED
    BY <1>7, <2>1, <2>2, <2>3, TypeParts, PostLogoutTypes
    DEF PageHide, ServerTypes, PageTypes, SlotTypes
<1> QED
  BY <1>1, <1>2, <1>3, <1>4, <1>5, <1>6, <1>7, <1>8 DEF Logins, Logouts

\* A request changes only itself, its tab's slot and the stored tokens.
LEMMA RequestSteps ==
  ASSUME AuthTypeOK, NEW q \in Requests, Send(q) \/ Answers(q)
  PROVE  /\ UNCHANGED <<serverVars, pageVars>>
         /\ UNCHANGED storageVars \/ Clear
         /\ \/ UNCHANGED slot
            \/ /\ refresh # None
               /\ slot' = [slot EXCEPT ![TabOf[q]] = [at |-> "find", token |-> refresh]]
         /\ \E x \in Request : request' = [request EXCEPT ![q] = x]
<1>1. NoRequest \in Request
  BY DEF NoRequest, Request, Token, None
<1>2. CASE Send(q)
  <2>1. PICK b \in BOOLEAN :
          request' = [request EXCEPT ![q] = [at |-> "sent", token |-> access,
                                             retried |-> FALSE, boot |-> b]]
    BY <1>2, Zenon DEF Send
  <2>2. access \in Token
    BY DEF AuthTypeOK
  <2>3. [at |-> "sent", token |-> access, retried |-> FALSE, boot |-> b] \in Request
    BY <2>2 DEF Request
  <2> QED
    BY <1>2, <2>1, <2>3 DEF Send
<1>3. CASE AwaitRefresh(q)
  <2>1. [request[q] EXCEPT !.at = "waiting", !.token = None] \in Request
    BY TypeParts, RequestMoves DEF RequestTypes, Token, None
  <2>2. request' = [request EXCEPT ![q] = [request[q] EXCEPT !.at = "waiting", !.token = None]]
    BY <1>3, Zenon DEF AwaitRefresh
  <2>3. TabOf[q] \in Tabs /\ JoinRefresh(TabOf[q])
    BY <1>3 DEF AwaitRefresh
  <2>4. \/ UNCHANGED slot
        \/ /\ refresh # None
           /\ slot' = [slot EXCEPT ![TabOf[q]] = [at |-> "find", token |-> refresh]]
    BY <2>3, JoinTypes
  <2> QED
    BY <1>3, <2>1, <2>2, <2>4 DEF AwaitRefresh
<1>4. CASE Succeeds(q)  BY <1>1, <1>4 DEF Succeeds, Finish
<1>5. CASE ErrorAnswer(q)  BY <1>1, <1>5 DEF ErrorAnswer, Finish, FailedBoot
<1>6. CASE NetworkError(q)  BY <1>1, <1>6 DEF NetworkError, Finish, FailedBoot
<1>7. CASE NothingToRefresh(q)  BY <1>1, <1>7 DEF NothingToRefresh, Finish
<1>8. CASE StillUnauthorized(q)
  BY <1>1, <1>8 DEF StillUnauthorized, Finish, FailedBoot
<1> QED
  BY <1>2, <1>3, <1>4, <1>5, <1>6, <1>7, <1>8 DEF Answers

LEMMA RequestsTypes ==
  ASSUME AuthTypeOK, NEW q \in Requests, Send(q) \/ Answers(q)
  PROVE  AuthTypeOK'
<1> USE RequestSteps
<1>1. ServerTypes' /\ PageTypes'
  BY TypeParts
  DEF ServerTypes, PageTypes, serverVars, accountVars, sessionVars, pageVars,
      storageVars, Clear, Token, None
<1>2. SlotTypes'
  BY TypeParts DEF SlotTypes, Slot, PageTypes, Token, None
<1>3. RequestTypes'
  BY TypeParts DEF RequestTypes
<1> QED
  BY <1>1, <1>2, <1>3, TypeParts

LEMMA RefreshesTypes ==
  ASSUME AuthTypeOK, NEW t \in Tabs, Refreshes(t) PROVE AuthTypeOK'
<1> USE TypeParts, SlotFields, SlotMoves
<1> USE DEF serverVars, accountVars, sessionVars, storageVars, pageVars
<1>1. ServerTypes'
  BY DEF Refreshes, RefreshFind, RefreshMint, RefreshFault, RefreshUnreadable,
         Refreshed, NotRefreshed, ServerTypes
<1>2. slot[t] \in Slot
  BY DEF Refreshes, RefreshFind, RefreshMint, RefreshFault, RefreshUnreadable,
         Refreshed, NotRefreshed, SlotTypes, Verdicts, NoSlot
<1>3. slot[t].token \in Token
  BY <1>2 DEF Slot, Token
<1>4. PageTypes'
  <2>1. logout' \in [Tabs -> Leaving]
    <3>1. ASSUME NEW x \in Leaving, LogoutGoesOn(t, x)
          PROVE  logout' \in [Tabs -> Leaving]
      BY <3>1 DEF LogoutGoesOn, PageTypes
    <3>2. [logout[t] EXCEPT !.at = "retried"] \in Leaving
      BY LogoutMoves DEF PageTypes
    <3>3. CASE UNCHANGED logout
      BY <3>3 DEF PageTypes
    <3> QED
      BY <3>1, <3>2, <3>3, LogoutMoves
      DEF Refreshes, RefreshFind, RefreshMint, RefreshFault, RefreshUnreadable,
          Refreshed, NotRefreshed
  <2> QED
    BY <1>3, <2>1
    DEF Refreshes, RefreshFind, RefreshMint, RefreshFault, RefreshUnreadable,
        Refreshed, NotRefreshed, PageTypes, Clear, Token, None
<1>5. SlotTypes'
  <2>1. \E x \in {NoSlot} \cup Slot : slot' = [slot EXCEPT ![t] = x]
    <3>1. CASE RefreshFind(t)
      BY <1>2, <3>1 DEF RefreshFind, Verdicts
    <3>2. CASE RefreshMint(t)
      BY <1>2, <3>2 DEF RefreshMint, Verdicts
    <3>3. CASE RefreshFault(t)
      BY <1>2, <3>3 DEF RefreshFault, Verdicts
    <3>4. CASE RefreshUnreadable(t)
      BY <1>2, <3>4 DEF RefreshUnreadable, Verdicts
    <3> QED
      BY <3>1, <3>2, <3>3, <3>4 DEF Refreshes, Refreshed, NotRefreshed
  <2> QED
    BY <2>1 DEF SlotTypes
<1>6. RequestTypes'
  <2>1. NoRequest \in Request
    BY DEF NoRequest, Request, Token, None
  <2>2. ASSUME NEW q \in Requests
        PROVE  [request[q] EXCEPT !.at = "sent", !.token = slot[t].token,
                                  !.retried = TRUE] \in Request
    BY <1>3, RequestMoves DEF RequestTypes
  <2>3. CASE Refreshed(t)
    BY <2>2, <2>3 DEF Refreshed, RequestTypes
  <2>4. CASE NotRefreshed(t)
    BY <2>1, <2>4 DEF NotRefreshed, RequestTypes
  <2> QED
    BY <2>3, <2>4
    DEF Refreshes, RefreshFind, RefreshMint, RefreshFault, RefreshUnreadable,
        RequestTypes
<1> QED
  BY <1>1, <1>4, <1>5, <1>6

LEMMA StepTypes == AuthTypeOK /\ [Next]_vars => AuthTypeOK'
<1> SUFFICES ASSUME AuthTypeOK, [Next]_vars PROVE AuthTypeOK'
  OBVIOUS
<1>1. CASE UNCHANGED vars
  BY <1>1 DEF AuthTypeOK, vars, serverVars, accountVars, sessionVars,
              browserVars, storageVars, pageVars
<1> QED
  BY <1>1, AccountsTypes, RowsTypes, PagesTypes, RequestsTypes, RefreshesTypes
  DEF Next

\* The model's data stay within their types, for any constants: in particular a
\* refresh that is under way always presents a session, never an empty token.
THEOREM TypeCorrect == Spec => []AuthTypeOK
BY InitTypes, StepTypes, PTL DEF Spec

-----------------------------------------------------------------------------
(* The inductive invariant. *)

Opened(s) == s # None /\ session[s] # "none"
Over(s) == session[s] \in {"revoked", "gone"}

\* What the browser holds on to was opened by a login.
TokensOpened ==
  /\ refresh # None => Opened(refresh)
  /\ \A t \in Tabs : login[t].at = "answer" => Opened(login[t].session)
  /\ \A t \in Tabs : slot[t] # NoSlot => Opened(slot[t].token)

\* A refresh is refused only for a session that will never work again.
RefusalsFinal == \A t \in Tabs : slot[t].at = "revoked" => Over(slot[t].token)

\* A request or a logout that waits has the refresh of its tab to wait for.
WaitersServed ==
  \A q \in Requests :
    request[q].at = "waiting" => slot[TabOf[q]] # NoSlot /\ ~request[q].retried
LogoutsServed == \A t \in Tabs : logout[t].at = "waiting" => slot[t] # NoSlot

AuthInv ==
  TokensOpened /\ RefusalsFinal /\ WaitersServed /\ LogoutsServed /\ EndedStaysEnded

\* Sessions only age: what was opened stays opened, what is over stays over.
SessionsAge ==
  \A s \in Sessions : /\ session[s] # "none" => session'[s] # "none"
                      /\ Over(s) => Over(s)'

LEMMA StepAge == AuthTypeOK /\ [Next]_vars => SessionsAge
<1> SUFFICES ASSUME AuthTypeOK, [Next]_vars PROVE SessionsAge
  OBVIOUS
<1> USE DEF SessionsAge, Over, AuthTypeOK, vars, serverVars, sessionVars
<1>1. ASSUME NEW u \in Users, Accounts(u) PROVE SessionsAge
  BY <1>1 DEF Accounts, UpdateUser, DeleteLoad, DeleteSessions, DeleteAccount
<1>2. ASSUME NEW s \in Sessions, Rows(s) PROVE SessionsAge
  BY <1>2 DEF Rows, RevokeFind, RevokeSave, Expires
<1>3. ASSUME NEW t \in Tabs, IssueTokens(t) PROVE SessionsAge
  BY <1>3 DEF IssueTokens
<1>4. CASE UNCHANGED session
  BY <1>4
<1>5. ASSUME NEW t \in Tabs,
             (Logins(t) /\ ~IssueTokens(t)) \/ Logouts(t) \/ Refreshes(t)
      PROVE  UNCHANGED session
  BY <1>5 DEF Logins, Logouts, Refreshes, Authenticate, LoggedIn, LoginFails,
              Logout, LogoutLocally, LogoutAwaits, LoggedOut, PageHide,
              RefreshFind, RefreshMint, RefreshFault, RefreshUnreadable,
              Refreshed, NotRefreshed
<1>6. ASSUME NEW q \in Requests, Send(q) \/ Answers(q)
      PROVE  UNCHANGED session
  BY <1>6, RequestSteps
<1>7. CASE UNCHANGED vars
  BY <1>7
<1> QED
  BY <1>1, <1>2, <1>3, <1>4, <1>5, <1>6, <1>7 DEF Next

\* What is ended is over at once, and stays over: the late save of a logout
\* writes "revoked" over whatever the row had become, never "valid".
LEMMA StepEnded ==
  ASSUME AuthTypeOK, EndedStaysEnded, [Next]_vars
  PROVE  EndedStaysEnded'
<1> USE StepAge DEF SessionsAge, Over, EndedStaysEnded, AuthTypeOK
<1>1. CASE UNCHANGED ended
  BY <1>1
<1>2. ASSUME NEW u \in Users, DeleteSessions(u) PROVE EndedStaysEnded'
  BY <1>2 DEF DeleteSessions, RowsDeleted, Owned
<1>3. ASSUME NEW s \in Sessions, RevokeSave(s) PROVE EndedStaysEnded'
  BY <1>3 DEF RevokeSave
<1>4. ASSUME NEW u \in Users, Accounts(u), ~DeleteSessions(u) PROVE UNCHANGED ended
  BY <1>4 DEF Accounts, UpdateUser, DeleteLoad, DeleteAccount, sessionVars
<1>5. ASSUME NEW s \in Sessions, Rows(s), ~RevokeSave(s) PROVE UNCHANGED ended
  BY <1>5 DEF Rows, RevokeFind, Expires
<1>6. ASSUME NEW t \in Tabs, Logins(t) \/ Logouts(t) \/ Refreshes(t)
      PROVE  UNCHANGED ended
  BY <1>6 DEF Logins, Logouts, Refreshes, Authenticate, IssueTokens, LoggedIn,
              LoginFails, Logout, LogoutLocally, LogoutAwaits, LoggedOut,
              PageHide, RefreshFind, RefreshMint, RefreshFault,
              RefreshUnreadable, Refreshed, NotRefreshed, serverVars, sessionVars
<1>7. ASSUME NEW q \in Requests, Send(q) \/ Answers(q) PROVE UNCHANGED ended
  BY <1>7, RequestSteps DEF serverVars, sessionVars
<1>8. CASE UNCHANGED vars
  BY <1>8 DEF vars, serverVars, sessionVars
<1> QED
  BY <1>1, <1>2, <1>3, <1>4, <1>5, <1>6, <1>7, <1>8 DEF Next

\* What a step of the server leaves alone in the browser.
LEMMA ServerSteps ==
  ASSUME \/ \E u \in Users : Accounts(u)
         \/ \E s \in Sessions : Rows(s)
         \/ UNCHANGED vars
  PROVE  UNCHANGED browserVars
BY DEF Accounts, UpdateUser, DeleteLoad, DeleteSessions, DeleteAccount,
       Rows, RevokeFind, RevokeSave, Expires, vars

\* What the steps of a tab do to its slot: a refresh is started for a logout,
\* answered or dropped.
LEMMA SlotSteps ==
  ASSUME AuthTypeOK, NEW t \in Tabs, Logins(t) \/ Logouts(t) \/ Refreshes(t)
  PROVE  \/ UNCHANGED slot
         \/ slot' = [slot EXCEPT ![t] = NoSlot]
         \/ /\ refresh # None
            /\ slot' = [slot EXCEPT ![t] = [at |-> "find", token |-> refresh]]
         \/ /\ slot[t] \in Slot
            /\ \E v \in Verdicts \cup {"mint"} :
                 /\ v = "revoked" => session[slot[t].token] # "valid"
                 /\ slot' = [slot EXCEPT ![t].at = v]
<1> USE TypeParts, SlotFields DEF SlotTypes, Verdicts
<1>1. CASE Logins(t) \/ Logouts(t)
  BY <1>1, JoinTypes
  DEF Logins, Logouts, Authenticate, IssueTokens, LoggedIn, LoginFails, Logout,
      LogoutLocally, LogoutAwaits, LoggedOut, PageHide
<1>2. CASE RefreshFind(t)
  BY <1>2 DEF RefreshFind
<1>3. CASE RefreshMint(t)
  BY <1>3 DEF RefreshMint
<1>4. CASE RefreshFault(t)
  BY <1>4 DEF RefreshFault
<1>5. CASE Refreshed(t) \/ NotRefreshed(t)
  BY <1>5 DEF Refreshed, NotRefreshed
<1>6. CASE RefreshUnreadable(t)
  BY <1>6 DEF RefreshUnreadable
<1> QED
  BY <1>1, <1>2, <1>3, <1>4, <1>5, <1>6 DEF Refreshes

\* What a browser stores or is answered was opened.
LEMMA StepTokens ==
  ASSUME AuthTypeOK, TokensOpened, [Next]_vars
  PROVE  TokensOpened'
<1>1. AuthTypeOK'
  BY StepTypes
<1>2. \A s \in Sessions : Opened(s) => Opened(s)'
  BY StepAge DEF SessionsAge, Opened
<1>3. refresh' # None => Opened(refresh)'
  <2>1. refresh' \in {refresh, None} \cup {login[t].session : t \in {x \in Tabs : LoggedIn(x)}}
    <3>1. CASE \E q \in Requests : Send(q) \/ Answers(q)
      BY <3>1, RequestSteps DEF storageVars, Clear
    <3>2. CASE \E t \in Tabs : Logins(t) \/ Logouts(t) \/ Refreshes(t)
      BY <3>2 DEF Logins, Logouts, Refreshes, Authenticate, IssueTokens, LoggedIn,
              StoreBoth, LoginFails, Logout, LogoutLocally, LogoutAwaits,
              LoggedOut, PageHide, RefreshFind, RefreshMint, RefreshFault,
              RefreshUnreadable, Refreshed, NotRefreshed, Clear, storageVars
    <3> QED
      BY <3>1, <3>2, ServerSteps DEF Next, browserVars, storageVars
  <2>2. \A t \in Tabs : LoggedIn(t) => Opened(login[t].session)
    BY DEF LoggedIn, TokensOpened
  <2>3. \A t \in Tabs : login[t].session \in Token
    BY TypeParts DEF PageTypes, Login
  <2> QED
    BY <1>2, <2>1, <2>2, <2>3 DEF TokensOpened, AuthTypeOK, Token, Opened
<1>4. ASSUME NEW t \in Tabs, login'[t].at = "answer"
      PROVE  Opened(login[t].session)'
  <2>1. CASE login'[t] = login[t]
    <3>1. login[t].session \in Sessions
      BY <1>4, <2>1, TypeParts DEF TokensOpened, PageTypes, Login, Token, Opened
    <3> QED
      BY <1>2, <1>4, <2>1, <3>1 DEF TokensOpened
  <2>2. ASSUME NEW x \in Tabs, IssueTokens(x) PROVE Opened(login[t].session)'
    BY <1>2, <1>4, <2>1, <2>2, TypeParts
    DEF IssueTokens, PageTypes, Login, ServerTypes, Opened, None, Sessions
  <2>3. CASE \E q \in Requests : Send(q) \/ Answers(q)
    BY <2>1, <2>3, RequestSteps DEF pageVars
  <2>4. ASSUME NEW x \in Tabs, ~IssueTokens(x),
               Logins(x) \/ Logouts(x) \/ Refreshes(x)
        PROVE  login'[t] = login[t] \/ login'[t].at # "answer"
    <3>1. CASE login'[x].at # "answer" /\ login'[t] \in {login[t], login'[x]}
      BY <3>1
    <3>2. CASE \E u \in Users : Authenticate(x, u)
      BY <3>1, <3>2, TypeParts DEF Authenticate, PageTypes, NoLogin
    <3>3. CASE LoggedIn(x) \/ LoginFails(x) \/ PageHide(x)
      BY <3>1, <3>3, TypeParts DEF LoggedIn, LoginFails, PageHide, PageTypes, NoLogin
    <3> QED
      BY <2>4, <3>2, <3>3
      DEF Logins, Logouts, Refreshes, Logout, LogoutLocally, LogoutAwaits,
          LoggedOut, RefreshFind, RefreshMint, RefreshFault, RefreshUnreadable,
          Refreshed, NotRefreshed, pageVars
  <2> QED
    BY <1>4, <2>1, <2>2, <2>3, <2>4, ServerSteps DEF Next, browserVars, pageVars
<1>5. ASSUME NEW t \in Tabs, slot'[t] # NoSlot
      PROVE  Opened(slot[t].token)'
  <2>1. CASE slot[t] # NoSlot /\ slot'[t].token = slot[t].token
    <3>1. slot[t].token \in Sessions
      BY <2>1, TypeParts, SlotFields DEF SlotTypes
    <3> QED
      BY <1>2, <2>1, <3>1 DEF TokensOpened
  <2>2. CASE \E q \in Requests : Send(q) \/ Answers(q)
    <3>1. slot'[t] = slot[t] \/ (refresh # None /\ slot'[t].token = refresh)
      BY <2>2, RequestSteps, TypeParts DEF SlotTypes
    <3>2. refresh # None => refresh \in Sessions
      BY TypeParts DEF PageTypes, Token
    <3> QED
      BY <1>2, <1>5, <2>1, <3>1, <3>2 DEF TokensOpened
  <2>3. ASSUME NEW x \in Tabs, Logins(x) \/ Logouts(x) \/ Refreshes(x)
        PROVE  \/ slot[t] # NoSlot /\ slot'[t].token = slot[t].token
               \/ refresh # None /\ slot'[t].token = refresh
    <3>1. CASE UNCHANGED slot \/ slot' = [slot EXCEPT ![x] = NoSlot]
      BY <1>5, <3>1, TypeParts DEF SlotTypes
    <3>2. ASSUME slot[x] \in Slot, NEW v \in Verdicts \cup {"mint"},
                 slot' = [slot EXCEPT ![x].at = v]
          PROVE  slot[t] # NoSlot /\ slot'[t].token = slot[t].token
      <4>1. slot' = [slot EXCEPT ![x] = [slot[x] EXCEPT !.at = v]]
        BY <3>2
      <4>2. slot[x] # NoSlot
        BY <3>2 DEF Slot, NoSlot, Verdicts
      <4>3. [slot[x] EXCEPT !.at = v].token = slot[x].token
        BY <3>2, SlotMoves
      <4> QED
        BY <1>5, <4>1, <4>2, <4>3, TypeParts DEF SlotTypes
    <3>3. CASE /\ refresh # None
               /\ slot' = [slot EXCEPT ![x] = [at |-> "find", token |-> refresh]]
      BY <1>5, <3>3, TypeParts DEF SlotTypes
    <3> QED
      BY <2>3, <3>1, <3>2, <3>3, SlotSteps
  <2>4. CASE refresh # None /\ slot'[t].token = refresh
    <3>1. refresh \in Sessions
      BY <2>4, TypeParts DEF PageTypes, Token
    <3> QED
      BY <1>2, <2>4, <3>1 DEF TokensOpened
  <2> QED
    BY <1>5, <2>1, <2>2, <2>3, <2>4, ServerSteps DEF Next, browserVars
<1> QED
  BY <1>3, <1>4, <1>5 DEF TokensOpened

\* Whoever is told that a session is revoked is told so for good.
LEMMA StepRefusals ==
  ASSUME AuthTypeOK, TokensOpened, RefusalsFinal, [Next]_vars
  PROVE  RefusalsFinal'
<1> USE TypeParts, SlotFields DEF SlotTypes
<1>1. \A s \in Sessions : Over(s) => Over(s)'
  BY StepAge DEF SessionsAge
<1>2. ASSUME NEW t \in Tabs, slot[t].at = "revoked", slot'[t].token = slot[t].token
      PROVE  Over(slot[t].token)'
  <2>1. slot[t].token \in Sessions /\ Over(slot[t].token)
    BY <1>2 DEF RefusalsFinal
  <2> QED
    BY <1>1, <1>2, <2>1
<1>3. ASSUME NEW t \in Tabs, slot'[t].at = "revoked"
      PROVE  Over(slot[t].token)'
  <2>1. CASE \E q \in Requests : Send(q) \/ Answers(q)
    BY <1>2, <1>3, <2>1, RequestSteps
  <2>2. ASSUME NEW x \in Tabs, Logins(x) \/ Logouts(x) \/ Refreshes(x)
        PROVE  Over(slot[t].token)'
    <3>1. CASE slot'[t] = slot[t]
      BY <1>2, <1>3, <3>1
    <3>2. CASE slot' = [slot EXCEPT ![x] = NoSlot]
      BY <1>3, <3>1, <3>2 DEF NoSlot
    <3>3. ASSUME slot[x] \in Slot, NEW v \in Verdicts \cup {"mint"},
                 v = "revoked" => session[slot[x].token] # "valid",
                 slot' = [slot EXCEPT ![x].at = v], t = x
          PROVE  Over(slot[t].token)'
      <4>1. slot'[t] = [slot[t] EXCEPT !.at = v]
        BY <3>3
      <4>2. v = "revoked" /\ slot'[t].token = slot[t].token
        BY <1>3, <3>3, <4>1, SlotMoves
      <4>3. slot[t].token \in Sessions /\ Opened(slot[t].token)
        BY <3>3 DEF TokensOpened, Slot, NoSlot, Verdicts
      <4>4. Over(slot[t].token)
        BY <3>3, <4>2, <4>3 DEF ServerTypes, Opened, Over
      <4> QED
        BY <1>1, <4>2, <4>3, <4>4
    <3>4. slot'[x] # [at |-> "find", token |-> refresh] \/ t # x
      BY <1>3
    <3>5. t # x => slot'[t] = slot[t]
      BY <2>2, SlotSteps
    <3>6. CASE slot' = [slot EXCEPT ![x] = [at |-> "find", token |-> refresh]]
      <4>1. slot'[x] = [at |-> "find", token |-> refresh]
        BY <3>6
      <4> QED
        BY <3>1, <3>4, <3>5, <4>1
    <3>7. CASE t = x /\ slot[x] \in Slot
               /\ \E v \in Verdicts \cup {"mint"} :
                    /\ v = "revoked" => session[slot[x].token] # "valid"
                    /\ slot' = [slot EXCEPT ![x].at = v]
      BY <3>3, <3>7
    <3> QED
      BY <2>2, <3>1, <3>2, <3>5, <3>6, <3>7, SlotSteps, Zenon
  <2> QED
    BY <1>2, <1>3, <2>1, <2>2, ServerSteps DEF Next, browserVars
<1> QED
  BY <1>3 DEF RefusalsFinal

\* A refresh goes on until it has its verdict or its page goes.
LEMMA SlotsKept ==
  ASSUME AuthTypeOK, NEW t \in Tabs, NEW x \in Tabs, slot[x] # NoSlot,
         Logins(t) \/ Logouts(t) \/ Refreshes(t),
         ~(PageHide(t) \/ Refreshed(t) \/ NotRefreshed(t))
  PROVE  slot'[x] # NoSlot
<1> USE TypeParts, SlotFields DEF SlotTypes
<1>1. CASE LogoutAwaits(t)
  BY <1>1, JoinTypes DEF LogoutAwaits, NoSlot
<1>2. ASSUME NEW v \in Verdicts \cup {"find", "mint"}, slot' = [slot EXCEPT ![t].at = v],
             slot[t] \in Slot
      PROVE  slot'[x] # NoSlot
  <2>1. slot'[t].at = v
    BY <1>2, SlotMoves
  <2> QED
    BY <1>2, <2>1 DEF Verdicts, NoSlot
<1>3. CASE UNCHANGED slot
  BY <1>3
<1>4. slot[t].at # "none" => slot[t] \in Slot
  OBVIOUS
<1> QED
  BY <1>1, <1>2, <1>3, <1>4
  DEF Logins, Logouts, Refreshes, Authenticate, IssueTokens, LoggedIn, LoginFails,
      Logout, LogoutLocally, LoggedOut, RefreshFind, RefreshMint, RefreshFault,
      RefreshUnreadable, Verdicts

\* A slot is given up only together with the logout that waits for it ...
LEMMA StepLogouts ==
  ASSUME AuthTypeOK, LogoutsServed, [Next]_vars
  PROVE  LogoutsServed'
<1> SUFFICES ASSUME NEW x \in Tabs, logout'[x].at = "waiting" PROVE slot'[x] # NoSlot
  BY DEF LogoutsServed
<1> USE TypeParts, LogoutMoves DEF PageTypes, SlotTypes
<1>1. ASSUME NEW q \in Requests, Send(q) \/ Answers(q) PROVE slot'[x] # NoSlot
  BY <1>1, RequestSteps DEF LogoutsServed, pageVars, NoSlot
<1>2. ASSUME NEW t \in Tabs, Logins(t) \/ Logouts(t) \/ Refreshes(t)
      PROVE  slot'[x] # NoSlot
  <2>1. CASE PageHide(t) \/ Refreshed(t) \/ NotRefreshed(t)
    <3>1. t # x
      <4> SUFFICES ASSUME t = x PROVE FALSE
        OBVIOUS
      <4>1. logout[x] \in Leaving
        OBVIOUS
      <4>2. [logout[x] EXCEPT !.at = "retried"].at = "retried"
        BY <4>1
      <4>3. ASSUME NEW k, k.at # "waiting", LogoutGoesOn(x, k) PROVE FALSE
        BY <4>3 DEF LogoutGoesOn
      <4>4. ~PageHide(x)
        BY DEF PageHide
      <4> QED
        BY <2>1, <4>2, <4>3, <4>4, Zenon DEF Refreshed, NotRefreshed, NoLogout
    <3>2. logout'[x] = logout[x] /\ slot'[x] = slot[x]
      BY <2>1, <3>1 DEF PageHide, Refreshed, NotRefreshed, LogoutGoesOn
    <3> QED
      BY <3>2 DEF LogoutsServed
  <2>2. CASE LogoutAwaits(t) /\ t = x
    BY <2>2, JoinTypes DEF LogoutAwaits
  <2>3. CASE ~(PageHide(t) \/ Refreshed(t) \/ NotRefreshed(t) \/ (LogoutAwaits(t) /\ t = x))
    <3>0. ASSUME NEW k \in Leaving, logout' = [logout EXCEPT ![t] = k],
                 t # x \/ k.at # "waiting"
          PROVE  logout[x].at = "waiting"
      BY <3>0
    <3>1. logout[x].at = "waiting"
      <4>1. CASE UNCHANGED logout
        BY <4>1
      <4>2. CASE Logout(t)
        <5>1. [at |-> "sent", token |-> refresh] \in Leaving
          OBVIOUS
        <5> QED
          BY <3>0, <4>2, <5>1 DEF Logout
      <4>3. CASE LoggedOut(t)
        BY <3>0, <4>3 DEF LoggedOut
      <4>4. CASE LogoutAwaits(t) /\ t # x
        BY <4>4 DEF LogoutAwaits
      <4> QED
        BY <1>2, <2>3, <4>1, <4>2, <4>3, <4>4
        DEF Logins, Logouts, Refreshes, Authenticate, IssueTokens, LoggedIn,
            LoginFails, LogoutLocally, RefreshFind, RefreshMint, RefreshFault,
            RefreshUnreadable, pageVars
    <3> QED
      BY <1>2, <2>3, <3>1, SlotsKept DEF LogoutsServed
  <2> QED
    BY <2>1, <2>2, <2>3
<1>3. CASE UNCHANGED browserVars
  BY <1>3 DEF browserVars, pageVars, LogoutsServed
<1> QED
  BY <1>1, <1>2, <1>3, ServerSteps DEF Next

\* ... and with the requests that do.
LEMMA StepWaiters ==
  ASSUME AuthTypeOK, WaitersServed, [Next]_vars
  PROVE  WaitersServed'
<1> USE TypeParts, SlotFields DEF SlotTypes, RequestTypes
<1>1. ASSUME NEW q \in Requests, NEW r \in Requests, Send(r) \/ Answers(r),
             request'[q].at = "waiting"
      PROVE  slot'[TabOf[q]] # NoSlot /\ ~request'[q].retried
  <2>1. \A t \in Tabs : slot[t] # NoSlot => slot'[t] # NoSlot
    BY <1>1, RequestSteps DEF NoSlot
  <2>2. CASE request'[q] = request[q]
    BY <1>1, <2>1, <2>2 DEF WaitersServed
  <2>3. CASE AwaitRefresh(r) /\ r = q
    <3>1. slot'[TabOf[q]] # NoSlot
      BY <2>3, JoinTypes DEF AwaitRefresh
    <3>2. request'[q].retried = request[q].retried
      BY <2>3 DEF AwaitRefresh, Request
    <3> QED
      BY <2>3, <3>1, <3>2 DEF AwaitRefresh, MayRefresh
  <2>4. CASE AwaitRefresh(r) /\ r # q
    BY <2>2, <2>4 DEF AwaitRefresh
  <2>5. CASE Send(r)
    BY <1>1, <2>2, <2>5 DEF Send
  <2>6. Finish(r) => request'[q] = request[q]
    BY <1>1 DEF Finish, NoRequest
  <2> QED
    BY <1>1, <2>2, <2>3, <2>4, <2>5, <2>6
    DEF Answers, Succeeds, ErrorAnswer, NetworkError, NothingToRefresh,
        StillUnauthorized
<1>2. ASSUME NEW q \in Requests, NEW t \in Tabs,
             Logins(t) \/ Logouts(t) \/ Refreshes(t), request'[q].at = "waiting"
      PROVE  slot'[TabOf[q]] # NoSlot /\ ~request'[q].retried
  <2>1. CASE PageHide(t)
    <3>1. TabOf[q] # t /\ request'[q] = request[q] /\ slot'[TabOf[q]] = slot[TabOf[q]]
      BY <1>2, <2>1 DEF PageHide, NoRequest
    <3> QED
      BY <1>2, <3>1 DEF WaitersServed
  <2>2. CASE Refreshed(t)
    <3>1. q \notin Waiting(t) /\ request'[q] = request[q]
      <4>1. request'[q] = IF q \in Waiting(t)
                          THEN [request[q] EXCEPT !.at = "sent", !.token = slot[t].token,
                                                  !.retried = TRUE]
                          ELSE request[q]
        BY <2>2 DEF Refreshed
      <4>2. \A k \in Request : \A token : [k EXCEPT !.at = "sent", !.token = token,
                                                 !.retried = TRUE].at = "sent"
        BY DEF Request
      <4>3. request[q] \in Request
        OBVIOUS
      <4> QED
        BY <1>2, <4>1, <4>2, <4>3, Zenon
    <3>2. TabOf[q] # t /\ slot'[TabOf[q]] = slot[TabOf[q]]
      BY <1>2, <2>2, <3>1 DEF Refreshed, Waiting
    <3> QED
      BY <1>2, <3>1, <3>2 DEF WaitersServed
  <2>3. CASE NotRefreshed(t)
    <3>1. q \notin Waiting(t) /\ request'[q] = request[q]
      BY <1>2, <2>3 DEF NotRefreshed, NoRequest
    <3>2. TabOf[q] # t /\ slot'[TabOf[q]] = slot[TabOf[q]]
      BY <1>2, <2>3, <3>1 DEF NotRefreshed, Waiting
    <3> QED
      BY <1>2, <3>1, <3>2 DEF WaitersServed
  <2>4. CASE ~(PageHide(t) \/ Refreshed(t) \/ NotRefreshed(t))
    <3>1. request' = request
      BY <1>2, <2>4
      DEF Logins, Logouts, Refreshes, Authenticate, IssueTokens, LoggedIn,
          LoginFails, Logout, LogoutLocally, LogoutAwaits, LoggedOut,
          RefreshFind, RefreshMint, RefreshFault, RefreshUnreadable
    <3>2. slot[TabOf[q]] # NoSlot => slot'[TabOf[q]] # NoSlot
      BY <1>2, <2>4, SlotsKept
    <3>3. slot[TabOf[q]] # NoSlot /\ ~request[q].retried
      BY <1>2, <3>1 DEF WaitersServed
    <3> QED
      BY <3>1, <3>2, <3>3
  <2> QED
    BY <2>1, <2>2, <2>3, <2>4
<1>3. CASE UNCHANGED browserVars
  BY <1>3 DEF browserVars, WaitersServed
<1> QED
  BY <1>1, <1>2, <1>3, ServerSteps DEF Next, WaitersServed

LEMMA InitAuthInv == Init => AuthInv
BY DEF Init, AuthInv, TokensOpened, RefusalsFinal, WaitersServed, LogoutsServed,
       EndedStaysEnded, NoLogin, NoLogout, NoSlot, NoRequest

LEMMA Inductive == Spec => [](AuthTypeOK /\ AuthInv)
<1>1. AuthTypeOK /\ AuthInv /\ [Next]_vars => AuthInv'
  BY StepEnded, StepTokens, StepRefusals, StepWaiters, StepLogouts DEF AuthInv
<1> QED
  BY <1>1, InitTypes, InitAuthInv, StepTypes, PTL DEF Spec

-----------------------------------------------------------------------------
(* What follows. *)

\* The row of a session that a logout or the deletion of its user has ended is
\* never valid again, however many late saves, deletions and expiries go over it:
\* no refresh that looks it up from then on mints a token.  What was minted
\* before is not the row's business.
THEOREM EndedForGood == Spec => []EndedStaysEnded
<1>1. AuthInv => EndedStaysEnded
  BY DEF AuthInv
<1> QED
  BY <1>1, Inductive, PTL

\* Every waiting request or logout has a refresh of its tab under way, which
\* presents a session that was opened, and a request waits for the first time.
THEOREM NobodyWaitsInVain == Spec => []WaitsEnd
<1>1. AuthTypeOK /\ AuthInv => WaitsEnd
  <2> SUFFICES ASSUME AuthTypeOK, AuthInv PROVE WaitsEnd
    OBVIOUS
  <2>1. ASSUME NEW t \in Tabs, slot[t] # NoSlot PROVE Refreshing(t)
    BY <2>1 DEF AuthInv, TokensOpened, Opened, Refreshing
  <2> QED
    BY <2>1 DEF AuthInv, WaitersServed, LogoutsServed, WaitsEnd
<1> QED
  BY <1>1, Inductive, PTL

\* Why a stored session that works may be dropped.
DropReasons ==
  \/ \E t \in Tabs : LoggedOut(t)
  \/ \E q \in Requests : request[q].boot /\ (ErrorAnswer(q) \/ NetworkError(q) \/ StillUnauthorized(q))
  \/ \E t \in Tabs : /\ NotRefreshed(t)
                     /\ \/ slot[t].at \in {"fault", "gone"} \/ Stale(t)
                        \/ logout[t].at = "waiting" \/ BootMisled(t)

LEMMA StepDrops ==
  ASSUME AuthTypeOK, AuthInv, Next, Works(refresh), refresh' = None
  PROVE  DropReasons
<1> USE DEF Works
<1>1. refresh' # refresh
  OBVIOUS
<1>2. ASSUME NEW q \in Requests, Send(q) \/ Answers(q) PROVE DropReasons
  <2>1. ~NothingToRefresh(q)
    BY DEF NothingToRefresh, HasRefreshToken
  <2>2. CASE ErrorAnswer(q) \/ NetworkError(q) \/ StillUnauthorized(q)
    <3>1. request[q].boot
      BY <1>1, <2>2
      DEF ErrorAnswer, NetworkError, StillUnauthorized, FailedBoot, storageVars
    <3> QED
      BY <2>2, <3>1 DEF DropReasons
  <2> QED
    BY <1>1, <1>2, <2>1, <2>2
    DEF Send, Answers, Succeeds, AwaitRefresh, storageVars
<1>3. ASSUME NEW t \in Tabs, Logins(t) \/ Logouts(t) \/ Refreshes(t)
      PROVE  DropReasons
  <2>1. ~LoggedIn(t)
    BY DEF LoggedIn, StoreBoth, AuthInv, TokensOpened, Opened
  <2>2. CASE NotRefreshed(t)
    <3>1. slot[t].at \in Rejections \/ logout[t].at = "waiting" \/ BootMisled(t)
      BY <1>1, <2>2 DEF NotRefreshed, storageVars
    <3>2. slot[t].at = "revoked" => Stale(t)
      BY DEF AuthInv, RefusalsFinal, Over, Stale
    <3> QED
      BY <2>2, <3>1, <3>2 DEF DropReasons, Rejections
  <2>3. CASE LoggedOut(t)
    BY <2>3 DEF DropReasons
  <2> QED
    BY <1>1, <1>3, <2>1, <2>2, <2>3
    DEF Logins, Logouts, Refreshes, Authenticate, IssueTokens, LoginFails,
        Logout, LogoutLocally, LogoutAwaits, PageHide, RefreshFind, RefreshMint,
        RefreshFault, RefreshUnreadable, Refreshed, storageVars
<1> QED
  BY <1>1, <1>2, <1>3, ServerSteps DEF Next, browserVars, storageVars

\* A stored session that works is dropped only by a logout, by a page it would
\* have loaded (when its own request fails, or the answer to the refresh it waits
\* for cannot be read), or by a refresh that met a fault or an absent user or was
\* about another session: a refresh that is refused as revoked is about a session
\* that is over, and one without an answer drops nothing.
THEOREM DropsAreJustified == Spec => DropsJustified
<1>1. AuthTypeOK /\ AuthInv /\ [Next]_vars
        => [Works(refresh) /\ refresh' = None => DropReasons]_vars
  BY StepDrops
<1> QED
  BY <1>1, Inductive, PTL DEF Spec, DropsJustified, DropReasons
=============================================================================
