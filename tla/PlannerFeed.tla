----------------------------- MODULE PlannerFeed -----------------------------
(***************************************************************************)
(* How the page of a plan follows the jobs on its lectures: every save of  *)
(* a job is published on the plan's channel, which has no replay; the      *)
(* WebSocket of the page (api/ws.py, use-planner-socket.ts) forwards the   *)
(* events while it is subscribed; and each event makes the page fetch the  *)
(* lectures again.  What is saved is the number of saves so far.           *)
(*                                                                         *)
(* One page is modelled: pages share nothing but the channel.              *)
(***************************************************************************)
EXTENDS Integers, FiniteSets

CONSTANTS
  Jobs,      \* requests for a lecture or a refinement, and their jobs
  MaxFaults  \* bound: publishes and fetches that fail

ASSUME JobsAssumption == IsFiniteSet(Jobs)
ASSUME FaultsAssumption == MaxFaults \in Nat

None == -1    \* nothing fetched yet

VARIABLES
  saved,   \* saves of the plan's lectures
  post,    \* each request, at the page
  todo,    \* the save each job has still to make or to publish
  pending, \* jobs that have saved and not yet published
  ticket,  \* the page's WebSocket ticket in Redis
  sock,    \* its connection
  inbox,   \* events on their way to it
  seen,    \* the save the page shows
  fetch,   \* its fetch of the lectures
  faults,
  heard    \* history: since the last save the page was made to fetch, or will be

serverVars == <<saved, todo, pending>>
socketVars == <<ticket, sock, inbox>>
pageVars == <<seen, fetch>>
vars == <<serverVars, post, socketVars, pageVars, faults, heard>>

-----------------------------------------------------------------------------
(* The data. *)

NoFetch == [at |-> "none", value |-> None]
Asked == [at |-> "asked", value |-> None]
Answered(v) == [at |-> "answered", value |-> v]

\* ticket: asking for one; dial: opening the socket with it; checks: the
\* server has consumed it; open: accepted; live: subscribed as well; backoff:
\* closed, with a timer; closed: for good.
Places == {"ticket", "dial", "checks", "open", "live", "backoff", "closed"}

\* What a job saves: generating, then ready (or failed: the two are alike here),
\* and failed after it if ready could not be published.
Saves == {"generating", "ready", "failed"}
After(save) == IF save = "generating" THEN "ready" ELSE "none"

\* A post and two saves of a job; and one more of a job that failed to publish.
MaxSaved == 4 * Cardinality(Jobs)
MaxPlain == 3 * Cardinality(Jobs)

\* The page is mounted: it fetches, and asks for a ticket.
Init ==
  /\ saved = 0 /\ pending = {}
  /\ todo = [j \in Jobs |-> "none"]
  /\ post = [j \in Jobs |-> "idle"]
  /\ ticket = "none" /\ sock = "ticket" /\ inbox = 0
  /\ seen = None /\ fetch = Asked
  /\ faults = 0 /\ heard = TRUE

-----------------------------------------------------------------------------
(* The queries of the page. *)

\* invalidateQueries cancels a fetch under way and starts another, except for
\* the first one of all, which it lets finish.
Restarts == fetch = NoFetch \/ seen # None

\* Mutant: a fetch under way is taken for the one asked for.
InvalidateKeepsFetch ==
  /\ fetch' = IF fetch = NoFetch THEN Asked ELSE fetch
  /\ heard' = (seen # None \/ fetch \in {NoFetch, Asked, Answered(saved)})

Invalidate ==
  /\ \/ Restarts /\ fetch' = Asked
     \/ ~Restarts /\ UNCHANGED fetch
  /\ heard' = (seen # None \/ fetch \in {NoFetch, Asked, Answered(saved)})

FetchRead ==
  /\ fetch = Asked
  /\ fetch' = Answered(saved)
  /\ UNCHANGED <<serverVars, post, socketVars, seen, faults, heard>>

FetchArrives ==
  /\ fetch.at = "answered"
  /\ seen' = fetch.value
  /\ fetch' = NoFetch
  /\ UNCHANGED <<serverVars, post, socketVars, faults, heard>>

\* A fetch is given up after its retries.
FetchFails ==
  /\ fetch # NoFetch /\ faults < MaxFaults
  /\ fetch' = NoFetch
  /\ faults' = faults + 1
  /\ heard' = (inbox > 0)
  /\ UNCHANGED <<serverVars, post, socketVars, seen>>

-----------------------------------------------------------------------------
(* The requests and their jobs. *)

\* The page posts, whether or not waitUntilOpen has given up; the route saves
\* the lecture and queues a job that marks it generating and then ready.
Post(j) ==
  /\ post[j] = "idle"
  /\ post' = [post EXCEPT ![j] = "sent"]
  /\ saved' = saved + 1
  /\ todo' = [todo EXCEPT ![j] = "generating"]
  /\ heard' = FALSE
  /\ UNCHANGED <<pending, socketVars, pageVars, faults>>

\* onSuccess.
PostAnswered(j) ==
  /\ post[j] = "sent"
  /\ post' = [post EXCEPT ![j] = "done"]
  /\ Invalidate
  /\ UNCHANGED <<serverVars, socketVars, seen, faults>>

Save(j) ==
  /\ todo[j] # "none" /\ j \notin pending
  /\ saved' = saved + 1
  /\ pending' = pending \cup {j}
  /\ heard' = FALSE
  /\ UNCHANGED <<todo, inbox>>

\* Whoever is not subscribed now never gets the event.
Publish(j) ==
  /\ j \in pending
  /\ pending' = pending \ {j}
  /\ todo' = [todo EXCEPT ![j] = After(@)]
  /\ IF sock = "live" THEN inbox' = inbox + 1 /\ heard' = TRUE ELSE UNCHANGED <<inbox, heard>>
  /\ UNCHANGED saved

\* Mutant: the last save of a job is not published.
PublishStart(j) ==
  \/ Save(j)
  \/ /\ j \in pending
     /\ pending' = pending \ {j}
     /\ todo' = [todo EXCEPT ![j] = After(@)]
     /\ IF sock = "live" /\ todo[j] = "generating"
        THEN inbox' = inbox + 1 /\ heard' = TRUE ELSE UNCHANGED <<inbox, heard>>
     /\ UNCHANGED saved

SaveThenPublish(j) == Save(j) \/ Publish(j)

JobStep(j) ==
  /\ SaveThenPublish(j)
  /\ UNCHANGED <<post, ticket, sock, pageVars, faults>>

\* Redis does not take the event: a job that is done marks its lecture failed
\* instead; one that begins, or that has failed, ends there.
PublishFails(j) ==
  /\ j \in pending /\ faults < MaxFaults
  /\ pending' = pending \ {j}
  /\ todo' = [todo EXCEPT ![j] = IF @ = "ready" THEN "failed" ELSE "none"]
  /\ faults' = faults + 1
  /\ UNCHANGED <<saved, post, socketVars, pageVars, heard>>

-----------------------------------------------------------------------------
(* The connection. *)

\* POST /auth/ws-ticket.
TicketIssued ==
  /\ sock = "ticket"
  /\ sock' = "dial" /\ ticket' = "issued"
  /\ UNCHANGED <<serverVars, post, inbox, pageVars, faults, heard>>

\* Without a ticket the page gives up for good.
TicketFails ==
  /\ sock = "ticket"
  /\ sock' = "closed"
  /\ UNCHANGED <<serverVars, post, ticket, inbox, pageVars, faults, heard>>

TicketExpires ==
  /\ ticket = "issued"
  /\ ticket' = "none"
  /\ UNCHANGED <<serverVars, post, sock, inbox, pageVars, faults, heard>>

\* The handshake reaches the server, which consumes the ticket.
Consume ==
  /\ sock = "dial"
  /\ ticket' = "none"
  /\ sock' = IF ticket = "issued" THEN "checks" ELSE "backoff"
  /\ UNCHANGED <<serverVars, post, inbox, pageVars, faults, heard>>

\* Plan and owner are looked up, and the connection accepted: onopen ...
Accept ==
  /\ sock = "checks"
  /\ sock' \in {"open", "backoff"}
  /\ UNCHANGED <<serverVars, post, ticket, inbox, pageVars, faults, heard>>

\* ... and only then the server subscribes.
Subscribe ==
  /\ sock = "open"
  /\ sock' = "live"
  /\ UNCHANGED <<serverVars, post, ticket, inbox, pageVars, faults, heard>>

\* onmessage.
Deliver ==
  /\ sock = "live" /\ inbox > 0
  /\ inbox' = inbox - 1
  /\ Invalidate
  /\ UNCHANGED <<serverVars, post, ticket, sock, seen, faults>>

\* The connection is lost, with the events on their way: onclose.  A ticket that
\* was not presented is never presented again.
Drop ==
  /\ sock \in {"dial", "checks", "open", "live"}
  /\ sock' = "backoff"
  /\ inbox' = 0
  /\ heard' = (heard /\ (inbox = 0 \/ fetch = Asked \/ saved \in {seen, fetch.value}))
  /\ ticket' = "none"
  /\ UNCHANGED <<serverVars, post, pageVars, faults>>

\* Mutant: a new connection is opened and nothing fetched.
JustReconnect == UNCHANGED <<fetch, heard>>

\* The timer: fetch, then connect again.
Resync == Invalidate

Reconnect ==
  /\ sock = "backoff"
  /\ sock' = "ticket"
  /\ Resync
  /\ UNCHANGED <<serverVars, post, ticket, inbox, seen, faults>>

-----------------------------------------------------------------------------
Fetches == FetchRead \/ FetchArrives \/ FetchFails
Works(j) == JobStep(j) \/ PublishFails(j)
Connects == TicketIssued \/ TicketFails \/ Consume \/ Accept \/ Subscribe \/ Reconnect

Next ==
  \/ Fetches \/ Deliver \/ Connects \/ TicketExpires \/ Drop
  \/ \E j \in Jobs : Post(j) \/ PostAnswered(j) \/ Works(j)

Spec == Init /\ [][Next]_vars

\* Jobs go on, the timer goes off and events that were sent over a connection
\* that lasts arrive.  A fetch that is started again and again ends once: the
\* timer of a page that cannot connect grows to 15 s, far more than a fetch takes.
FairSpec ==
  /\ Spec
  /\ WF_vars(FetchRead) /\ SF_vars(FetchArrives) /\ WF_vars(Deliver) /\ WF_vars(Connects)
  /\ \A j \in Jobs : WF_vars(Works(j))

-----------------------------------------------------------------------------
(* Properties. *)

FeedTypeOK ==
  /\ saved \in 0..MaxSaved
  /\ post \in [Jobs -> {"idle", "sent", "done"}]
  /\ todo \in [Jobs -> Saves \cup {"none"}]
  /\ pending \subseteq Jobs
  /\ ticket \in {"none", "issued"} /\ sock \in Places
  /\ inbox \in Nat
  /\ seen \in None..MaxSaved
  /\ fetch \in {NoFetch, Asked} \cup {Answered(v) : v \in 0..MaxSaved}
  /\ faults \in 0..MaxFaults /\ heard \in BOOLEAN

\* The page shows the last save, or is about to, whenever it has been made to
\* fetch since: no fetch that read an older state is shown in its place.
HeardIsShown ==
  heard /\ seen # None =>
    saved \in {seen, fetch.value} \/ fetch = Asked \/ inbox > 0

\* A page that is subscribed while a job still has saves to publish shows in the
\* end everything saved so far, as long as the connection lasts and no publish or
\* fetch fails.
ShownWhileLive ==
  \A n \in 1..MaxPlain :
    (saved = n /\ sock = "live" /\ seen # None /\ \E j \in Jobs : todo[j] # "none")
      ~> (seen >= n \/ sock # "live" \/ faults > 0)

\* A page that has lost its connection and gets another shows in the end what
\* had been saved before.
CatchesUp ==
  \A n \in 1..MaxPlain :
    (saved = n /\ sock = "backoff" /\ seen # None) ~> (seen >= n \/ faults > 0)
=============================================================================
