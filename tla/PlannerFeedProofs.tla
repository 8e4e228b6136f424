-------------------------- MODULE PlannerFeedProofs --------------------------
(***************************************************************************)
(* Proofs about PlannerFeed, for any finite set of requests and any bound  *)
(* on the faults.                                                          *)
(***************************************************************************)
EXTENDS PlannerFeed, FiniteSetTheorems, TLAPS

-----------------------------------------------------------------------------
(* The fetches of the page. *)

LEMMA FetchFields ==
  ASSUME NEW v
  PROVE  /\ Answered(v) # NoFetch /\ Answered(v) # Asked /\ NoFetch # Asked
         /\ Answered(v).at = "answered" /\ Answered(v).value = v
         /\ NoFetch.at = "none" /\ NoFetch.value = None
         /\ Asked.at = "asked" /\ Asked.value = None
BY DEF Answered, NoFetch, Asked

\* What a fetch under way has read is not older than what the page shows.
FetchIsNewer ==
  \/ fetch \in {NoFetch, Asked}
  \/ \E v \in 0..saved : fetch = Answered(v) /\ seen <= v

\* The page's part of the types, and what it shows.
PageInv ==
  /\ saved \in Nat
  /\ seen \in None..saved
  /\ FetchIsNewer
  /\ inbox \in Nat
  /\ heard \in BOOLEAN

\* HeardIsShown, also while the page has not shown anything yet.
HeardIsComing ==
  heard => saved \in {seen, fetch.value} \/ fetch = Asked \/ inbox > 0

\* A fetch that arrives shows nothing older than what was shown.
LEMMA ArrivalKeeps ==
  ASSUME PageInv, HeardIsComing, FetchArrives
  PROVE  PageInv' /\ HeardIsComing'
<1>1. PICK v \in 0..saved : fetch = Answered(v) /\ seen <= v
  BY FetchFields DEF PageInv, FetchIsNewer, FetchArrives
<1>2. /\ seen' = v /\ fetch' = NoFetch
      /\ UNCHANGED <<saved, inbox, heard>>
  BY <1>1, FetchFields DEF FetchArrives, serverVars, socketVars
<1>3. PageInv'
  <2>1. v \in None..saved
    BY <1>1 DEF PageInv, None
  <2> QED
    BY <1>2, <2>1 DEF PageInv, FetchIsNewer
<1>4. ASSUME heard PROVE saved = v \/ inbox > 0
  <2>1. fetch # Asked /\ fetch.value = v
    BY <1>1, FetchFields
  <2>2. saved \in {seen, v} \/ inbox > 0
    BY <1>4, <2>1 DEF HeardIsComing
  <2> QED
    BY <1>1, <2>2 DEF PageInv, None
<1> QED
  BY <1>2, <1>3, <1>4 DEF HeardIsComing

\* Every way in which the page is made to fetch again.
LEMMA InvalidateKeeps ==
  ASSUME PageInv, Invalidate, UNCHANGED <<saved, seen>>, inbox' \in Nat
  PROVE  PageInv' /\ HeardIsComing'
<1>1. heard' \in BOOLEAN
  BY DEF Invalidate
<1>2. fetch' = Asked \/ (fetch # NoFetch /\ seen = None /\ fetch' = fetch)
  BY DEF Invalidate, Restarts
<1>3. FetchIsNewer'
  BY <1>2 DEF PageInv, FetchIsNewer
<1>4. ASSUME heard', fetch' # Asked PROVE saved = fetch.value
  <2>1. fetch # Asked /\ fetch # NoFetch /\ seen = None
    BY <1>2, <1>4
  <2>2. fetch = Answered(saved)
    BY <1>4, <2>1 DEF Invalidate
  <2> QED
    BY <2>2, FetchFields
<1> QED
  BY <1>1, <1>2, <1>3, <1>4 DEF PageInv, HeardIsComing

\* A save, or an event, seen from the page.
LEMMA SaveKeeps ==
  ASSUME PageInv, saved' = saved + 1, ~heard', heard' \in BOOLEAN,
         UNCHANGED <<seen, fetch, inbox>>
  PROVE  PageInv' /\ HeardIsComing'
<1>1. seen' \in None..saved' /\ saved' \in Nat
  BY DEF PageInv, None
<1>2. \A v \in 0..saved : v \in 0..saved'
  BY DEF PageInv
<1> QED
  BY <1>1, <1>2 DEF PageInv, FetchIsNewer, HeardIsComing

LEMMA StepPage ==
  PageInv /\ HeardIsComing /\ [Next]_vars => PageInv' /\ HeardIsComing'
<1> SUFFICES ASSUME PageInv, HeardIsComing, [Next]_vars
             PROVE  PageInv' /\ HeardIsComing'
  OBVIOUS
<1> USE DEF serverVars, socketVars, pageVars
<1>1. CASE FetchRead
  <2>1. saved \in 0..saved /\ seen <= saved
    BY DEF PageInv, None
  <2>2. fetch' = Answered(saved) /\ UNCHANGED <<saved, seen, inbox, heard>>
    BY <1>1 DEF FetchRead
  <2> QED
    BY <2>1, <2>2, FetchFields DEF PageInv, FetchIsNewer, HeardIsComing
<1>2. CASE FetchArrives
  BY <1>2, ArrivalKeeps
<1>3. CASE FetchFails
  <2>1. fetch' = NoFetch /\ UNCHANGED <<saved, seen, inbox>>
    BY <1>3 DEF FetchFails
  <2>2. CASE inbox > 0
    BY <1>3, <2>1, <2>2 DEF FetchFails, PageInv, FetchIsNewer, HeardIsComing
  <2>3. CASE ~(inbox > 0)
    <3>1. ~heard'
      BY <1>3, <2>3, Zenon DEF FetchFails
    <3>2. heard' \in BOOLEAN
      <4>1. heard' = (inbox > 0) /\ inbox \in Nat
        BY <1>3 DEF FetchFails, PageInv
      <4> QED
        BY <4>1
    <3> QED
      BY <2>1, <3>1, <3>2 DEF PageInv, FetchIsNewer, HeardIsComing
  <2> QED
    BY <2>2, <2>3
<1>4. ASSUME NEW j \in Jobs, Post(j) PROVE PageInv' /\ HeardIsComing'
  BY <1>4, SaveKeeps DEF Post
<1>5. ASSUME NEW j \in Jobs, PostAnswered(j) PROVE PageInv' /\ HeardIsComing'
  BY <1>5, InvalidateKeeps DEF PostAnswered, PageInv
<1>6. ASSUME NEW j \in Jobs, JobStep(j) PROVE PageInv' /\ HeardIsComing'
  <2>1. CASE Save(j)
    BY <1>6, <2>1, SaveKeeps DEF JobStep, Save
  <2>2. CASE Publish(j)
    <3>1. UNCHANGED <<saved, seen, fetch>>
      BY <1>6, <2>2 DEF JobStep, Publish
    <3>2. CASE inbox' = inbox + 1 /\ heard' = TRUE
      <4>1. inbox' \in Nat /\ inbox' > 0
        BY <3>2 DEF PageInv
      <4> QED
        BY <3>1, <3>2, <4>1 DEF PageInv, FetchIsNewer, HeardIsComing
    <3>3. CASE UNCHANGED <<inbox, heard>>
      BY <3>1, <3>3 DEF PageInv, FetchIsNewer, HeardIsComing
    <3> QED
      BY <2>2, <3>2, <3>3 DEF Publish
  <2> QED
    BY <1>6, <2>1, <2>2 DEF JobStep, SaveThenPublish
<1>7. ASSUME NEW j \in Jobs, PublishFails(j) PROVE PageInv' /\ HeardIsComing'
  BY <1>7 DEF PublishFails, PageInv, FetchIsNewer, HeardIsComing
<1>8. CASE \/ TicketIssued \/ TicketFails \/ TicketExpires
           \/ Consume \/ Accept \/ Subscribe \/ UNCHANGED vars
  BY <1>8
  DEF TicketIssued, TicketFails, TicketExpires, Consume, Accept, Subscribe, vars,
      PageInv, FetchIsNewer, HeardIsComing
<1>9. CASE Deliver
  BY <1>9, InvalidateKeeps DEF Deliver, PageInv
<1>10. CASE Reconnect
  BY <1>10, InvalidateKeeps DEF Reconnect, Resync, PageInv
<1>11. CASE Drop
  <2>1. heard' \in BOOLEAN /\ inbox' = 0 /\ UNCHANGED <<saved, seen, fetch>>
    BY <1>11 DEF Drop
  <2>2. heard' => heard /\ (inbox = 0 \/ fetch = Asked \/ saved \in {seen, fetch.value})
    BY <1>11 DEF Drop
  <2> QED
    BY <2>1, <2>2 DEF PageInv, FetchIsNewer, HeardIsComing
<1> QED
  BY <1>1, <1>2, <1>3, <1>4, <1>5, <1>6, <1>7, <1>8, <1>9, <1>10, <1>11
  DEF Next, Fetches, Connects, Works

\* Once the page has been made to fetch since the last save it shows that save,
\* or is about to: no late answer of an older fetch takes its place, through
\* lost events, reconnects and fetches cancelled or failed.
THEOREM NothingStaleIsShown == Spec => []HeardIsShown
<1>1. Init => PageInv /\ HeardIsComing
  BY FetchFields DEF Init, PageInv, FetchIsNewer, HeardIsComing, None
<1>2. HeardIsComing => HeardIsShown
  BY DEF HeardIsComing, HeardIsShown
<1> QED
  BY <1>1, <1>2, StepPage, PTL DEF Spec
-----------------------------------------------------------------------------
(* The saves.  A request saves at most four times: when it is posted, when   *)
(* its job begins and ends, and when the event of the end was not published. *)

Posted  == {j \in Jobs : post[j] # "idle"}
Began   == {j \in Posted : todo[j] # "generating" \/ j \in pending}
Ended   == {j \in Began : /\ todo[j] # "generating"
                          /\ todo[j] # "ready" \/ j \in pending}
Undone  == {j \in Ended : /\ todo[j] \notin {"generating", "ready"}
                          /\ todo[j] # "failed" \/ j \in pending}

Counted ==
  Cardinality(Posted) + Cardinality(Began) + Cardinality(Ended) + Cardinality(Undone)

\* The types of the requests, their jobs and the connection.
JobsTyped ==
  /\ post \in [Jobs -> {"idle", "sent", "done"}]
  /\ todo \in [Jobs -> Saves \cup {"none"}]
  /\ pending \subseteq Jobs
  /\ \A j \in Jobs : post[j] = "idle" => todo[j] = "none" /\ j \notin pending
  /\ \A j \in pending : todo[j] # "none"
  /\ ticket \in {"none", "issued"} /\ sock \in Places
  /\ faults \in 0..MaxFaults

SavesInv == PageInv /\ JobsTyped /\ saved <= Counted

LEMMA JobSets ==
  ASSUME NEW S \in SUBSET Jobs, NEW T \in SUBSET S
  PROVE  /\ Cardinality(S) \in Nat /\ Cardinality(T) \in Nat
         /\ Cardinality(T) <= Cardinality(S)
         /\ S # T => Cardinality(T) + 1 <= Cardinality(S)
<1>1. IsFiniteSet(S) /\ IsFiniteSet(T)
  BY JobsAssumption, FS_Subset
<1>2. Cardinality(T) <= Cardinality(S) /\ (Cardinality(S) = Cardinality(T) => S = T)
  BY <1>1, FS_Subset
<1>3. Cardinality(S) \in Nat /\ Cardinality(T) \in Nat
  BY <1>1, FS_CardinalityType
<1> QED
  BY <1>2, <1>3

\* The sets only grow, and one of them with each save.
LEMMA CountedGrows ==
  ASSUME Posted \subseteq Posted', Began \subseteq Began',
         Ended \subseteq Ended', Undone \subseteq Undone'
  PROVE  /\ Counted \in Nat /\ Counted' \in Nat /\ Counted <= Counted'
         /\ \/ Posted # Posted' \/ Began # Began' \/ Ended # Ended' \/ Undone # Undone'
            => Counted + 1 <= Counted'
<1> DEFINE Grows(S, T) ==
             /\ Cardinality(S) \in Nat /\ Cardinality(T) \in Nat
             /\ Cardinality(S) <= Cardinality(T)
             /\ S # T => Cardinality(S) + 1 <= Cardinality(T)
<1>1. Posted' \subseteq Jobs /\ Began' \subseteq Jobs /\ Ended' \subseteq Jobs
      /\ Undone' \subseteq Jobs
  BY DEF Posted, Began, Ended, Undone
<1>2. /\ Grows(Posted, Posted') /\ Grows(Began, Began')
      /\ Grows(Ended, Ended') /\ Grows(Undone, Undone')
  BY <1>1, JobSets
<1> QED
  BY <1>2 DEF Counted

LEMMA CountedBound == Counted \in Nat /\ Counted <= MaxSaved
<1> DEFINE Few(S) == Cardinality(S) \in Nat /\ Cardinality(S) <= Cardinality(Jobs)
<1>1. Cardinality(Jobs) \in Nat
  BY JobSets
<1>2. Few(Posted) /\ Few(Began) /\ Few(Ended) /\ Few(Undone)
  BY JobSets DEF Posted, Began, Ended, Undone
<1> QED
  BY <1>1, <1>2 DEF Counted, MaxSaved

\* What a step does to the saves and the sets.
SetsGrow ==
  /\ Posted \subseteq Posted' /\ Began \subseteq Began'
  /\ Ended \subseteq Ended' /\ Undone \subseteq Undone'

SavesOnce ==
  /\ saved' = saved + 1
  /\ \/ Posted # Posted' \/ Began # Began'
     \/ Ended # Ended' \/ Undone # Undone'

LEMMA PostCounts ==
  ASSUME JobsTyped, NEW j \in Jobs, Post(j)
  PROVE  JobsTyped' /\ SetsGrow /\ SavesOnce
<1> USE DEF JobsTyped, Saves, Post, socketVars
<1>1. JobsTyped'
  OBVIOUS
<1>2. j \in Posted' /\ j \notin Posted
  BY DEF Posted
<1>3. SetsGrow
  BY DEF SetsGrow, Posted, Began, Ended, Undone
<1> QED
  BY <1>1, <1>2, <1>3 DEF SavesOnce

\* A save is the first one of its kind for the job.
LEMMA SaveCounts ==
  ASSUME JobsTyped, NEW j \in Jobs, JobStep(j), Save(j)
  PROVE  JobsTyped' /\ SetsGrow /\ SavesOnce
<1> USE DEF JobsTyped, Saves, JobStep, Save
<1>1. JobsTyped'
  OBVIOUS
<1>2. SetsGrow
  BY DEF SetsGrow, Posted, Began, Ended, Undone
<1>3. j \in Posted
  BY DEF Posted
<1>4. saved' = saved + 1
  OBVIOUS
<1>5. CASE todo[j] = "generating"
  <2>1. j \in Began' /\ j \notin Began
    BY <1>3, <1>5 DEF Began, Posted
  <2> QED
    BY <1>1, <1>2, <1>4, <2>1 DEF SavesOnce
<1>6. CASE todo[j] = "ready"
  <2>1. j \in Ended' /\ j \notin Ended
    BY <1>3, <1>6 DEF Ended, Began, Posted
  <2> QED
    BY <1>1, <1>2, <1>4, <2>1 DEF SavesOnce
<1>7. CASE todo[j] = "failed"
  <2>1. j \in Undone' /\ j \notin Undone
    BY <1>3, <1>7 DEF Undone, Ended, Began, Posted
  <2> QED
    BY <1>1, <1>2, <1>4, <2>1 DEF SavesOnce
<1> QED
  BY <1>5, <1>6, <1>7

\* An event that is published, or is not, makes room for the next save only.
LEMMA PublishCounts ==
  ASSUME JobsTyped, NEW j \in Jobs, (JobStep(j) /\ Publish(j)) \/ PublishFails(j)
  PROVE  JobsTyped' /\ SetsGrow /\ UNCHANGED saved
<1> DEFINE next == todo'[j]
<1> USE FaultsAssumption DEF JobsTyped, Saves
<1>1. /\ j \in pending /\ pending' = pending \ {j}
      /\ todo' = [todo EXCEPT ![j] = next]
      /\ next \in {"none", "ready", "failed"}
      /\ todo[j] = "generating" => next \in {"none", "ready"}
      /\ todo[j] = "ready" => next \in {"none", "failed"}
      /\ todo[j] = "failed" => next = "none"
      /\ UNCHANGED <<saved, post, ticket, sock>>
  BY DEF JobStep, Publish, PublishFails, After, socketVars
<1>2. faults' \in 0..MaxFaults
  BY DEF JobStep, Publish, PublishFails
<1> HIDE DEF next
<1>3. JobsTyped'
  BY <1>1, <1>2
<1>4. SetsGrow
  BY <1>1 DEF SetsGrow, Posted, Began, Ended, Undone
<1> QED
  BY <1>1, <1>3, <1>4

LEMMA OthersCount ==
  ASSUME JobsTyped, UNCHANGED <<saved, todo, pending>>,
         \/ Fetches \/ Deliver \/ Connects \/ TicketExpires \/ Drop
         \/ (\E j \in Jobs : PostAnswered(j)) \/ UNCHANGED vars
  PROVE  JobsTyped' /\ SetsGrow
<1> USE FaultsAssumption
<1>1. /\ ticket' \in {"none", "issued"} /\ sock' \in Places
      /\ faults' \in 0..MaxFaults
  BY DEF Fetches, FetchRead, FetchArrives, FetchFails, Deliver, Connects,
         TicketIssued, TicketFails, Consume, Accept, Subscribe, Reconnect,
         TicketExpires, Drop, PostAnswered, vars, socketVars, Places, JobsTyped
<1>2. \/ post' = post
      \/ \E j \in Jobs : post[j] = "sent" /\ post' = [post EXCEPT ![j] = "done"]
  BY DEF Fetches, FetchRead, FetchArrives, FetchFails, Deliver, Connects,
         TicketIssued, TicketFails, Consume, Accept, Subscribe, Reconnect,
         TicketExpires, Drop, PostAnswered, vars
<1>3. post' \in [Jobs -> {"idle", "sent", "done"}]
      /\ \A j \in Jobs : post'[j] = "idle" <=> post[j] = "idle"
  BY <1>2 DEF JobsTyped
<1>4. JobsTyped'
  BY <1>1, <1>3 DEF JobsTyped
<1>5. SetsGrow
  BY <1>3 DEF SetsGrow, Posted, Began, Ended, Undone
<1> QED
  BY <1>4, <1>5

LEMMA StepSaves == SavesInv /\ HeardIsComing /\ [Next]_vars => SavesInv'
<1> SUFFICES ASSUME SavesInv, HeardIsComing, [Next]_vars PROVE SavesInv'
  OBVIOUS
<1>1. JobsTyped' /\ SetsGrow /\ (SavesOnce \/ UNCHANGED saved)
  <2>1. ASSUME NEW j \in Jobs, Post(j) \/ (JobStep(j) /\ Save(j))
        PROVE  JobsTyped' /\ SetsGrow /\ SavesOnce
    BY <2>1, PostCounts, SaveCounts DEF SavesInv
  <2>2. ASSUME NEW j \in Jobs, (JobStep(j) /\ Publish(j)) \/ PublishFails(j)
        PROVE  JobsTyped' /\ SetsGrow /\ UNCHANGED saved
    BY <2>2, PublishCounts DEF SavesInv
  <2>3. ASSUME \/ Fetches \/ Deliver \/ Connects \/ TicketExpires \/ Drop
               \/ (\E j \in Jobs : PostAnswered(j)) \/ UNCHANGED vars
        PROVE  JobsTyped' /\ SetsGrow /\ UNCHANGED saved
    <3>1. UNCHANGED <<saved, todo, pending>>
      BY <2>3
      DEF Fetches, FetchRead, FetchArrives, FetchFails, Deliver, Connects,
          TicketIssued, TicketFails, Consume, Accept, Subscribe, Reconnect,
          TicketExpires, Drop, PostAnswered, vars, serverVars
    <3> QED
      BY <2>3, <3>1, OthersCount DEF SavesInv
  <2> QED
    BY <2>1, <2>2, <2>3 DEF Next, Works, JobStep, SaveThenPublish
<1>2. PageInv'
  BY StepPage DEF SavesInv
<1>3. saved' <= Counted'
  <2>1. /\ Counted \in Nat /\ Counted' \in Nat /\ Counted <= Counted'
        /\ SavesOnce => Counted + 1 <= Counted'
    BY <1>1, CountedGrows DEF SetsGrow, SavesOnce
  <2>2. saved \in Nat /\ saved <= Counted /\ saved' \in {saved, saved + 1}
    BY <1>1 DEF SavesInv, PageInv, SavesOnce
  <2> QED
    BY <1>1, <2>1, <2>2 DEF SavesOnce
<1> QED
  BY <1>1, <1>2, <1>3 DEF SavesInv

\* Every reachable state of PlannerFeed is well typed; in particular MaxSaved,
\* four saves for each request, bounds the saves with any faults.
THEOREM TypeCorrect == Spec => []FeedTypeOK
<1>1. ASSUME Init PROVE SavesInv /\ HeardIsComing
  <2>1. PageInv /\ HeardIsComing
    BY <1>1, FetchFields DEF Init, PageInv, FetchIsNewer, HeardIsComing, None
  <2>2. JobsTyped
    BY <1>1, FaultsAssumption DEF Init, JobsTyped, Places
  <2>3. saved <= Counted
    BY <1>1, CountedBound DEF Init
  <2> QED
    BY <2>1, <2>2, <2>3 DEF SavesInv
<1>2. ASSUME SavesInv PROVE FeedTypeOK
  <2>0. MaxSaved \in Nat
    BY JobSets DEF MaxSaved
  <2>1. saved \in 0..MaxSaved
    BY <1>2, <2>0, CountedBound DEF SavesInv, PageInv
  <2>2. seen \in None..MaxSaved
    BY <1>2, <2>0, <2>1 DEF SavesInv, PageInv, None
  <2>3. fetch \in {NoFetch, Asked} \cup {Answered(v) : v \in 0..MaxSaved}
    <3>1. \A v \in 0..saved : v \in 0..MaxSaved
      BY <2>0, <2>1
    <3> QED
      BY <1>2, <3>1 DEF SavesInv, PageInv, FetchIsNewer
  <2> QED
    BY <1>2, <2>1, <2>2, <2>3 DEF SavesInv, PageInv, JobsTyped, FeedTypeOK
<1> QED
  BY <1>1, <1>2, StepPage, StepSaves, PTL DEF Spec, SavesInv
=============================================================================
