------------------------------ MODULE TokenQuota ------------------------------
(***************************************************************************)
(* The daily token quota of one user (core/quota.py): the counter in Redis *)
(* and everything that is charged to it, each Redis command one step.      *)
(* Requests ask the Tutor or for a title, jobs are the planner's Celery    *)
(* tasks with their retries, ingests contextualise the chunks of a         *)
(* document.  A caller may die, or its reader leave, at any step.  Every   *)
(* user has keys of its own.                                               *)
(*                                                                         *)
(* Time is counted in ticks.  Only the key of the current day is ever read *)
(* or written, so the keys of past days are left out.                      *)
(***************************************************************************)
EXTENDS Integers, FiniteSets

CONSTANTS
  Requests,    \* requests of the user that call a model
  Jobs,        \* Celery jobs of the user
  Ingests,     \* background ingests of the user
  DayLen,      \* length of a day, in ticks
  TTL,         \* the 25 hours of a key, in ticks
  Limit,       \* tokens of a day (max_quota)
  MaxCost,     \* most tokens one call costs
  Chunks,      \* most chunks an ingest has to contextualise
  MaxRetries   \* Celery retries of a job

Callers == Requests \cup Jobs \cup Ingests

ASSUME CallersAssumption ==
  /\ IsFiniteSet(Callers)
  /\ Requests \cap Jobs = {} /\ Requests \cap Ingests = {} /\ Jobs \cap Ingests = {}
ASSUME DayAssumption == DayLen \in Nat \ {0} /\ TTL \in Nat /\ TTL >= DayLen
ASSUME CostAssumption ==
  Limit \in Nat \ {0} /\ Chunks \in Nat \ {0} /\ MaxCost \in Nat /\ MaxRetries \in Nat

Never == 0    \* the time to live of a key without one

VARIABLES
  used,     \* today's counter, 0 when its key does not exist
  ttl,      \* ... and its time to live
  hour,     \* the tick of the day
  at,       \* where each caller is
  today,    \* callers about to EXPIRE a key that is still today's
  attempt,  \* retries of a job
  left,     \* chunks an ingest still has to contextualise
  charged,  \* history: tokens recorded today
  paid      \* history: answers a job was charged for

keyVars == <<used, ttl, charged>>
taskVars == <<attempt, left, paid>>
vars == <<keyVars, hour, at, today, taskVars>>

Places == {"idle", "check", "call", "record", "expire", "store", "waiting"}

Goto(c, place) == at' = [at EXCEPT ![c] = place]

\* A caller ends; nothing of its task is left.
End(c) ==
  /\ Goto(c, "idle")
  /\ attempt' = [j \in Jobs |-> IF j = c THEN 0 ELSE attempt[j]]
  /\ left' = [i \in Ingests |-> IF i = c THEN 0 ELSE left[i]]
  /\ paid' = [j \in Jobs |-> IF j = c THEN 0 ELSE paid[j]]

Continue(c, place) == Goto(c, place) /\ UNCHANGED taskVars

Init ==
  /\ used = 0 /\ ttl = Never /\ charged = 0
  /\ hour = 0
  /\ at = [c \in Callers |-> "idle"]
  /\ today = {}
  /\ attempt = [j \in Jobs |-> 0]
  /\ left = [i \in Ingests |-> 0]
  /\ paid = [j \in Jobs |-> 0]

-----------------------------------------------------------------------------
(* The callers. *)

\* A question or a title; a question whose answer is cached is not charged
\* and never gets here.
Ask(r) ==
  /\ at[r] = "idle"
  /\ Continue(r, "check")
  /\ UNCHANGED <<keyVars, hour, today>>

\* A worker takes a job from the queue.
StartJob(j) ==
  /\ at[j] = "idle"
  /\ Continue(j, "check")
  /\ UNCHANGED <<keyVars, hour, today>>

\* A document is extracted and chunked; some of its chunks miss the cache.
StartIngest(i) ==
  /\ at[i] = "idle"
  /\ Goto(i, "check")
  /\ \E n \in 1..Chunks : left' = [left EXCEPT ![i] = n]
  /\ UNCHANGED <<keyVars, hour, today, attempt, paid>>

\* Mutant: the check lets through a user who is at the limit.
MayCallAtLimit == used <= Limit

\* check_quota looks at the counter and reserves nothing.
MayCall == used < Limit

\* A user over the limit gets a 429, a failed job or a failed document.
CheckQuota(c) ==
  /\ at[c] = "check"
  /\ \/ MayCall /\ Continue(c, "call")
     \/ ~MayCall /\ End(c)
  /\ UNCHANGED <<keyVars, hour, today>>

Answered(c) ==
  /\ at[c] = "call"
  /\ Continue(c, "record")
  /\ UNCHANGED <<keyVars, hour, today>>

\* Mutant: one retry more than Celery is told.
MayRetryOnceMore(c) == c \in Jobs /\ attempt[c] <= MaxRetries

MayRetry(c) == c \in Jobs /\ attempt[c] < MaxRetries

\* The call fails: the proxy or, for a job, the embedding service could not be
\* reached, which Celery retries.  Any other error is the end of its caller.
CallFails(c) ==
  /\ at[c] = "call"
  /\ \/ End(c)
     \/ MayRetry(c) /\ Continue(c, "waiting")
  /\ UNCHANGED <<keyVars, hour, today>>

\* Celery runs the whole job again.
RetryJob(j) ==
  /\ at[j] = "waiting"
  /\ attempt' = [attempt EXCEPT ![j] = @ + 1]
  /\ Goto(j, "check")
  /\ UNCHANGED <<keyVars, hour, today, left, paid>>

-----------------------------------------------------------------------------
(* record_usage. *)

\* INCRBY, with what the call has cost, on the key of the day it is now, which
\* may not be the day of the check.  A stream without usage counts as no
\* tokens.  The total equals the tokens just added when they are its first.
Record(c) ==
  /\ at[c] = "record"
  /\ \E cost \in 0..MaxCost :
       /\ used' = used + cost
       /\ charged' = charged + cost
       /\ \/ used' = cost /\ Goto(c, "expire") /\ today' = today \cup {c}
          \/ used' # cost /\ Goto(c, "store") /\ UNCHANGED today
  /\ paid' = [j \in Jobs |-> IF j = c THEN paid[j] + 1 ELSE paid[j]]
  /\ UNCHANGED <<ttl, hour, attempt, left>>

\* Mutant: the key lives for an hour.
OneHour == 1

KeyTTL == TTL

\* EXPIRE on the key that was incremented, whatever day it is by now.
Expire(c) ==
  /\ at[c] = "expire"
  /\ ttl' = IF c \in today THEN KeyTTL ELSE ttl
  /\ today' = today \ {c}
  /\ Continue(c, "store")
  /\ UNCHANGED <<used, charged, hour>>

\* Mutant: a job that fails after its charge is retried like before it.
AfterwardsRetried(c) == End(c) \/ (MayRetry(c) /\ Continue(c, "waiting"))

\* What follows the charge.  A request or a job stores the answer and an error
\* there is final; an ingest goes on with its next chunk, if there is one and
\* no error.
Afterwards(c) ==
  \/ End(c)
  \/ /\ c \in Ingests /\ left[c] > 1
     /\ left' = [left EXCEPT ![c] = @ - 1]
     /\ Goto(c, "check")
     /\ UNCHANGED <<attempt, paid>>

Store(c) ==
  /\ at[c] = "store"
  /\ Afterwards(c)
  /\ UNCHANGED <<keyVars, hour, today>>

-----------------------------------------------------------------------------
(* Deaths and time. *)

\* The reader of a stream leaves, or the process of the caller stops.  What
\* the call has cost is not recorded then.
Die(c) ==
  /\ at[c] \in {"call", "record", "expire", "store"}
  /\ End(c)
  /\ today' = today \ {c}
  /\ UNCHANGED <<keyVars, hour>>

\* Time passes; at midnight another key is today's.
Tick ==
  /\ hour' = (hour + 1) % DayLen
  /\ IF hour' = 0
     THEN /\ used' = 0 /\ ttl' = Never /\ charged' = 0
          /\ today' = {}
     ELSE /\ used' = IF ttl = 1 THEN 0 ELSE used
          /\ ttl' = IF ttl = Never THEN Never ELSE ttl - 1
          /\ UNCHANGED <<charged, today>>
  /\ UNCHANGED <<at, taskVars>>

-----------------------------------------------------------------------------
Calls(c) == CheckQuota(c) \/ Answered(c) \/ CallFails(c)
Charges(c) == Record(c) \/ Expire(c) \/ Store(c)

Next ==
  \/ \E r \in Requests : Ask(r)
  \/ \E j \in Jobs : StartJob(j) \/ RetryJob(j)
  \/ \E i \in Ingests : StartIngest(i)
  \/ \E c \in Callers : Calls(c) \/ Charges(c) \/ Die(c)
  \/ Tick

Spec == Init /\ [][Next]_vars

-----------------------------------------------------------------------------
(* Properties. *)

QuotaTypeOK ==
  /\ used \in Nat /\ ttl \in 0..TTL /\ charged \in Nat
  /\ hour \in 0..(DayLen - 1)
  /\ at \in [Callers -> Places]
  /\ today \subseteq Callers
  /\ attempt \in [Jobs -> 0..MaxRetries]
  /\ left \in [Ingests -> 0..Chunks]
  /\ paid \in [Jobs -> Nat]

\* Callers that the check has let through and that are still to be charged.
InFlight == {c \in Callers : at[c] \in {"call", "record"}}

\* The check reserves nothing, so a user may exceed the limit of a day, by no
\* more than what as many calls as can run at a time cost: those let through
\* before the limit was reached, the day before included.
OvershootBounded ==
  used >= Limit =>
    used + MaxCost * Cardinality(InFlight) <= (Limit - 1) + MaxCost * Cardinality(Callers)

\* What was recorded today still counts: the key of a day outlives the day,
\* whenever it was first written and whoever dies before the EXPIRE.
UsageKept == used = charged

\* However often Celery runs a job again, its user pays for one answer.
JobPaidOnce == \A j \in Jobs : paid[j] <= 1
=============================================================================
