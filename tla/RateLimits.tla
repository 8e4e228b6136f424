------------------------------ MODULE RateLimits ------------------------------
(***************************************************************************)
(* The requests of one address against the counters of core/rate_limit.py  *)
(* in Redis, behind the blocklist: a global window for every request and a *)
(* stricter one for logins.  Each Redis command is one step, and a request *)
(* may die at any of them.  Other addresses have keys of their own.        *)
(*                                                                         *)
(* Time is counted in ticks; a time to live of a key is what is left of it.*)
(***************************************************************************)
EXTENDS Integers, FiniteSets

CONSTANTS
  Arrivals,  \* HTTP requests of the address
  MaxOf,     \* requests of one window, by counter
  Window     \* length of a window, in ticks

Keys == {"global", "login"}

ASSUME WindowAssumption == Window \in Nat \ {0} /\ MaxOf \in [Keys -> Nat \ {0}]

NoExpiry == 0     \* the time to live of a key without one

VARIABLES
  block,   \* the blocklist entry of the address
  count,   \* the fixed-window counters, 0 when the key does not exist
  life,    \* ... and their times to live
  stage,   \* where each request is
  key,     \* the counter it is at
  login,   \* it is a login
  retry,   \* what is left of the Retry-After it was told
  told,    \* ... and whether that was a time to live
  over,    \* history: the window it was counted in has ended since
  passed,  \* history: requests each counter admitted in the last n ticks, for each n
  orphan   \* history: counters whose EXPIRE was lost with its request

storeVars == <<count, life>>
requestVars == <<stage, key, login, retry, told, over>>
rateVars == <<block, storeVars, requestVars, passed, orphan>>

-----------------------------------------------------------------------------
(* The data. *)

Stages == {"idle", "incr", "expire", "ttl", "throttled"}

Advance(r, next) == stage' = [stage EXCEPT ![r] = next]

RateInit ==
  /\ block = "none"
  /\ count = [k \in Keys |-> 0]
  /\ life = [k \in Keys |-> NoExpiry]
  /\ stage = [r \in Arrivals |-> "idle"]
  /\ key = [r \in Arrivals |-> "global"]
  /\ login = [r \in Arrivals |-> FALSE]
  /\ retry = [r \in Arrivals |-> 0]
  /\ told = [r \in Arrivals |-> FALSE]
  /\ over = [r \in Arrivals |-> FALSE]
  /\ passed = [k \in Keys |-> [n \in 1..Window |-> 0]]
  /\ orphan = {}

-----------------------------------------------------------------------------
(* The blocklist. *)

\* POST /admin/ip-blocklist, for good or for a time.
BlockIp ==
  /\ block' \in {"forever", "timed"}
  /\ UNCHANGED <<storeVars, requestVars, passed, orphan>>

\* DELETE /admin/ip-blocklist/{ip}.
UnblockIp ==
  /\ block' = "none"
  /\ UNCHANGED <<storeVars, requestVars, passed, orphan>>

\* The middleware looks the address up before it counts; a request of a
\* blocked one is answered 403 and leaves no trace.
Arrive(r) ==
  /\ stage[r] = "idle"
  /\ block = "none"
  /\ Advance(r, "incr")
  /\ key' = [key EXCEPT ![r] = "global"]
  /\ \E b \in BOOLEAN : login' = [login EXCEPT ![r] = b]
  /\ told' = [told EXCEPT ![r] = FALSE]
  /\ over' = [over EXCEPT ![r] = FALSE]
  /\ UNCHANGED <<block, storeVars, retry, passed, orphan>>

-----------------------------------------------------------------------------
(* _check_and_increment. *)

\* What INCR returns; counts above the maximum are not told apart.
Incremented(k) == IF count[k] > MaxOf[k] THEN count[k] ELSE count[k] + 1

\* Mutant: the comparison with the maximum is one off.
AdmitsOneMore(k) == count[k] <= MaxOf[k]

Admits(k) == Incremented(k) <= MaxOf[k]

\* Mutant: every admitted request starts the window again.
StartsWindowAgain(k) == Admits(k)

\* Mutant: INCR is taken to return the count before it.
StartsWindowFromZero(k) == Incremented(k) = 0

StartsWindow(k) == Incremented(k) = 1

\* A login that the global counter has let through meets its own counter; any
\* other request goes on to its route.
Onward(r) ==
  IF login[r] /\ key[r] = "global"
  THEN Advance(r, "incr") /\ key' = [key EXCEPT ![r] = "login"]
  ELSE Advance(r, "idle") /\ UNCHANGED key

Incr(r) ==
  LET k == key[r] IN
    /\ stage[r] = "incr"
    /\ count' = [count EXCEPT ![k] = Incremented(k)]
    /\ passed' = IF Admits(k) THEN [passed EXCEPT ![k] = [n \in 1..Window |-> @[n] + 1]]
                  ELSE passed
    /\ over' = [over EXCEPT ![r] = FALSE]
    /\ \/ StartsWindow(k) /\ Advance(r, "expire") /\ UNCHANGED key
       \/ ~StartsWindow(k) /\ Admits(k) /\ Onward(r)
       \/ ~StartsWindow(k) /\ ~Admits(k) /\ Advance(r, "ttl") /\ UNCHANGED key
    /\ UNCHANGED <<block, life, login, retry, told, orphan>>

\* EXPIRE on a key that is gone does nothing.  The first of a window is always
\* admitted, so the request goes on.
SetExpiry(r) ==
  LET k == key[r] IN
    /\ stage[r] = "expire"
    /\ life' = IF count[k] > 0 THEN [life EXCEPT ![k] = Window] ELSE life
    /\ Onward(r)
    /\ UNCHANGED <<block, count, login, retry, told, over, passed, orphan>>

\* What Redis answers to TTL: -2 for no key, -1 for no time to live.
TtlReply(k) == IF count[k] = 0 THEN -2 ELSE IF life[k] = NoExpiry THEN -1 ELSE life[k]

\* What is left of the window, or the length of one if that is not known.
RetryAfter(k) == IF TtlReply(k) > 0 THEN TtlReply(k) ELSE Window

Refuse(r) ==
  LET k == key[r] IN
    /\ stage[r] = "ttl"
    /\ retry' = [retry EXCEPT ![r] = RetryAfter(k)]
    /\ told' = [told EXCEPT ![r] = TtlReply(k) > 0]
    /\ Advance(r, "throttled")
    /\ UNCHANGED <<block, storeVars, key, login, over, passed, orphan>>

\* The client waits that long before it comes back.
Waited(r) ==
  /\ stage[r] = "throttled" /\ retry[r] = 0
  /\ Advance(r, "idle")
  /\ UNCHANGED <<block, storeVars, key, login, retry, told, over, passed, orphan>>

-----------------------------------------------------------------------------
(* Deaths and time. *)

\* The process stops, or the request is cancelled, between two commands.
Abandon(r) ==
  /\ stage[r] \in {"incr", "expire", "ttl"}
  /\ Advance(r, "idle")
  /\ orphan' = IF stage[r] = "expire" THEN orphan \cup {key[r]} ELSE orphan
  /\ UNCHANGED <<block, storeVars, key, login, retry, told, over, passed>>

Ended == {k \in Keys : life[k] = 1}

TimePasses ==
  /\ life' = [k \in Keys |-> IF life[k] = NoExpiry THEN NoExpiry ELSE life[k] - 1]
  /\ count' = [k \in Keys |-> IF k \in Ended THEN 0 ELSE count[k]]
  /\ passed' = [k \in Keys |-> [n \in 1..Window |-> IF n = 1 THEN 0 ELSE passed[k][n - 1]]]
  /\ over' = [r \in Arrivals |-> over[r] \/ (stage[r] \in {"ttl", "throttled"} /\ key[r] \in Ended)]
  /\ retry' = [r \in Arrivals |-> IF retry[r] = 0 THEN 0 ELSE retry[r] - 1]
  /\ block' \in IF block = "timed" THEN {"timed", "none"} ELSE {block}
  /\ UNCHANGED <<stage, key, login, told, orphan>>

-----------------------------------------------------------------------------
Limits(r) == Incr(r) \/ SetExpiry(r) \/ Refuse(r)

RateNext ==
  \/ BlockIp \/ UnblockIp \/ TimePasses
  \/ \E r \in Arrivals : Arrive(r) \/ Limits(r) \/ Waited(r) \/ Abandon(r)

RateSpec == RateInit /\ [][RateNext]_rateVars

\* Redis answers and time goes on.
RateFairSpec == RateSpec /\ WF_rateVars(TimePasses) /\ \A r \in Arrivals : WF_rateVars(Limits(r))

-----------------------------------------------------------------------------
(* Properties. *)

RateTypeOK ==
  /\ block \in {"none", "forever", "timed"}
  /\ count \in [Keys -> Nat]
  /\ \A k \in Keys : count[k] <= MaxOf[k] + 1
  /\ life \in [Keys -> 0..Window]
  /\ stage \in [Arrivals -> Stages]
  /\ key \in [Arrivals -> Keys]
  /\ login \in [Arrivals -> BOOLEAN]
  /\ retry \in [Arrivals -> 0..Window]
  /\ told \in [Arrivals -> BOOLEAN]
  /\ over \in [Arrivals -> BOOLEAN]
  /\ passed \in [Keys -> [1..Window -> Nat]]
  /\ orphan \subseteq Keys

\* Two windows touch any stretch of time as long as one of them, so twice the
\* maximum is what an address can get through in it, deaths and late EXPIREs
\* included.
BurstBounded == \A k \in Keys : passed[k][Window] <= 2 * MaxOf[k]

\* A client that was told what was left of its window and waited for it finds
\* that window over, whatever was counted or refused meanwhile.
RetryAfterHonest ==
  \A r \in Arrivals : stage[r] = "throttled" /\ told[r] /\ retry[r] = 0 => over[r]

\* An address over a limit is let in again, unless the request that started
\* the window died before its EXPIRE.
ThrottleEnds ==
  \A k \in Keys : (count[k] > MaxOf[k]) ~> (count[k] = 0 \/ k \in orphan)
=============================================================================
