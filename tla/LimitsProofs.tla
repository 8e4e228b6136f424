----------------------------- MODULE LimitsProofs -----------------------------
(***************************************************************************)
(* Proofs about the limits of a user and of an address: RateLimits, for    *)
(* any requests, maxima and window, and TokenQuota, for any callers, day,  *)
(* limit and cost.  The two share no state.                                *)
(***************************************************************************)
EXTENDS RateLimits, TokenQuota, TLAPS, FiniteSetTheorems

-----------------------------------------------------------------------------
(* RateLimits: types. *)

StoreTypes ==
  /\ block \in {"none", "forever", "timed"}
  /\ count \in [Keys -> Nat] /\ \A k \in Keys : count[k] <= MaxOf[k] + 1
  /\ life \in [Keys -> 0..Window]
  /\ passed \in [Keys -> [1..Window -> Nat]]
  /\ orphan \subseteq Keys

VisitTypes ==
  /\ stage \in [Arrivals -> Stages]
  /\ key \in [Arrivals -> Keys]
  /\ login \in [Arrivals -> BOOLEAN]
  /\ retry \in [Arrivals -> 0..Window]
  /\ told \in [Arrivals -> BOOLEAN]
  /\ over \in [Arrivals -> BOOLEAN]

LEMMA RateTypeParts ==
  /\ RateTypeOK <=> StoreTypes /\ VisitTypes
  /\ RateTypeOK' <=> StoreTypes' /\ VisitTypes'
BY DEF RateTypeOK, StoreTypes, VisitTypes

LEMMA Windows == Window \in Nat \ {0} /\ 1 \in 1..Window
                 /\ \A k \in Keys : MaxOf[k] \in Nat \ {0}
BY WindowAssumption

\* Where a request goes once its counter let it pass.
LEMMA OnwardTypes ==
  ASSUME VisitTypes, NEW r \in Arrivals, Onward(r)
  PROVE  /\ stage' \in [Arrivals -> Stages] /\ key' \in [Arrivals -> Keys]
         /\ stage'[r] \in {"incr", "idle"}
         /\ \A q \in Arrivals \ {r} : stage'[q] = stage[q] /\ key'[q] = key[q]
BY DEF VisitTypes, Onward, Advance, Stages, Keys

LEMMA IncrStore ==
  ASSUME RateTypeOK, NEW k \in Keys
  PROVE  /\ Incremented(k) \in Nat \ {0} /\ Incremented(k) <= MaxOf[k] + 1
         /\ Admits(k) => Incremented(k) = count[k] + 1
         /\ StartsWindow(k) => count[k] = 0
         /\ ~Admits(k) => Incremented(k) = MaxOf[k] + 1 /\ count[k] >= MaxOf[k]
<1>1. count[k] \in Nat /\ count[k] <= MaxOf[k] + 1 /\ MaxOf[k] \in Nat \ {0}
  BY Windows DEF RateTypeOK
<1> QED
  BY <1>1 DEF Incremented, Admits, StartsWindow

\* An admission counts in every stretch that ends now.
LEMMA IncrPassed ==
  ASSUME NEW r, Incr(r), passed \in [Keys -> [1..Window -> Nat]], key[r] \in Keys
  PROVE  LET k == key[r] IN
         /\ passed' \in [Keys -> [1..Window -> Nat]]
         /\ \A j \in Keys \ {k} : passed'[j] = passed[j]
         /\ Admits(k) => \A n \in 1..Window : passed'[k][n] = passed[k][n] + 1
         /\ ~Admits(k) => passed' = passed
<1> DEFINE k == key[r]
           more == [n \in 1..Window |-> passed[k][n] + 1]
<1>1. passed' = IF Admits(k) THEN [passed EXCEPT ![k] = more] ELSE passed
  BY DEF Incr
<1>2. more \in [1..Window -> Nat] /\ \A n \in 1..Window : more[n] = passed[k][n] + 1
  <2>1. passed[k] \in [1..Window -> Nat]
    OBVIOUS
  <2> QED
    BY <2>1, Windows
<1> HIDE DEF more
<1> QED
  BY <1>1, <1>2

LEMMA StepRateTypes == ASSUME RateTypeOK, [RateNext]_rateVars PROVE RateTypeOK'
<1> USE RateTypeParts, Windows DEF storeVars, requestVars
<1>1. ASSUME BlockIp \/ UnblockIp PROVE RateTypeOK'
  BY <1>1 DEF BlockIp, UnblockIp, StoreTypes, VisitTypes
<1>2. ASSUME TimePasses PROVE RateTypeOK'
  <2>1. StoreTypes'
    <3>1. passed' \in [Keys -> [1..Window -> Nat]]
      BY <1>2 DEF TimePasses, StoreTypes
    <3>2. life' \in [Keys -> 0..Window]
      BY <1>2 DEF TimePasses, StoreTypes, NoExpiry
    <3>3. block' \in {"none", "forever", "timed"}
      BY <1>2 DEF TimePasses, StoreTypes
    <3> QED
      BY <1>2, <3>1, <3>2, <3>3 DEF TimePasses, StoreTypes
  <2>2. VisitTypes'
    BY <1>2 DEF TimePasses, VisitTypes
  <2> QED
    BY <2>1, <2>2
<1>3. ASSUME NEW r \in Arrivals, Arrive(r) PROVE RateTypeOK'
  <2>1. VisitTypes'
    BY <1>3 DEF Arrive, Advance, VisitTypes, Stages, Keys
  <2>2. StoreTypes'
    BY <1>3 DEF Arrive, StoreTypes
  <2> QED
    BY <2>1, <2>2
<1>4. ASSUME NEW r \in Arrivals, Incr(r) PROVE RateTypeOK'
  <2> DEFINE k == key[r]
  <2>1. k \in Keys
    BY DEF VisitTypes
  <2>0. /\ k \in Keys /\ passed \in [Keys -> [1..Window -> Nat]]
        /\ count \in [Keys -> Nat] /\ \A j \in Keys : count[j] <= MaxOf[j] + 1
    BY <2>1 DEF StoreTypes
  <2>2. count' \in [Keys -> Nat] /\ \A j \in Keys : count'[j] <= MaxOf[j] + 1
    <3>1. count' = [count EXCEPT ![k] = Incremented(k)]
      BY <1>4 DEF Incr
    <3>2. Incremented(k) \in Nat /\ Incremented(k) <= MaxOf[k] + 1
      BY <2>0, IncrStore
    <3> QED
      BY <2>0, <3>1, <3>2
  <2>3. passed' \in [Keys -> [1..Window -> Nat]]
    BY <1>4, <2>0, IncrPassed
  <2>4. stage' \in [Arrivals -> Stages] /\ key' \in [Arrivals -> Keys]
    BY <1>4, OnwardTypes DEF Incr, Advance, VisitTypes, Stages
  <2>5. over' \in [Arrivals -> BOOLEAN]
    BY <1>4 DEF Incr, VisitTypes
  <2> QED
    BY <1>4, <2>2, <2>3, <2>4, <2>5 DEF Incr, StoreTypes, VisitTypes
<1>5. ASSUME NEW r \in Arrivals, SetExpiry(r) PROVE RateTypeOK'
  <2>1. life' \in [Keys -> 0..Window]
    <3>1. life' = [life EXCEPT ![key[r]] = Window] \/ life' = life
      BY <1>5 DEF SetExpiry
    <3>2. life \in [Keys -> 0..Window] /\ Window \in 0..Window
      BY DEF StoreTypes
    <3> QED
      BY <3>1, <3>2
  <2>2. stage' \in [Arrivals -> Stages] /\ key' \in [Arrivals -> Keys]
    BY <1>5, OnwardTypes DEF SetExpiry
  <2>3. VisitTypes'
    BY <1>5, <2>2 DEF SetExpiry, VisitTypes
  <2>4. StoreTypes'
    BY <1>5, <2>1 DEF SetExpiry, StoreTypes
  <2> QED
    BY <2>3, <2>4
<1>6. ASSUME NEW r \in Arrivals, Refuse(r) PROVE RateTypeOK'
  <2>1. key[r] \in Keys /\ life[key[r]] \in 0..Window
    BY DEF StoreTypes, VisitTypes
  <2>2. RetryAfter(key[r]) \in 0..Window
    BY <2>1 DEF RetryAfter, TtlReply, NoExpiry
  <2>3. told' \in [Arrivals -> BOOLEAN]
    BY <1>6 DEF Refuse, VisitTypes
  <2>4. retry' \in [Arrivals -> 0..Window]
    BY <1>6, <2>2 DEF Refuse, VisitTypes
  <2>5. stage' \in [Arrivals -> Stages]
    BY <1>6 DEF Refuse, Advance, VisitTypes, Stages
  <2>6. VisitTypes'
    BY <1>6, <2>3, <2>4, <2>5 DEF Refuse, VisitTypes
  <2> QED
    BY <1>6, <2>6 DEF Refuse, StoreTypes
<1>7. ASSUME NEW r \in Arrivals, Waited(r) \/ Abandon(r) PROVE RateTypeOK'
  <2>1. stage' \in [Arrivals -> Stages] /\ orphan' \subseteq Keys
    <3>1. stage' = [stage EXCEPT ![r] = "idle"] /\ orphan' \in {orphan, orphan \cup {key[r]}}
      BY <1>7 DEF Waited, Abandon, Advance
    <3>2. key[r] \in Keys /\ orphan \subseteq Keys
      BY DEF StoreTypes, VisitTypes
    <3> QED
      BY <3>1, <3>2 DEF VisitTypes, Stages
  <2>2. UNCHANGED <<block, storeVars, key, login, retry, told, over, passed>>
    BY <1>7 DEF Waited, Abandon
  <2>3. StoreTypes'
    <3>1. block' = block /\ count' = count /\ life' = life /\ passed' = passed
      BY <2>2
    <3> QED
      BY <2>1, <3>1 DEF StoreTypes
  <2>4. VisitTypes'
    BY <2>1, <2>2 DEF VisitTypes
  <2> QED
    BY <2>3, <2>4
<1>8. CASE UNCHANGED rateVars
  BY <1>8 DEF rateVars, StoreTypes, VisitTypes
<1> QED
  BY <1>1, <1>2, <1>3, <1>4, <1>5, <1>6, <1>7, <1>8 DEF RateNext, Limits

\* Every state of the limits is well typed (core/rate_limit.py).
THEOREM RateTypeCorrect == RateSpec => []RateTypeOK
<1>1. ASSUME RateInit PROVE RateTypeOK
  BY <1>1, Windows DEF RateInit, RateTypeOK, NoExpiry, Stages, Keys
<1> QED
  BY <1>1, StepRateTypes, PTL DEF RateSpec

-----------------------------------------------------------------------------
(* RateLimits: the burst.  Every tick belongs to one window of a key, and a  *)
(* window lasts at least Window ticks from its EXPIRE: so the window before  *)
(* the current one is the only other that the last Window ticks can touch.   *)

\* What the current window has admitted.
Counted(k) == IF count[k] <= MaxOf[k] THEN count[k] ELSE MaxOf[k]

\* The stretches that ended with the current window so far, by its length: those
\* since its EXPIRE lie within it, the longer ones within it and the one before.
WindowInv(k) ==
  /\ count[k] = 0 => life[k] = NoExpiry
  /\ passed[k][1] <= Counted(k)
  /\ \A n \in 1..Window : passed[k][n] <= MaxOf[k] + Counted(k)
  /\ life[k] # NoExpiry => \A n \in 1..(Window - life[k] + 1) : passed[k][n] <= Counted(k)

LEMMA CountedType ==
  ASSUME RateTypeOK, NEW k \in Keys
  PROVE  /\ Counted(k) \in Nat /\ Counted(k) <= MaxOf[k] /\ MaxOf[k] \in Nat
         /\ count[k] \in Nat /\ life[k] \in 0..Window
         /\ \A n \in 1..Window : passed[k][n] \in Nat
<1>1. /\ MaxOf[k] \in Nat /\ count[k] \in Nat /\ life[k] \in 0..Window
      /\ passed[k] \in [1..Window -> Nat]
  BY Windows DEF RateTypeOK
<1>2. \A n \in 1..Window : passed[k][n] \in Nat
  BY <1>1, Zenon
<1>3. Counted(k) \in Nat /\ Counted(k) <= MaxOf[k]
  BY <1>1 DEF Counted
<1> QED
  BY <1>1, <1>2, <1>3

LEMMA WindowSame ==
  ASSUME NEW k, WindowInv(k), count'[k] = count[k], life'[k] = life[k], passed'[k] = passed[k]
  PROVE  WindowInv(k)'
BY DEF WindowInv, Counted, NoExpiry

\* A request counts in its window; the first finds no expiry.
LEMMA IncrWindow ==
  ASSUME RateTypeOK, NEW r \in Arrivals, Incr(r), NEW k \in Keys, key[r] = k, WindowInv(k)
  PROVE  WindowInv(k)'
<1>1. passed \in [Keys -> [1..Window -> Nat]] /\ life' = life
  BY DEF RateTypeOK, Incr
<1>2. count'[k] = Incremented(k) /\ Incremented(k) \in Nat \ {0}
  BY <1>1, IncrStore DEF Incr, RateTypeOK
<1>3. /\ Counted(k) \in Nat /\ MaxOf[k] \in Nat /\ count[k] \in Nat /\ life[k] \in 0..Window
      /\ \A n \in 1..Window : passed[k][n] \in Nat
      /\ Window \in Nat \ {0}
  BY <1>1, CountedType, Windows
<1>4. CASE Admits(k)
  <2>1. Counted(k)' = Counted(k) + 1
    <3>1. Incremented(k) = count[k] + 1 /\ count[k] + 1 <= MaxOf[k]
      BY <1>1, <1>4, IncrStore DEF Admits
    <3> QED
      BY <1>2, <1>3, <3>1 DEF Counted
  <2>2. \A n \in 1..Window : passed'[k][n] = passed[k][n] + 1
    BY <1>1, <1>4, IncrPassed
  <2>3. ASSUME NEW n \in 1..Window, NEW m \in Nat, passed[k][n] <= m
        PROVE  passed'[k][n] <= m + 1
    <3>1. passed'[k][n] = passed[k][n] + 1 /\ passed[k][n] \in Nat
      BY <1>3, <2>2
    <3> QED
      BY <2>3, <3>1
  <2>4. passed'[k][1] <= Counted(k)'
    <3>1. passed[k][1] <= Counted(k) /\ 1 \in 1..Window
      BY Windows DEF WindowInv
    <3> QED
      BY <1>3, <2>1, <2>3, <3>1
  <2>5. ASSUME NEW n \in 1..Window PROVE passed'[k][n] <= MaxOf[k] + Counted(k)'
    <3>1. passed[k][n] <= MaxOf[k] + Counted(k) /\ MaxOf[k] + Counted(k) \in Nat
      BY <1>3 DEF WindowInv
    <3>2. passed'[k][n] <= (MaxOf[k] + Counted(k)) + 1
      BY <2>3, <3>1
    <3> QED
      BY <1>3, <2>1, <3>2
  <2>6. ASSUME life[k] # NoExpiry, NEW n \in 1..(Window - life[k] + 1)
        PROVE  passed'[k][n] <= Counted(k)'
    <3>1. n \in 1..Window
      BY <1>3, <2>6 DEF NoExpiry
    <3>2. passed[k][n] <= Counted(k)
      BY <2>6 DEF WindowInv
    <3> QED
      BY <1>3, <2>1, <2>3, <3>1, <3>2
  <2> QED
    BY <1>1, <1>2, <2>4, <2>5, <2>6 DEF WindowInv
<1>5. CASE ~Admits(k)
  <2>1. Counted(k) = MaxOf[k] /\ Counted(k)' = MaxOf[k]
    <3>1. Incremented(k) = MaxOf[k] + 1 /\ count[k] >= MaxOf[k]
      BY <1>1, <1>5, IncrStore
    <3> QED
      BY <1>2, <1>3, <3>1 DEF Counted
  <2>2. passed' = passed
    BY <1>1, <1>5, IncrPassed
  <2> QED
    BY <1>1, <1>2, <2>1, <2>2 DEF WindowInv
<1> QED
  BY <1>4, <1>5

\* The EXPIRE, however late: what this tick admitted is of this window.
LEMMA ExpiryWindow ==
  ASSUME RateTypeOK, NEW r \in Arrivals, SetExpiry(r), NEW k \in Keys, key[r] = k, WindowInv(k)
  PROVE  WindowInv(k)'
<1>1. UNCHANGED <<count, passed>>
  BY DEF RateTypeOK, SetExpiry
<1>2. life'[k] = life[k] \/ (life'[k] = Window /\ count[k] # 0)
  <2>1. life \in [Keys -> 0..Window]
    BY DEF RateTypeOK
  <2>2. life' = IF count[k] > 0 THEN [life EXCEPT ![k] = Window] ELSE life
    BY DEF SetExpiry
  <2> QED
    BY <1>1, <2>1, <2>2
<1>3. Counted(k)' = Counted(k)
  BY <1>1 DEF Counted
<1>4. \A n \in 1..(Window - Window + 1) : n = 1
  BY Windows
<1>5. CASE life'[k] = life[k]
  BY <1>1, <1>3, <1>5 DEF WindowInv
<1>6. CASE life'[k] = Window /\ count[k] # 0
  BY <1>1, <1>3, <1>4, <1>6, Windows DEF WindowInv
<1> QED
  BY <1>2, <1>5, <1>6

\* A tick later the stretches are one longer, and a window that ends leaves
\* behind no more than its maximum.
LEMMA TickWindow ==
  ASSUME RateTypeOK, TimePasses, NEW k \in Keys, WindowInv(k)
  PROVE  WindowInv(k)'
<1>1. /\ passed'[k][1] = 0
      /\ \A n \in 1..Window : n # 1 => n - 1 \in 1..Window /\ passed'[k][n] = passed[k][n - 1]
  BY Windows DEF TimePasses, RateTypeOK
<1>2. /\ Counted(k) \in Nat /\ Counted(k) <= MaxOf[k] /\ MaxOf[k] \in Nat
      /\ count[k] \in Nat /\ life[k] \in 0..Window
      /\ \A n \in 1..Window : passed[k][n] \in Nat
  BY CountedType
<1>3. CASE life[k] = 1
  <2>1. count'[k] = 0 /\ life'[k] = NoExpiry
    BY <1>3 DEF TimePasses, Ended, NoExpiry
  <2>2. Counted(k)' = 0
    BY <1>2, <2>1 DEF Counted
  <2>3. \A n \in 1..Window : passed[k][n] <= MaxOf[k]
    <3>1. \A n \in 1..Window : passed[k][n] <= Counted(k)
      BY <1>3, Windows DEF WindowInv, NoExpiry
    <3> QED
      BY <1>2, <3>1
  <2>4. \A n \in 1..Window : passed'[k][n] <= MaxOf[k]
    BY <1>1, <1>2, <2>3
  <2> QED
    BY <1>1, <1>2, <2>1, <2>2, <2>4 DEF WindowInv
<1>4. CASE life[k] # 1
  <2>1. count'[k] = count[k] /\ Counted(k)' = Counted(k)
    BY <1>4 DEF TimePasses, Ended, RateTypeOK, Counted
  <2>2. life'[k] = IF life[k] = NoExpiry THEN NoExpiry ELSE life[k] - 1
    BY DEF TimePasses
  <2>3. \A n \in 1..Window : passed'[k][n] <= MaxOf[k] + Counted(k)
    BY <1>1, <1>2 DEF WindowInv
  <2>4. ASSUME life'[k] # NoExpiry, NEW n \in 1..(Window - life'[k] + 1)
        PROVE  passed'[k][n] <= Counted(k)
    <3>1. life[k] # NoExpiry /\ life'[k] = life[k] - 1 /\ n \in 1..Window
      BY <1>2, <1>4, <2>2, <2>4, Windows DEF NoExpiry
    <3>2. n # 1 => n - 1 \in 1..(Window - life[k] + 1)
      BY <1>2, <2>4, <3>1, Windows
    <3> QED
      BY <1>1, <1>2, <3>1, <3>2 DEF WindowInv
  <2>5. passed'[k][1] <= Counted(k)
    BY <1>1, <1>2
  <2>6. count'[k] = 0 => life'[k] = NoExpiry
    BY <2>1, <2>2 DEF WindowInv
  <2> QED
    BY <2>1, <2>3, <2>4, <2>5, <2>6 DEF WindowInv
<1> QED
  BY <1>3, <1>4

LEMMA StepWindow ==
  ASSUME RateTypeOK, [RateNext]_rateVars, NEW k \in Keys, WindowInv(k)
  PROVE  WindowInv(k)'
<1>1. CASE TimePasses
  BY <1>1, TickWindow
<1>2. ASSUME NEW r \in Arrivals, Incr(r) PROVE WindowInv(k)'
  <2>1. CASE key[r] = k
    BY <1>2, <2>1, IncrWindow
  <2>2. CASE key[r] # k
    <3>1. key[r] \in Keys /\ passed \in [Keys -> [1..Window -> Nat]] /\ count \in [Keys -> Nat]
      BY DEF RateTypeOK
    <3>2. passed'[k] = passed[k]
      BY <1>2, <2>2, <3>1, IncrPassed
    <3>3. count' = [count EXCEPT ![key[r]] = Incremented(key[r])] /\ life' = life
      BY <1>2 DEF Incr
    <3>4. count'[k] = count[k] /\ life'[k] = life[k]
      BY <2>2, <3>1, <3>3
    <3> QED
      BY <3>2, <3>4, WindowSame
  <2> QED
    BY <2>1, <2>2
<1>3. ASSUME NEW r \in Arrivals, SetExpiry(r) PROVE WindowInv(k)'
  <2>1. CASE key[r] = k
    BY <1>3, <2>1, ExpiryWindow
  <2>2. CASE key[r] # k
    <3>1. life \in [Keys -> 0..Window] /\ key[r] \in Keys
      BY DEF RateTypeOK
    <3>2. /\ count' = count /\ passed' = passed
          /\ life' = [life EXCEPT ![key[r]] = Window] \/ life' = life
      BY <1>3 DEF SetExpiry
    <3>3. life'[k] = life[k]
      BY <2>2, <3>1, <3>2
    <3> QED
      BY <3>2, <3>3, WindowSame
  <2> QED
    BY <2>1, <2>2
<1>4. CASE UNCHANGED <<storeVars, passed>>
  BY <1>4, WindowSame DEF storeVars
<1>5. BlockIp \/ UnblockIp \/ UNCHANGED rateVars => UNCHANGED <<storeVars, passed>>
  BY DEF BlockIp, UnblockIp, rateVars, storeVars
<1>6. ASSUME NEW r \in Arrivals, Arrive(r) \/ Refuse(r) \/ Waited(r) \/ Abandon(r)
      PROVE  UNCHANGED <<storeVars, passed>>
  BY <1>6 DEF Arrive, Refuse, Waited, Abandon
<1> QED
  BY <1>1, <1>2, <1>3, <1>4, <1>5, <1>6 DEF RateNext, Limits

\* Deaths, late EXPIREs and lost ones included, an address gets through no more
\* than twice the maximum of a counter in any stretch as long as its window.
THEOREM BurstsAreBounded == RateSpec => []BurstBounded
<1> DEFINE AllWindows == \A k \in Keys : WindowInv(k)
<1>1. ASSUME RateInit PROVE AllWindows
  BY <1>1, Windows DEF RateInit, WindowInv, Counted, NoExpiry
<1>2. ASSUME RateTypeOK, AllWindows, [RateNext]_rateVars PROVE AllWindows'
  BY <1>2, StepWindow
<1>3. ASSUME RateTypeOK, AllWindows PROVE BurstBounded
  <2> SUFFICES ASSUME NEW k \in Keys PROVE passed[k][Window] <= 2 * MaxOf[k]
    BY DEF BurstBounded
  <2>1. Window \in 1..Window
    BY Windows
  <2>2. passed[k][Window] <= MaxOf[k] + Counted(k)
    BY <1>3, <2>1 DEF WindowInv
  <2> QED
    BY <1>3, <2>1, <2>2, CountedType
<1> HIDE DEF AllWindows
<1> QED
  BY <1>1, <1>2, <1>3, RateTypeCorrect, PTL DEF RateSpec

-----------------------------------------------------------------------------
(* RateLimits: the Retry-After.  Only the request that started a window sets *)
(* its expiry, once; so what was left of a window when a request was told    *)
(* runs with it.                                                             *)

\* A request on its way to EXPIRE has the window to itself, and it has none yet.
ExpiryInv(r) ==
  stage[r] = "expire" =>
    /\ count[key[r]] # 0 /\ life[key[r]] = NoExpiry
    /\ \A q \in Arrivals \ {r} : stage[q] = "expire" => key[q] # key[r]

\* What a client still has to wait is what is left of its window.
ToldInv(r) ==
  stage[r] = "throttled" /\ told[r] /\ ~over[r] =>
    life[key[r]] # NoExpiry /\ retry[r] = life[key[r]]

ClockInv ==
  /\ RateTypeOK
  /\ \A k \in Keys : WindowInv(k)
  /\ \A r \in Arrivals : ExpiryInv(r) /\ ToldInv(r)

\* A step that leaves the keys alone, and whose only new place is a harmless one.
LEMMA QuietClock ==
  ASSUME ClockInv, NEW r \in Arrivals, UNCHANGED <<count, life, retry>>,
         \A q \in Arrivals \ {r} : /\ stage'[q] = stage[q] /\ key'[q] = key[q]
                                    /\ over'[q] = over[q] /\ told'[q] = told[q],
         stage'[r] \notin {"expire", "throttled"}
  PROVE  \A q \in Arrivals : ExpiryInv(q)' /\ ToldInv(q)'
<1> SUFFICES ASSUME NEW q \in Arrivals PROVE ExpiryInv(q)' /\ ToldInv(q)'
  OBVIOUS
<1>1. CASE q = r
  BY <1>1 DEF ExpiryInv, ToldInv
<1>2. CASE q # r
  <2>1. /\ ExpiryInv(q) /\ ToldInv(q) /\ stage'[q] = stage[q] /\ key'[q] = key[q]
        /\ over'[q] = over[q] /\ told'[q] = told[q]
    BY <1>2 DEF ClockInv
  <2>2. \A p \in Arrivals : stage'[p] = "expire" => stage[p] = "expire" /\ key'[p] = key[p]
    OBVIOUS
  <2>3. ExpiryInv(q)'
    BY <1>2, <2>1, <2>2 DEF ExpiryInv, NoExpiry
  <2>4. ToldInv(q)'
    BY <2>1 DEF ToldInv, NoExpiry
  <2> QED
    BY <2>3, <2>4
<1> QED
  BY <1>1, <1>2

\* The first of a window is alone: a key that has been counted on is not 0.
LEMMA IncrClock ==
  ASSUME ClockInv, NEW r \in Arrivals, Incr(r)
  PROVE  \A q \in Arrivals : ExpiryInv(q)' /\ ToldInv(q)'
<1> DEFINE k == key[r]
<1>1. /\ RateTypeOK /\ k \in Keys /\ count \in [Keys -> Nat] /\ WindowInv(k)
      /\ key \in [Arrivals -> Keys] /\ stage \in [Arrivals -> Stages] /\ over \in [Arrivals -> BOOLEAN]
  BY DEF ClockInv, RateTypeOK
<1>2. /\ count' = [count EXCEPT ![k] = Incremented(k)]
      /\ over' = [over EXCEPT ![r] = FALSE]
      /\ UNCHANGED <<life, told, retry>>
      /\ stage[r] = "incr"
  BY DEF Incr
<1>3. Incremented(k) # 0 /\ (StartsWindow(k) => count[k] = 0)
  BY <1>1, IncrStore
<1>4. \A j \in Keys : count[j] # 0 => count'[j] # 0
  BY <1>1, <1>2, <1>3
<1>5. \A q \in Arrivals \ {r} : stage'[q] = stage[q] /\ key'[q] = key[q] /\ over'[q] = over[q]
  <2>1. Onward(r) => \A q \in Arrivals \ {r} : stage'[q] = stage[q] /\ key'[q] = key[q]
    BY <1>1 DEF Onward, Advance
  <2>2. Onward(r) \/ (key' = key /\ \E s \in {"expire", "ttl"} : stage' = [stage EXCEPT ![r] = s])
    BY DEF Incr, Advance
  <2> QED
    BY <1>1, <1>2, <2>1, <2>2
<1>6. CASE StartsWindow(k)
  <2>1. stage'[r] = "expire" /\ key' = key
    BY <1>1, <1>6 DEF Incr, Advance
  <2>2. count[k] = 0 /\ life[k] = NoExpiry /\ count'[k] # 0
    BY <1>1, <1>2, <1>3, <1>6 DEF WindowInv
  <2>3. ASSUME NEW q \in Arrivals \ {r}, stage[q] = "expire" PROVE key[q] # k
    BY <2>2, <2>3 DEF ClockInv, ExpiryInv
  <2>4. ExpiryInv(r)' /\ ToldInv(r)'
    BY <1>2, <1>5, <2>1, <2>2, <2>3 DEF ExpiryInv, ToldInv, NoExpiry
  <2>5. ASSUME NEW q \in Arrivals \ {r} PROVE ExpiryInv(q)' /\ ToldInv(q)'
    <3>1. ExpiryInv(q) /\ ToldInv(q) /\ key[q] \in Keys
      BY <1>1 DEF ClockInv
    <3>2. ExpiryInv(q)'
      BY <1>2, <1>4, <1>5, <2>1, <2>3, <3>1 DEF ExpiryInv, NoExpiry
    <3>3. ToldInv(q)'
      BY <1>2, <1>5, <2>1, <3>1 DEF ToldInv, NoExpiry
    <3> QED
      BY <3>2, <3>3
  <2> QED
    BY <2>4, <2>5
<1>7. CASE ~StartsWindow(k)
  <2>1. stage'[r] \in {"idle", "incr", "ttl"}
    <3>1. stage' = [stage EXCEPT ![r] = "ttl"] \/ Onward(r)
      BY <1>7 DEF Incr, Advance
    <3> QED
      BY <1>1, <3>1 DEF Onward, Advance
  <2>2. ASSUME NEW q \in Arrivals PROVE ExpiryInv(q)' /\ ToldInv(q)'
    <3>1. CASE q = r
      BY <2>1, <3>1 DEF ExpiryInv, ToldInv
    <3>2. CASE q # r
      <4>1. ExpiryInv(q) /\ ToldInv(q) /\ key[q] \in Keys
        BY <1>1 DEF ClockInv
      <4>2. ExpiryInv(q)'
        BY <1>2, <1>4, <1>5, <2>1, <3>2, <4>1 DEF ExpiryInv, NoExpiry
      <4>3. ToldInv(q)'
        BY <1>2, <1>5, <3>2, <4>1 DEF ToldInv, NoExpiry
      <4> QED
        BY <4>2, <4>3
    <3> QED
      BY <3>1, <3>2
  <2> QED
    BY <2>2
<1> QED
  BY <1>6, <1>7

\* An EXPIRE sets the life of a window no client was told of.
LEMMA ExpiryClock ==
  ASSUME ClockInv, NEW r \in Arrivals, SetExpiry(r)
  PROVE  \A q \in Arrivals : ExpiryInv(q)' /\ ToldInv(q)'
<1> DEFINE k == key[r]
<1>1. /\ RateTypeOK /\ k \in Keys /\ life \in [Keys -> 0..Window]
      /\ key \in [Arrivals -> Keys] /\ stage \in [Arrivals -> Stages]
  BY DEF ClockInv, RateTypeOK
<1>2. /\ life' = [life EXCEPT ![k] = Window] \/ life' = life
      /\ UNCHANGED <<count, told, retry, over>>
      /\ stage[r] = "expire"
  BY DEF SetExpiry
<1>3. \A q \in Arrivals \ {r} : stage'[q] = stage[q] /\ key'[q] = key[q]
  BY <1>1 DEF SetExpiry, Onward, Advance
<1>4. stage'[r] \in {"idle", "incr"}
  BY <1>1 DEF SetExpiry, Onward, Advance
<1>5. life[k] = NoExpiry /\ \A q \in Arrivals \ {r} : stage[q] = "expire" => key[q] # k
  BY <1>2 DEF ClockInv, ExpiryInv
<1>6. \A j \in Keys \ {k} : life'[j] = life[j]
  BY <1>1, <1>2
<1> SUFFICES ASSUME NEW q \in Arrivals PROVE ExpiryInv(q)' /\ ToldInv(q)'
  OBVIOUS
<1>7. CASE q = r
  BY <1>4, <1>7 DEF ExpiryInv, ToldInv
<1>8. CASE q # r
  <2>1. ExpiryInv(q) /\ ToldInv(q) /\ key[q] \in Keys
    BY <1>1 DEF ClockInv
  <2>2. ExpiryInv(q)'
    BY <1>2, <1>3, <1>4, <1>5, <1>6, <1>8, <2>1 DEF ExpiryInv, NoExpiry
  <2>3. ToldInv(q)'
    BY <1>2, <1>3, <1>5, <1>6, <1>8, <2>1 DEF ToldInv, NoExpiry
  <2> QED
    BY <2>2, <2>3
<1> QED
  BY <1>7, <1>8

\* What a refused request is told is the life of its key.
LEMMA RefuseClock ==
  ASSUME ClockInv, NEW r \in Arrivals, Refuse(r)
  PROVE  \A q \in Arrivals : ExpiryInv(q)' /\ ToldInv(q)'
<1> DEFINE k == key[r]
<1>1. /\ key \in [Arrivals -> Keys] /\ stage \in [Arrivals -> Stages] /\ life[k] \in 0..Window
      /\ told \in [Arrivals -> BOOLEAN] /\ retry \in [Arrivals -> 0..Window]
  BY DEF ClockInv, RateTypeOK
<1>2. /\ UNCHANGED <<count, life, key, over>>
      /\ retry' = [retry EXCEPT ![r] = RetryAfter(k)]
      /\ told' = [told EXCEPT ![r] = TtlReply(k) > 0]
      /\ stage' = [stage EXCEPT ![r] = "throttled"]
  BY DEF Refuse, Advance, storeVars
<1>3. TtlReply(k) > 0 => life[k] # NoExpiry /\ RetryAfter(k) = life[k]
  BY <1>1 DEF TtlReply, RetryAfter, NoExpiry
<1> SUFFICES ASSUME NEW q \in Arrivals PROVE ExpiryInv(q)' /\ ToldInv(q)'
  OBVIOUS
<1>4. stage'[r] = "throttled" /\ told'[r] = (TtlReply(k) > 0) /\ retry'[r] = RetryAfter(k)
  BY <1>1, <1>2
<1>5. CASE q = r
  <2>1. ExpiryInv(r)'
    BY <1>4 DEF ExpiryInv
  <2>2. ToldInv(r)'
    BY <1>2, <1>3, <1>4 DEF ToldInv, NoExpiry
  <2> QED
    BY <1>5, <2>1, <2>2
<1>6. CASE q # r
  <2>1. /\ ExpiryInv(q) /\ ToldInv(q)
        /\ stage'[q] = stage[q] /\ retry'[q] = retry[q] /\ told'[q] = told[q]
    BY <1>1, <1>2, <1>6 DEF ClockInv
  <2>2. \A p \in Arrivals : stage'[p] = "expire" => stage[p] = "expire"
    BY <1>1, <1>2
  <2>3. ExpiryInv(q)'
    BY <1>2, <2>1, <2>2 DEF ExpiryInv, NoExpiry
  <2>4. ToldInv(q)'
    BY <1>2, <2>1 DEF ToldInv, NoExpiry
  <2> QED
    BY <2>3, <2>4
<1> QED
  BY <1>5, <1>6

\* A tick takes one from both, unless it ends the window.
LEMMA TickClock ==
  ASSUME ClockInv, TimePasses
  PROVE  \A q \in Arrivals : ExpiryInv(q)' /\ ToldInv(q)'
<1> SUFFICES ASSUME NEW q \in Arrivals PROVE ExpiryInv(q)' /\ ToldInv(q)'
  OBVIOUS
<1> DEFINE k == key[q]
<1>1. /\ ExpiryInv(q) /\ ToldInv(q) /\ k \in Keys /\ life[k] \in 0..Window /\ retry[q] \in 0..Window
      /\ Window \in Nat
  BY Windows DEF ClockInv, RateTypeOK
<1>2. /\ life'[k] = IF life[k] = NoExpiry THEN NoExpiry ELSE life[k] - 1
      /\ count'[k] = IF life[k] = 1 THEN 0 ELSE count[k]
      /\ retry'[q] = IF retry[q] = 0 THEN 0 ELSE retry[q] - 1
      /\ over'[q] = (over[q] \/ (stage[q] \in {"ttl", "throttled"} /\ life[k] = 1))
      /\ stage' = stage /\ key' = key /\ told' = told
  BY <1>1 DEF TimePasses, Ended
<1>3. ExpiryInv(q)'
  BY <1>1, <1>2 DEF ExpiryInv, NoExpiry
<1>4. ASSUME stage[q] = "throttled", told[q], ~over'[q]
      PROVE  life'[k] # NoExpiry /\ retry'[q] = life'[k]
  <2>1. ~over[q] /\ life[k] # 1
    BY <1>2, <1>4
  <2>2. life[k] # NoExpiry /\ retry[q] = life[k]
    BY <1>1, <1>4, <2>1 DEF ToldInv
  <2> QED
    BY <1>1, <1>2, <2>1, <2>2 DEF NoExpiry
<1>5. ToldInv(q)'
  BY <1>2, <1>4 DEF ToldInv, NoExpiry
<1> QED
  BY <1>3, <1>5

LEMMA StepClock == ASSUME ClockInv, [RateNext]_rateVars PROVE ClockInv'
<1>1. RateTypeOK' /\ \A k \in Keys : WindowInv(k)'
  BY StepRateTypes, StepWindow DEF ClockInv
<1> SUFFICES \A q \in Arrivals : ExpiryInv(q)' /\ ToldInv(q)'
  BY <1>1 DEF ClockInv
<1>2. CASE UNCHANGED <<count, life, requestVars>>
  BY <1>2 DEF requestVars, ClockInv, ExpiryInv, ToldInv, NoExpiry
<1>3. BlockIp \/ UnblockIp \/ UNCHANGED rateVars => UNCHANGED <<count, life, requestVars>>
  BY DEF BlockIp, UnblockIp, rateVars, storeVars
<1>4. ASSUME NEW r \in Arrivals, Arrive(r) \/ Waited(r) \/ Abandon(r)
      PROVE  \A q \in Arrivals : ExpiryInv(q)' /\ ToldInv(q)'
  <2>1. /\ stage \in [Arrivals -> Stages] /\ key \in [Arrivals -> Keys]
        /\ over \in [Arrivals -> BOOLEAN] /\ told \in [Arrivals -> BOOLEAN]
    BY DEF ClockInv, RateTypeOK
  <2>2. /\ UNCHANGED <<count, life, retry>>
        /\ \A q \in Arrivals \ {r} : /\ stage'[q] = stage[q] /\ key'[q] = key[q]
                                     /\ over'[q] = over[q] /\ told'[q] = told[q]
        /\ stage'[r] \notin {"expire", "throttled"}
    BY <1>4, <2>1 DEF Arrive, Waited, Abandon, Advance, storeVars
  <2> QED
    BY <2>2, QuietClock
<1> QED
  BY <1>2, <1>3, <1>4, IncrClock, ExpiryClock, RefuseClock, TickClock DEF RateNext, Limits

\* A client that waited out a Retry-After finds that window over, whatever was
\* counted, refused or set late meanwhile.
THEOREM RetryAfterIsHonest == RateSpec => []RetryAfterHonest
<1>1. ASSUME RateInit PROVE ClockInv
  <2>1. RateTypeOK
    BY <1>1, Windows DEF RateInit, RateTypeOK, NoExpiry, Stages, Keys
  <2>2. \A k \in Keys : WindowInv(k)
    BY <1>1, Windows DEF RateInit, WindowInv, Counted, NoExpiry
  <2>3. \A r \in Arrivals : ExpiryInv(r) /\ ToldInv(r)
    BY <1>1 DEF RateInit, ExpiryInv, ToldInv
  <2> QED
    BY <2>1, <2>2, <2>3 DEF ClockInv
<1>2. ClockInv => RetryAfterHonest
  BY DEF ClockInv, ToldInv, RetryAfterHonest, NoExpiry
<1> QED
  BY <1>1, <1>2, StepClock, PTL DEF RateSpec

-----------------------------------------------------------------------------
(* TokenQuota. *)

USE CallersAssumption, DayAssumption, CostAssumption

-----------------------------------------------------------------------------
(* Types. *)

TaskTypes ==
  /\ attempt \in [Jobs -> 0..MaxRetries]
  /\ left \in [Ingests -> 0..Chunks]
  /\ paid \in [Jobs -> Nat]

PlaceTypes == at \in [Callers -> Places] /\ today \subseteq Callers

KeyTypes ==
  /\ used \in Nat /\ ttl \in 0..TTL /\ charged \in Nat
  /\ hour \in 0..(DayLen - 1)

LEMMA TypeParts ==
  /\ QuotaTypeOK <=> TaskTypes /\ PlaceTypes /\ KeyTypes
  /\ QuotaTypeOK' <=> TaskTypes' /\ PlaceTypes' /\ KeyTypes'
BY DEF QuotaTypeOK, TaskTypes, PlaceTypes, KeyTypes

\* An hour later it is the next hour or the next day.
LEMMA NextHour ==
  ASSUME NEW h \in 0..(DayLen - 1)
  PROVE  (h + 1) % DayLen = IF h + 1 = DayLen THEN 0 ELSE h + 1
<1>1. CASE h + 1 = DayLen
  <2>1. DayLen % DayLen = 0
    OBVIOUS
  <2> QED
    BY <1>1, <2>1
<1>2. CASE h + 1 < DayLen
  <2>1. (h + 1) % DayLen = h + 1
    BY <1>2
  <2> QED
    BY <1>2, <2>1
<1> QED
  BY <1>1, <1>2

\* A caller that ends, or goes on.
LEMMA EndTypes ==
  ASSUME TaskTypes, NEW c \in Callers, End(c)
  PROVE  TaskTypes' /\ at' = [at EXCEPT ![c] = "idle"]
BY DEF TaskTypes, End, Goto

\* What a job has behind it, by where it is.  Only a job waits, and a job that
\* waits has a retry left; it is charged on its way to store its answer.
JobsInv ==
  \A j \in Jobs :
    /\ at[j] = "waiting" => attempt[j] < MaxRetries
    /\ at[j] \notin {"expire", "store"} => paid[j] = 0
    /\ paid[j] <= 1

USE DEF Continue, Goto, keyVars, taskVars, Places

LEMMA InitTypes == Init => QuotaTypeOK /\ JobsInv
BY DEF Init, QuotaTypeOK, JobsInv, Never, Callers

LEMMA StepTypes == ASSUME QuotaTypeOK, JobsInv, [Next]_vars PROVE QuotaTypeOK'
<1> USE TypeParts
<1>0. Jobs \subseteq Callers /\ Ingests \subseteq Callers /\ Requests \subseteq Callers
  BY DEF Callers
<1>1. ASSUME NEW r \in Requests, Ask(r) PROVE QuotaTypeOK'
  BY <1>0, <1>1 DEF Ask, TaskTypes, PlaceTypes, KeyTypes
<1>2. ASSUME NEW j \in Jobs, StartJob(j) PROVE QuotaTypeOK'
  BY <1>0, <1>2 DEF StartJob, TaskTypes, PlaceTypes, KeyTypes
<1>3. ASSUME NEW i \in Ingests, StartIngest(i) PROVE QuotaTypeOK'
  BY <1>0, <1>3 DEF StartIngest, TaskTypes, PlaceTypes, KeyTypes
<1>4. ASSUME NEW c \in Callers, CheckQuota(c) PROVE QuotaTypeOK'
  BY <1>4, EndTypes DEF CheckQuota, TaskTypes, PlaceTypes, KeyTypes
<1>5. ASSUME NEW c \in Callers, Answered(c) PROVE QuotaTypeOK'
  BY <1>5 DEF Answered, TaskTypes, PlaceTypes, KeyTypes
<1>6. ASSUME NEW c \in Callers, CallFails(c) PROVE QuotaTypeOK'
  BY <1>6, EndTypes DEF CallFails, TaskTypes, PlaceTypes, KeyTypes
<1>7. ASSUME NEW j \in Jobs, RetryJob(j) PROVE QuotaTypeOK'
  BY <1>0, <1>7 DEF RetryJob, JobsInv, TaskTypes, PlaceTypes, KeyTypes
<1>8. ASSUME NEW c \in Callers, Record(c) PROVE QuotaTypeOK'
  BY <1>8 DEF Record, TaskTypes, PlaceTypes, KeyTypes
<1>9. ASSUME NEW c \in Callers, Expire(c) PROVE QuotaTypeOK'
  BY <1>9 DEF Expire, KeyTTL, TaskTypes, PlaceTypes, KeyTypes
<1>10. ASSUME NEW c \in Callers, Store(c) PROVE QuotaTypeOK'
  BY <1>10, EndTypes DEF Store, Afterwards, TaskTypes, PlaceTypes, KeyTypes
<1>11. ASSUME NEW c \in Callers, Die(c) PROVE QuotaTypeOK'
  BY <1>11, EndTypes DEF Die, TaskTypes, PlaceTypes, KeyTypes
<1>12. CASE Tick
  BY <1>12, NextHour DEF Tick, Never, TaskTypes, PlaceTypes, KeyTypes
<1>13. CASE UNCHANGED vars
  BY <1>13 DEF vars, TaskTypes, PlaceTypes, KeyTypes
<1> QED
  BY <1>1, <1>2, <1>3, <1>4, <1>5, <1>6, <1>7, <1>8, <1>9, <1>10, <1>11, <1>12,
     <1>13 DEF Next, Calls, Charges

LEMMA StepJobs == ASSUME QuotaTypeOK, JobsInv, [Next]_vars PROVE JobsInv'
<1> USE DEF QuotaTypeOK, JobsInv
<1>0. Jobs \subseteq Callers /\ Ingests \subseteq Callers /\ Requests \subseteq Callers
  BY DEF Callers
<1>1. ASSUME NEW c \in Callers, End(c) PROVE JobsInv'
  BY <1>0, <1>1 DEF End
<1>2. ASSUME NEW c \in Callers, NEW place \in {"check", "call", "record"},
             at[c] \in {"idle", "check", "call", "waiting"},
             Goto(c, place), UNCHANGED paid,
             \A j \in Jobs \ {c} : attempt'[j] = attempt[j]
      PROVE  JobsInv'
  BY <1>0, <1>2
<1>3. ASSUME NEW c \in Callers, CallFails(c) PROVE JobsInv'
  BY <1>0, <1>1, <1>3 DEF CallFails, MayRetry
<1>4. ASSUME NEW j \in Jobs, RetryJob(j) PROVE JobsInv'
  BY <1>0, <1>2, <1>4 DEF RetryJob
<1>5. ASSUME NEW c \in Callers, Record(c) PROVE JobsInv'
  <2>1. c \in Jobs => paid[c] = 0
    BY <1>5 DEF Record
  <2>2. \E place \in {"expire", "store"} : Goto(c, place)
    BY <1>5 DEF Record
  <2> QED
    BY <1>0, <1>5, <2>1, <2>2 DEF Record
<1>6. ASSUME NEW c \in Callers, Expire(c) PROVE JobsInv'
  BY <1>0, <1>6 DEF Expire
<1>7. ASSUME NEW c \in Callers, Store(c) PROVE JobsInv'
  BY <1>0, <1>1, <1>7 DEF Store, Afterwards
<1>8. ASSUME NEW c \in Callers, Die(c) PROVE JobsInv'
  BY <1>1, <1>8 DEF Die
<1>9. CASE Tick
  BY <1>9 DEF Tick
<1>10. ASSUME NEW c \in Callers, CheckQuota(c) \/ Answered(c) PROVE JobsInv'
  BY <1>1, <1>2, <1>10 DEF CheckQuota, Answered
<1>11. ASSUME NEW c \in Callers, Ask(c) \/ StartJob(c) \/ StartIngest(c) PROVE JobsInv'
  BY <1>2, <1>11 DEF Ask, StartJob, StartIngest
<1>12. CASE UNCHANGED vars
  BY <1>12 DEF vars
<1> QED
  BY <1>0, <1>3, <1>4, <1>5, <1>6, <1>7, <1>8, <1>9, <1>10, <1>11, <1>12
  DEF Next, Calls, Charges

LEMMA Placed == Spec => [](QuotaTypeOK /\ JobsInv)
BY InitTypes, StepTypes, StepJobs, PTL DEF Spec

\* The model's data stay within their types: in particular no job is retried
\* more often than Celery is told.
THEOREM TypeCorrect == Spec => []QuotaTypeOK
BY Placed, PTL

\* However often Celery runs a job again, its user pays for one answer: a job is
\* only retried from before its charge.
THEOREM OnePayment == Spec => []JobPaidOnce
<1>1. JobsInv => JobPaidOnce
  BY DEF JobsInv, JobPaidOnce
<1> QED
  BY <1>1, Placed, PTL

-----------------------------------------------------------------------------
(* The key outlives its day. *)

\* A key that will expire was given, today, more than a day to live.
KeyLives == used = charged /\ (ttl # Never => ttl + hour >= DayLen)

LEMMA StepKey == ASSUME QuotaTypeOK, KeyLives, [Next]_vars PROVE KeyLives'
<1> USE DEF QuotaTypeOK, KeyLives, Never
<1>1. CASE Tick
  <2>1. CASE hour' = 0
    BY <1>1, <2>1 DEF Tick
  <2>2. CASE hour' # 0
    <3>1. hour' = hour + 1 /\ hour + 1 < DayLen
      BY <1>1, <2>2, NextHour DEF Tick
    <3> QED
      BY <1>1, <2>2, <3>1 DEF Tick
  <2> QED
    BY <2>1, <2>2
<1>2. ASSUME NEW c \in Callers, Record(c) PROVE KeyLives'
  BY <1>2 DEF Record
<1>3. ASSUME NEW c \in Callers, Expire(c) PROVE KeyLives'
  BY <1>3 DEF Expire, KeyTTL
<1>4. CASE UNCHANGED <<keyVars, hour>>
  BY <1>4
<1> QED
  BY <1>1, <1>2, <1>3, <1>4
  DEF Next, Ask, StartJob, StartIngest, RetryJob, Calls, CheckQuota, Answered,
      CallFails, Charges, Store, Die, vars

\* What was recorded today still counts, whenever the key was first written
\* and whoever died before the EXPIRE: 25 hours are more than a day.
THEOREM UsageCounts == Spec => []UsageKept
<1>1. Init => KeyLives
  BY DEF Init, KeyLives, Never
<1>2. KeyLives => UsageKept
  BY DEF KeyLives, UsageKept
<1> QED
  BY <1>1, <1>2, TypeCorrect, StepKey, PTL DEF Spec

-----------------------------------------------------------------------------
(* The limit. *)

LEMMA Counting ==
  /\ IsFiniteSet(InFlight) /\ Cardinality(InFlight) \in Nat
  /\ Cardinality(Callers) \in Nat
  /\ Cardinality(InFlight) <= Cardinality(Callers)
BY FS_Subset, FS_CardinalityType DEF InFlight

LEMMA TimesMore ==
  ASSUME NEW m \in Nat, NEW a \in Nat, NEW b \in Nat, a <= b
  PROVE  m * a <= m * b /\ m * a \in Nat /\ m * b \in Nat
OBVIOUS

LEMMA TimesLess ==
  ASSUME NEW m \in Nat, NEW a \in Nat \ {0}
  PROVE  m * (a - 1) = m * a - m
OBVIOUS

\* What those in flight may still cost, on top of what is used.
Exposure == used + MaxCost * Cardinality(InFlight)
Bound == (Limit - 1) + MaxCost * Cardinality(Callers)

LEMMA StepOvershoot ==
  ASSUME QuotaTypeOK, QuotaTypeOK', OvershootBounded, [Next]_vars
  PROVE  OvershootBounded'
<1> USE DEF QuotaTypeOK, OvershootBounded
<1>1. /\ IsFiniteSet(InFlight') /\ Cardinality(InFlight') \in Nat
      /\ Cardinality(InFlight') <= Cardinality(Callers)
  BY FS_Subset, FS_CardinalityType DEF InFlight
<1>2. ASSUME InFlight' \subseteq InFlight, used' <= used PROVE OvershootBounded'
  <2>1. Cardinality(InFlight') <= Cardinality(InFlight)
    BY <1>2, Counting, FS_Subset
  <2>2. MaxCost * Cardinality(InFlight') <= MaxCost * Cardinality(InFlight)
    BY <1>1, <2>1, Counting, TimesMore
  <2> QED
    BY <1>1, <1>2, <2>2, Counting, TimesMore
<1>3. CASE used' < Limit
  BY <1>3
<1>4. ASSUME NEW c \in Callers, Record(c) PROVE OvershootBounded'
  <2>1. PICK cost \in 0..MaxCost : used' = used + cost
    BY <1>4 DEF Record
  <2>2. c \in InFlight /\ InFlight' = InFlight \ {c}
    BY <1>4 DEF Record, InFlight
  <2>3. /\ Cardinality(InFlight') = Cardinality(InFlight) - 1
        /\ Cardinality(InFlight) \in Nat \ {0}
    BY <2>2, Counting, FS_RemoveElement, FS_EmptySet
  <2>4. MaxCost * Cardinality(InFlight') = MaxCost * Cardinality(InFlight) - MaxCost
    BY <2>3, TimesLess
  <2>5. MaxCost * Cardinality(InFlight) <= MaxCost * Cardinality(Callers)
    BY Counting, TimesMore
  <2> QED
    BY <2>1, <2>4, <2>5, Counting, TimesMore
<1>5. ASSUME NEW c \in Callers, CheckQuota(c) PROVE OvershootBounded'
  <2>1. CASE used < Limit
    BY <1>3, <1>5, <2>1 DEF CheckQuota
  <2>2. CASE used >= Limit
    <3>1. End(c) /\ used' = used
      BY <1>5, <2>2 DEF CheckQuota, MayCall
    <3>2. InFlight' \subseteq InFlight
      BY <3>1 DEF End, InFlight
    <3> QED
      BY <1>2, <3>1, <3>2
  <2> QED
    BY <2>1, <2>2
<1>6. ASSUME NEW c \in Callers,
             Ask(c) \/ StartJob(c) \/ StartIngest(c) \/ RetryJob(c) \/ Answered(c)
               \/ CallFails(c) \/ Expire(c) \/ Store(c) \/ Die(c)
      PROVE  OvershootBounded'
  <2>1. UNCHANGED used
    BY <1>6 DEF Ask, StartJob, StartIngest, RetryJob, Answered, CallFails,
                Expire, Store, Die
  <2>2. InFlight' \subseteq InFlight
    BY <1>6 DEF Ask, StartJob, StartIngest, RetryJob, Answered, CallFails,
                Expire, Store, Afterwards, Die, End, InFlight
  <2> QED
    BY <1>2, <2>1, <2>2
<1>7. CASE Tick
  BY <1>2, <1>7 DEF Tick, InFlight
<1>8. CASE UNCHANGED vars
  BY <1>2, <1>8 DEF vars, InFlight
<1> QED
  BY <1>4, <1>5, <1>6, <1>7, <1>8 DEF Next, Calls, Charges, Callers

\* A user exceeds the limit of a day by no more than what as many calls as can
\* run at a time cost.
THEOREM OvershootIsBounded == Spec => []OvershootBounded
<1>1. Init => OvershootBounded
  BY DEF Init, OvershootBounded
<1> QED
  BY <1>1, TypeCorrect, StepOvershoot, PTL DEF Spec
=============================================================================
