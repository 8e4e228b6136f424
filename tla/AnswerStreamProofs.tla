-------------------------- MODULE AnswerStreamProofs --------------------------
(***************************************************************************)
(* Proofs about AnswerStream, for any calls, attempts, upstreams, length   *)
(* of an answer and threshold.                                             *)
(***************************************************************************)
EXTENDS AnswerStream, TLAPS

LEMMA Counts ==
  /\ Attempts \in Nat \ {0} /\ Upstreams \in Nat \ {0}
  /\ Tokens \in Nat \ {0} /\ Threshold \in Nat \ {0}
BY CountsAssumption

-----------------------------------------------------------------------------
(* What travels on a wire. *)

LEMMA TokenPiece ==
  ASSUME NEW t \in Token
  PROVE  /\ [mark |-> "token", token |-> t] \in Piece
         /\ [mark |-> "token", token |-> t].mark = "token"
         /\ [mark |-> "token", token |-> t].token = t
BY DEF Piece

LEMMA MarkPiece ==
  ASSUME NEW k \in Mark
  PROVE  [mark |-> k] \in Piece /\ [mark |-> k].mark = k
BY DEF Piece

LEMMA PieceToken ==
  ASSUME NEW p \in Piece, p.mark = "token"
  PROVE  p.token \in Token
BY DEF Piece, Mark

-----------------------------------------------------------------------------
(* Types. *)

\* The breaker's part of the types, whatever it is told.
BreakerTypeOK ==
  /\ failures \in 0..Threshold
  /\ opened \in BOOLEAN /\ cooled \in BOOLEAN
  /\ log \in Seq({"success", "failure"})

LEMMA BreakerTypes ==
  ASSUME BreakerTypeOK, OnSuccess \/ OnFailure \/ UNCHANGED breakerVars
  PROVE  BreakerTypeOK'
<1> USE Counts DEF BreakerTypeOK
<1>1. CASE OnSuccess
  <2>1. failures' \in 0..Threshold
    BY <1>1 DEF OnSuccess
  <2>2. opened' \in BOOLEAN /\ cooled' \in BOOLEAN
    BY <1>1, Zenon DEF OnSuccess
  <2>3. log' \in Seq({"success", "failure"})
    BY <1>1 DEF OnSuccess
  <2> QED
    BY <2>1, <2>2, <2>3
<1>2. CASE OnFailure
  <2>1. failures' \in 0..Threshold
    BY <1>2 DEF OnFailure
  <2>2. opened' \in BOOLEAN /\ cooled' \in BOOLEAN
    BY <1>2, Zenon DEF OnFailure
  <2>3. log' \in Seq({"success", "failure"})
    BY <1>2 DEF OnFailure
  <2> QED
    BY <2>1, <2>2, <2>3
<1>3. CASE UNCHANGED breakerVars
  BY <1>3 DEF breakerVars
<1> QED
  BY <1>1, <1>2, <1>3

\* The calls' part: an attempt is never beyond the last.
CallTypeOK ==
  /\ pc \in [Calls -> CallPC]
  /\ attempt \in [Calls -> 0..Attempts]
  /\ \A c \in Calls : /\ pc[c] = "idle" => attempt[c] = 0
                      /\ pc[c] = "open" => attempt[c] >= 1
                      /\ pc[c] = "backoff" => attempt[c] \in 1..(Attempts - 1)

\* The streams' part.
StreamTypeOK ==
  /\ relay \in [Streams -> {"off", "try", "stream"}]
  /\ up \in [Streams -> 1..Upstreams]
  /\ sent \in [Streams -> 0..Tokens]
  /\ wire \in [Streams -> Seq(Piece)]
  /\ got \in [Streams -> Seq(Token)]
  /\ cut \subseteq Streams

\* A relay works only for a call that waits for it.
RelayCalled == \A c \in Streams : relay[c] # "off" => pc[c] = "open"

LEMMA TypeParts ==
  TypeOK <=> CallTypeOK /\ StreamTypeOK /\ RelayCalled /\ BreakerTypeOK
BY DEF TypeOK, CallTypeOK, StreamTypeOK, RelayCalled, BreakerTypeOK

LEMMA BreakerTold ==
  ASSUME [Next]_vars
  PROVE  \/ OnSuccess \/ OnFailure \/ UNCHANGED breakerVars
         \/ CoolDown
<1>1. ASSUME NEW c \in Streams, ClientStep(c)
      PROVE  OnSuccess \/ OnFailure \/ UNCHANGED breakerVars
  BY <1>1
  DEF ClientStep, StartStream, RetryStream, ReadToken, ReadError, ReadJunk,
      ReadDone, Drop, Leave
<1>2. ASSUME NEW c \in Streams, RelayStep(c) PROVE UNCHANGED breakerVars
  BY <1>2
  DEF RelayStep, UpstreamAccepts, UpstreamRejects, RelayToken, RelayDone,
      UpstreamEnds, UpstreamLost
<1>3. ASSUME NEW c \in Plains, PlainStep(c)
      PROVE  OnSuccess \/ OnFailure \/ UNCHANGED breakerVars
  BY <1>3
  DEF PlainStep, StartPlain, PlainAnswered, PlainRetries, PlainFails,
      PlainCancelled
<1>4. CASE UNCHANGED vars
  BY <1>4 DEF vars
<1> QED
  BY <1>1, <1>2, <1>3, <1>4 DEF Next

LEMMA StepBreakerType == BreakerTypeOK /\ [Next]_vars => BreakerTypeOK'
<1> SUFFICES ASSUME BreakerTypeOK, [Next]_vars PROVE BreakerTypeOK'
  OBVIOUS
<1>1. CASE CoolDown
  BY <1>1 DEF CoolDown, BreakerTypeOK
<1>2. CASE OnSuccess \/ OnFailure \/ UNCHANGED breakerVars
  BY <1>2, BreakerTypes
<1> QED
  BY <1>1, <1>2, BreakerTold

LEMMA StepCallType == CallTypeOK /\ [Next]_vars => CallTypeOK'
<1> SUFFICES ASSUME CallTypeOK, [Next]_vars PROVE CallTypeOK'
  OBVIOUS
<1> USE Counts DEF CallTypeOK, CallPC, Ends, Calls, Goto
<1>1. ASSUME NEW c \in Streams, StartStream(c) PROVE CallTypeOK'
  BY <1>1 DEF StartStream, Open
<1>2. ASSUME NEW c \in Streams, RetryStream(c) PROVE CallTypeOK'
  BY <1>2 DEF RetryStream, Open
<1>3. ASSUME NEW c \in Streams, Drop(c) PROVE CallTypeOK'
  BY <1>3 DEF Drop
<1>4. ASSUME NEW c \in Streams,
             \/ ReadToken(c) \/ ReadError(c) \/ ReadJunk(c) \/ ReadDone(c)
             \/ Leave(c)
      PROVE  CallTypeOK'
  BY <1>4 DEF ReadToken, ReadError, ReadJunk, ReadDone, Leave
<1>5. ASSUME NEW c \in Streams, RelayStep(c) PROVE CallTypeOK'
  BY <1>5
  DEF RelayStep, UpstreamAccepts, UpstreamRejects, RelayToken, RelayDone,
      UpstreamEnds, UpstreamLost
<1>6. ASSUME NEW c \in Plains, PlainStep(c) PROVE CallTypeOK'
  BY <1>6
  DEF PlainStep, StartPlain, PlainAnswered, PlainRetries, PlainFails,
      PlainCancelled
<1>7. CASE CoolDown \/ UNCHANGED vars
  BY <1>7 DEF CoolDown, vars
<1> QED
  BY <1>1, <1>2, <1>3, <1>4, <1>5, <1>6, <1>7 DEF Next, ClientStep

\* What a stream's wire and answer hold is changed in these ways only.
LEMMA WireTyped ==
  ASSUME StreamTypeOK, NEW c \in Streams, NEW w \in Seq(Piece)
  PROVE  [wire EXCEPT ![c] = w] \in [Streams -> Seq(Piece)]
BY DEF StreamTypeOK

LEMMA DisconnectTyped ==
  ASSUME StreamTypeOK, NEW c \in Streams, Disconnect(c)
  PROVE  StreamTypeOK'
<1>1. <<>> \in Seq(Piece)
  OBVIOUS
<1>2. wire' \in [Streams -> Seq(Piece)]
  BY <1>1, WireTyped DEF Disconnect
<1>3. relay' \in [Streams -> {"off", "try", "stream"}]
  BY DEF Disconnect, StreamTypeOK
<1> QED
  BY <1>2, <1>3 DEF Disconnect, StreamTypeOK

LEMMA PutTyped ==
  ASSUME StreamTypeOK, NEW c \in Streams, NEW p \in Piece, Put(c, p)
  PROVE  wire' \in [Streams -> Seq(Piece)]
<1>1. wire[c] \in Seq(Piece)
  BY DEF StreamTypeOK
<1>2. Append(wire[c], p) \in Seq(Piece)
  BY <1>1
<1> QED
  BY <1>2, WireTyped DEF Put, StreamTypeOK

LEMMA PutErrorTyped ==
  ASSUME StreamTypeOK, NEW c \in Streams, NEW k \in {"error", "junk"},
         PutError(c, k)
  PROVE  wire' \in [Streams -> Seq(Piece)]
<1> DEFINE e == [mark |-> k]
           d == [mark |-> "done"]
<1>1. e \in Piece /\ d \in Piece
  BY MarkPiece DEF Mark
<1>2. wire[c] \in Seq(Piece)
  BY DEF StreamTypeOK
<1>3. wire' = [wire EXCEPT ![c] = Append(Append(wire[c], e), d)]
  BY DEF PutError
<1> HIDE DEF e, d
<1>4. Append(wire[c], e) \in Seq(Piece)
  BY <1>1, <1>2
<1>5. Append(Append(wire[c], e), d) \in Seq(Piece)
  BY <1>1, <1>4
<1> QED
  BY <1>3, <1>5, WireTyped

LEMMA StepStreamType == TypeOK /\ [Next]_vars => StreamTypeOK'
<1> SUFFICES ASSUME CallTypeOK, StreamTypeOK, RelayCalled, [Next]_vars
             PROVE  StreamTypeOK'
  BY TypeParts
<1> USE Counts
<1>1. ASSUME NEW c \in Streams, Open(c)
      PROVE  StreamTypeOK'
  BY <1>1 DEF Open, StreamTypeOK
<1>2. ASSUME NEW c \in Streams, ReadToken(c) PROVE StreamTypeOK'
  <2>1. wire[c] \in Seq(Piece) /\ got[c] \in Seq(Token)
    BY DEF StreamTypeOK
  <2>2. Head(wire[c]) \in Piece /\ Tail(wire[c]) \in Seq(Piece)
    BY <1>2, <2>1 DEF ReadToken
  <2>3. Head(wire[c]).token \in Token
    BY <1>2, <2>2, PieceToken DEF ReadToken
  <2>4. Append(got[c], Head(wire[c]).token) \in Seq(Token)
    BY <2>1, <2>3
  <2>5. got' \in [Streams -> Seq(Token)]
    BY <1>2, <2>4 DEF ReadToken, StreamTypeOK
  <2>6. wire' \in [Streams -> Seq(Piece)]
    BY <1>2, <2>2, WireTyped DEF ReadToken, StreamTypeOK
  <2> QED
    BY <1>2, <2>5, <2>6 DEF ReadToken, StreamTypeOK
<1>3. ASSUME NEW c \in Streams, ReadError(c) PROVE StreamTypeOK'
  <2>1. Tail(wire[c]) \in Seq(Piece)
    BY <1>3 DEF ReadError, StreamTypeOK
  <2>2. wire' \in [Streams -> Seq(Piece)]
    BY <1>3, <2>1, WireTyped DEF ReadError, StreamTypeOK
  <2> QED
    BY <1>3, <2>2 DEF ReadError, StreamTypeOK
<1>4. ASSUME NEW c \in Streams, ReadJunk(c) \/ ReadDone(c) \/ Drop(c) \/ Leave(c)
      PROVE  StreamTypeOK'
  BY <1>4, DisconnectTyped DEF ReadJunk, ReadDone, Drop, Leave
<1>5. ASSUME NEW c \in Streams, UpstreamAccepts(c) PROVE StreamTypeOK'
  BY <1>5 DEF UpstreamAccepts, StreamTypeOK
<1>6. ASSUME NEW c \in Streams, UpstreamRejects(c) PROVE StreamTypeOK'
  <2>1. wire' \in [Streams -> Seq(Piece)] /\ cut' \subseteq Streams
    <3>1. CASE PutError(c, "error") /\ Stops(c)
      BY <3>1, PutErrorTyped DEF Stops, StreamTypeOK
    <3>2. CASE UNCHANGED <<wire, cut>>
      BY <3>2 DEF StreamTypeOK
    <3> QED
      BY <1>6, <3>1, <3>2 DEF UpstreamRejects
  <2>2. up' \in [Streams -> 1..Upstreams]
    <3>1. CASE up[c] < Upstreams /\ up' = [up EXCEPT ![c] = @ + 1]
      <4>1. up[c] + 1 \in 1..Upstreams
        BY <3>1 DEF StreamTypeOK
      <4> QED
        BY <3>1, <4>1 DEF StreamTypeOK
    <3>2. CASE UNCHANGED up
      BY <3>2 DEF StreamTypeOK
    <3> QED
      BY <1>6, <3>1, <3>2 DEF UpstreamRejects
  <2>3. relay' \in [Streams -> {"off", "try", "stream"}]
    BY <1>6 DEF UpstreamRejects, StreamTypeOK
  <2> QED
    BY <1>6, <2>1, <2>2, <2>3 DEF UpstreamRejects, StreamTypeOK
<1>7. ASSUME NEW c \in Streams, RelayToken(c) PROVE StreamTypeOK'
  <2> DEFINE t == [attempt |-> attempt[c], up |-> up[c], n |-> sent[c] + 1]
  <2>1. up[c] \in 1..Upstreams /\ sent[c] + 1 \in 1..Tokens
    BY <1>7 DEF RelayToken, StreamTypeOK
  <2>2. attempt[c] \in 1..Attempts
    BY <1>7 DEF RelayToken, RelayCalled, CallTypeOK, Calls
  <2>3. t \in Token
    BY <2>1, <2>2 DEF Token
  <2>4. [mark |-> "token", token |-> t] \in Piece
    BY <2>3, TokenPiece
  <2>5. wire' \in [Streams -> Seq(Piece)]
    BY <1>7, <2>4, PutTyped DEF RelayToken
  <2>6. sent' \in [Streams -> 0..Tokens]
    BY <1>7, <2>1 DEF RelayToken, StreamTypeOK
  <2> QED
    BY <1>7, <2>5, <2>6 DEF RelayToken, StreamTypeOK
<1>8. ASSUME NEW c \in Streams, RelayDone(c) PROVE StreamTypeOK'
  <2>1. wire' \in [Streams -> Seq(Piece)]
    BY <1>8, MarkPiece, PutTyped DEF RelayDone, Mark
  <2>2. relay' \in [Streams -> {"off", "try", "stream"}]
    BY <1>8 DEF RelayDone, StreamTypeOK
  <2> QED
    BY <1>8, <2>1, <2>2 DEF RelayDone, StreamTypeOK
<1>9. ASSUME NEW c \in Streams, UpstreamLost(c) PROVE StreamTypeOK'
  <2>1. wire' \in [Streams -> Seq(Piece)] /\ cut' \subseteq Streams
    BY <1>9, PutErrorTyped DEF UpstreamLost, Stops, StreamTypeOK
  <2>2. relay' \in [Streams -> {"off", "try", "stream"}]
    BY <1>9 DEF UpstreamLost, StreamTypeOK
  <2> QED
    BY <1>9, <2>1, <2>2 DEF UpstreamLost, StreamTypeOK
<1>13. ASSUME NEW c \in Streams, UpstreamEnds(c) PROVE StreamTypeOK'
  <2>1. wire' \in [Streams -> Seq(Piece)] /\ cut' \subseteq Streams
    BY <1>13, MarkPiece, PutTyped DEF UpstreamEnds, Mark, Stops, StreamTypeOK
  <2>2. relay' \in [Streams -> {"off", "try", "stream"}]
    BY <1>13 DEF UpstreamEnds, StreamTypeOK
  <2> QED
    BY <1>13, <2>1, <2>2 DEF UpstreamEnds, StreamTypeOK
<1>10. CASE UNCHANGED streamVars
  BY <1>10 DEF streamVars, StreamTypeOK
<1>11. ASSUME NEW c \in Streams, StartStream(c) \/ RetryStream(c)
       PROVE  Open(c) \/ UNCHANGED streamVars
  BY <1>11 DEF StartStream, RetryStream
<1>12. (\E c \in Plains : PlainStep(c)) \/ CoolDown \/ UNCHANGED vars
         => UNCHANGED streamVars
  BY DEF PlainStep, StartPlain, PlainAnswered, PlainRetries, PlainFails,
      PlainCancelled, CoolDown, vars, streamVars
<1> QED
  BY <1>1, <1>2, <1>3, <1>4, <1>5, <1>6, <1>7, <1>8, <1>9, <1>10, <1>11, <1>12,
     <1>13
  DEF Next, ClientStep, RelayStep

LEMMA StepRelayCalled == TypeOK /\ [Next]_vars => RelayCalled'
<1> SUFFICES ASSUME CallTypeOK, StreamTypeOK, RelayCalled, [Next]_vars
             PROVE  RelayCalled'
  BY TypeParts
<1> USE CallsAssumption DEF CallTypeOK, StreamTypeOK, RelayCalled, Calls, Goto
<1>1. ASSUME NEW c \in Streams, Open(c) PROVE RelayCalled'
  BY <1>1 DEF Open
<1>2. ASSUME NEW c \in Streams, pc[c] # "open", Goto(c, "refused"),
             UNCHANGED streamVars
      PROVE  RelayCalled'
  BY <1>2 DEF streamVars
<1>3. ASSUME NEW c \in Streams, NEW l, Goto(c, l), Disconnect(c)
      PROVE  RelayCalled'
  BY <1>3 DEF Disconnect
<1>4. ASSUME NEW c \in Streams, UNCHANGED pc, relay[c] # "off",
             NEW r, relay' = [relay EXCEPT ![c] = r]
      PROVE  RelayCalled'
  BY <1>4
<1>5. CASE UNCHANGED <<pc, relay>>
  BY <1>5
<1>6. ASSUME NEW c \in Plains, NEW l, Goto(c, l), UNCHANGED streamVars
      PROVE  RelayCalled'
  BY <1>6 DEF streamVars
<1>7. ASSUME NEW c \in Streams, ClientStep(c) PROVE RelayCalled'
  BY <1>1, <1>2, <1>3, <1>5, <1>7
  DEF ClientStep, StartStream, RetryStream, ReadToken, ReadError, ReadJunk,
      ReadDone, Drop, Leave, streamVars
<1>8. ASSUME NEW c \in Streams, RelayStep(c) PROVE RelayCalled'
  BY <1>4, <1>5, <1>8
  DEF RelayStep, UpstreamAccepts, UpstreamRejects, RelayToken, RelayDone,
      UpstreamEnds, UpstreamLost
<1>9. ASSUME NEW c \in Plains, PlainStep(c) PROVE RelayCalled'
  BY <1>5, <1>6, <1>9
  DEF PlainStep, StartPlain, PlainAnswered, PlainRetries, PlainFails,
      PlainCancelled, streamVars
<1>10. CASE CoolDown \/ UNCHANGED vars
  BY <1>5, <1>10 DEF CoolDown, vars, streamVars
<1> QED
  BY <1>7, <1>8, <1>9, <1>10 DEF Next

LEMMA StepTypeOK == TypeOK /\ [Next]_vars => TypeOK'
<1> SUFFICES ASSUME TypeOK, [Next]_vars PROVE TypeOK'
  OBVIOUS
<1>1. CallTypeOK' /\ StreamTypeOK' /\ RelayCalled' /\ BreakerTypeOK'
  BY StepCallType, StepStreamType, StepRelayCalled, StepBreakerType, TypeParts
<1> QED
  BY <1>1 DEF TypeOK, CallTypeOK, StreamTypeOK, RelayCalled, BreakerTypeOK

\* Every state of the streaming model has its types: stream_complete and
\* retry_with_backoff never go beyond their last attempt, the relay beyond its
\* last upstream or the answer's last token, and a relay never works for a call
\* that has ended.
THEOREM TypeCorrect == Spec => []TypeOK
<1>1. ASSUME Init PROVE TypeOK
  <2>1. CallTypeOK /\ RelayCalled
    BY <1>1, Counts DEF Init, CallTypeOK, RelayCalled, CallPC, Ends, Calls
  <2>2. StreamTypeOK
    <3>1. <<>> \in Seq(Piece) /\ <<>> \in Seq(Token)
      OBVIOUS
    <3> QED
      BY <1>1, <3>1, Counts DEF Init, StreamTypeOK
  <2>3. BreakerTypeOK
    <3>1. <<>> \in Seq({"success", "failure"})
      OBVIOUS
    <3>2. opened \in BOOLEAN /\ cooled \in BOOLEAN
      BY <1>1, Zenon DEF Init
    <3> QED
      BY <1>1, <3>1, <3>2, Counts DEF Init, BreakerTypeOK
  <2> QED
    BY <2>1, <2>2, <2>3, TypeParts
<1>2. TypeOK /\ [Next]_vars => TypeOK'
  BY StepTypeOK
<1> QED
  BY <1>1, <1>2, PTL DEF Spec

-----------------------------------------------------------------------------
(* The circuit. *)

\* What opens the circuit: the count is of failures in a row, and it is full
\* when the breaker is open.
BreakerCounts ==
  /\ failures <= Len(log)
  /\ \A i \in (Len(log) - failures + 1)..Len(log) : log[i] = "failure"
  /\ opened => failures = Threshold

LEMMA CountsKept ==
  ASSUME BreakerTypeOK, BreakerCounts,
         OnSuccess \/ OnFailure \/ UNCHANGED breakerVars \/ CoolDown
  PROVE  BreakerCounts'
<1> USE Counts
<1>0. failures \in 0..Threshold /\ log \in Seq({"success", "failure"})
      /\ Len(log) \in Nat
  BY DEF BreakerTypeOK
<1>1. CASE OnSuccess
  <2>1. failures' = 0 /\ Len(log') = Len(log) + 1 /\ opened' = FALSE
    BY <1>0, <1>1 DEF OnSuccess
  <2> QED
    BY <1>0, <2>1 DEF BreakerCounts
<1>2. CASE OnFailure
  <2>1. /\ Len(log') = Len(log) + 1
        /\ log'[Len(log) + 1] = "failure"
        /\ \A i \in 1..Len(log) : log'[i] = log[i]
    BY <1>0, <1>2 DEF OnFailure
  <2>2. /\ failures' \in {failures, failures + 1}
        /\ failures' <= failures + 1 /\ failures' <= Len(log) + 1
    <3>1. failures' = IF failures < Threshold THEN failures + 1 ELSE failures
      BY <1>2 DEF OnFailure
    <3>2. failures <= Len(log)
      BY DEF BreakerCounts
    <3> QED
      BY <1>0, <3>1, <3>2
  <2>3. \A i \in (Len(log') - failures' + 1)..Len(log') : log'[i] = "failure"
    BY <1>0, <2>1, <2>2 DEF BreakerCounts
  <2>4. opened' => failures' = Threshold
    <3>1. opened' <=> opened \/ failures + 1 >= Threshold
      BY <1>2, Zenon DEF OnFailure
    <3>2. opened => failures = Threshold
      BY Zenon DEF BreakerCounts
    <3>3. failures' = IF failures < Threshold THEN failures + 1 ELSE failures
      BY <1>2 DEF OnFailure
    <3>4. failures = Threshold \/ failures + 1 >= Threshold
            => failures' = Threshold
      BY <1>0, <3>3
    <3> QED
      BY <3>1, <3>2, <3>4, Zenon
  <2> QED
    BY <1>0, <2>1, <2>2, <2>3, <2>4 DEF BreakerCounts
<1>3. CASE UNCHANGED breakerVars
  BY <1>3 DEF breakerVars, BreakerCounts
<1>4. CASE CoolDown
  BY <1>4 DEF CoolDown, BreakerCounts
<1> QED
  BY <1>1, <1>2, <1>3, <1>4

\* CircuitBreaker (core/resilience.py) opens on Threshold failures in a row and
\* on nothing else: in every state in which it is open, the last Threshold
\* outcomes it was told are failures.
THEOREM CircuitOpensOnFailures == Spec => []OpenedByFailures
<1>1. ASSUME Init PROVE BreakerCounts
  BY <1>1, Counts DEF Init, BreakerCounts
<1>2. ASSUME TypeOK, BreakerCounts, [Next]_vars PROVE BreakerCounts'
  BY <1>2, TypeParts, BreakerTold, CountsKept
<1>3. TypeOK /\ BreakerCounts => OpenedByFailures
  BY Counts DEF TypeOK, BreakerCounts, OpenedByFailures
<1> QED
  BY <1>1, <1>2, <1>3, TypeCorrect, PTL DEF Spec

-----------------------------------------------------------------------------
(* One answer. *)

LEMMA Taken ==
  ASSUME NEW g \in Nat, NEW w \in Nat
  PROVE  g + w = (g + 1) + (w - 1)
OBVIOUS

\* A token moves from the wire to the answer, or onto the wire.
LEMMA Sums ==
  \A g, w \in Nat : /\ g + (w + 1) = (g + w) + 1
                    /\ (g + 1) + w = g + (w + 1)
OBVIOUS

Tok(c, n) == [attempt |-> attempt[c], up |-> up[c], n |-> n]

\* What was read and what is on the wire are, in this order, the tokens of the
\* current attempt at the current upstream, followed at most by marks; and a
\* call moves to another attempt or upstream only before the first token.
WireInOrder(c) ==
  \A i \in 1..Len(wire[c]) : wire[c][i].mark = "token"
    => /\ wire[c][i].token = Tok(c, Len(got[c]) + i)
       /\ \A j \in 1..i : wire[c][j].mark = "token"

GotInOrder(c) == \A i \in 1..Len(got[c]) : got[c][i] = Tok(c, i)

Delivers(c) ==
  /\ pc[c] # "open" => wire[c] = <<>>
  /\ pc[c] \in {"idle", "backoff"} => got[c] = <<>>
  /\ relay[c] = "try" => got[c] = <<>> /\ wire[c] = <<>> /\ sent[c] = 0
  /\ relay[c] = "stream" => sent[c] = Len(got[c]) + Len(wire[c])
  /\ relay[c] = "stream" => \A i \in 1..Len(wire[c]) : wire[c][i].mark = "token"
  /\ WireInOrder(c) /\ GotInOrder(c)

\* All that a step does not touch.
Same(c) ==
  /\ pc'[c] = pc[c] /\ attempt'[c] = attempt[c] /\ relay'[c] = relay[c]
  /\ up'[c] = up[c] /\ sent'[c] = sent[c]
  /\ wire'[c] = wire[c] /\ got'[c] = got[c]
  /\ c \in cut' <=> c \in cut

LEMMA SameDelivers ==
  ASSUME NEW c \in Streams, Delivers(c), Same(c)
  PROVE  Delivers(c)'
<1>1. /\ pc'[c] = pc[c] /\ relay'[c] = relay[c] /\ sent'[c] = sent[c]
      /\ wire'[c] = wire[c] /\ got'[c] = got[c]
  BY DEF Same
<1>2. \A n : Tok(c, n)' = Tok(c, n)
  BY DEF Same, Tok
<1> HIDE DEF Same
<1>3. WireInOrder(c)'
  BY <1>1, <1>2 DEF Delivers, WireInOrder
<1>4. GotInOrder(c)'
  BY <1>1, <1>2 DEF Delivers, GotInOrder
<1> QED
  BY <1>1, <1>3, <1>4 DEF Delivers

\* A step touches the stream it is of, if any.
LEMMA OthersSame ==
  ASSUME TypeOK, [Next]_vars, NEW d \in Streams, ~Same(d)
  PROVE  ClientStep(d) \/ RelayStep(d)
<1> USE CallsAssumption DEF TypeOK, Calls, Same, Goto
<1>1. ASSUME NEW c \in Streams, c # d, ClientStep(c) PROVE FALSE
  BY <1>1
  DEF ClientStep, StartStream, RetryStream, ReadToken, ReadError, ReadJunk,
      ReadDone, Drop, Leave, Open, Disconnect, streamVars
<1>2. ASSUME NEW c \in Streams, c # d, RelayStep(c) PROVE FALSE
  BY <1>2
  DEF RelayStep, UpstreamAccepts, UpstreamRejects, RelayToken, RelayDone,
      UpstreamEnds, UpstreamLost, Put, PutError, Stops
<1>3. ASSUME NEW c \in Plains, PlainStep(c) PROVE FALSE
  BY <1>3
  DEF PlainStep, StartPlain, PlainAnswered, PlainRetries, PlainFails,
      PlainCancelled, streamVars
<1>4. ~(CoolDown \/ UNCHANGED vars)
  BY DEF CoolDown, vars, streamVars
<1> QED
  BY <1>1, <1>2, <1>3, <1>4 DEF Next

LEMMA OpenDelivers ==
  ASSUME TypeOK, NEW c \in Streams, Delivers(c), Open(c),
         pc[c] \in {"idle", "backoff"}
  PROVE  Delivers(c)'
<1>1. /\ wire'[c] = <<>> /\ got'[c] = <<>> /\ relay'[c] = "try"
      /\ pc'[c] = "open" /\ sent'[c] = 0
  BY DEF Open, Goto, Delivers, TypeOK, Calls
<1> QED
  BY <1>1 DEF Delivers, WireInOrder, GotInOrder

\* After a connection is gone only what was read remains.
LEMMA DisconnectDelivers ==
  ASSUME TypeOK, NEW c \in Streams, Delivers(c), Disconnect(c),
         NEW l \in CallPC, Goto(c, l), l = "backoff" => got[c] = <<>>,
         l # "idle", UNCHANGED attempt
  PROVE  Delivers(c)'
<1>1. /\ wire'[c] = <<>> /\ got'[c] = got[c] /\ relay'[c] = "off"
      /\ pc'[c] = l /\ up'[c] = up[c] /\ attempt'[c] = attempt[c]
  BY DEF Disconnect, Goto, TypeOK, Calls
<1>2. Len(wire'[c]) = 0
  BY <1>1
<1> QED
  BY <1>1, <1>2 DEF Delivers, WireInOrder, GotInOrder, Tok

LEMMA ReadTokenDelivers ==
  ASSUME TypeOK, NEW c \in Streams, Delivers(c), ReadToken(c)
  PROVE  Delivers(c)'
<1> DEFINE w == wire[c]
           g == got[c]
<1>1. w \in Seq(Piece) /\ g \in Seq(Token) /\ w # <<>>
  BY DEF TypeOK, ReadToken
<1>2. /\ wire'[c] = Tail(w) /\ got'[c] = Append(g, Head(w).token)
      /\ pc'[c] = pc[c] /\ relay'[c] = relay[c] /\ attempt'[c] = attempt[c]
      /\ up'[c] = up[c] /\ sent'[c] = sent[c] /\ pc[c] = "open"
      /\ Head(w).mark = "token"
  BY DEF ReadToken, TypeOK
<1>3. /\ Len(Tail(w)) = Len(w) - 1 /\ Len(w) \in Nat /\ Len(w) > 0
      /\ \A i \in 1..(Len(w) - 1) : Tail(w)[i] = w[i + 1]
      /\ Head(w) = w[1]
  BY <1>1
<1>4. Len(g) \in Nat
  BY <1>1
<1>5. w[1].token = Tok(c, Len(g) + 1)
  BY <1>2, <1>3 DEF Delivers, WireInOrder, GotInOrder
<1>6. w[1].token \in Token
  BY <1>1, <1>2, <1>3, PieceToken
<1>7. /\ Len(Append(g, w[1].token)) = Len(g) + 1
      /\ \A i \in 1..Len(g) : Append(g, w[1].token)[i] = g[i]
      /\ Append(g, w[1].token)[Len(g) + 1] = w[1].token
  BY <1>1, <1>6
<1>8. \A n : Tok(c, n)' = Tok(c, n)
  BY <1>2 DEF Tok
<1>9. Len(got'[c]) = Len(g) + 1 /\ Len(wire'[c]) = Len(w) - 1
  BY <1>2, <1>3, <1>7
<1>10. relay[c] # "try"
  BY <1>1, <1>2 DEF Delivers, WireInOrder, GotInOrder
<1>11. \A i \in 1..Len(got'[c]) : got'[c][i] = Tok(c, i)
  BY <1>2, <1>3, <1>4, <1>5, <1>7 DEF Delivers, WireInOrder, GotInOrder
<1>12. \A i \in 1..Len(wire'[c]) : wire'[c][i].mark = "token"
         => /\ wire'[c][i].token = Tok(c, Len(got'[c]) + i)
            /\ \A j \in 1..i : wire'[c][j].mark = "token"
  <2> SUFFICES ASSUME NEW i \in 1..Len(wire'[c]), wire'[c][i].mark = "token"
               PROVE  /\ wire'[c][i].token = Tok(c, Len(got'[c]) + i)
                      /\ \A j \in 1..i : wire'[c][j].mark = "token"
    OBVIOUS
  <2>1. i + 1 \in 1..Len(w) /\ wire'[c][i] = w[i + 1]
    BY <1>2, <1>3
  <2>2. /\ w[i + 1].token = Tok(c, Len(g) + (i + 1))
        /\ \A j \in 1..(i + 1) : w[j].mark = "token"
    BY <2>1 DEF Delivers, WireInOrder, GotInOrder
  <2>3. Len(got'[c]) + i = Len(g) + (i + 1)
    <3>1. i \in Nat /\ Len(w) \in Nat
      BY <1>3, <1>9
    <3>2. (Len(g) + 1) + i = Len(g) + (i + 1)
      BY <1>4, <3>1, Sums, Zenon
    <3> QED
      BY <1>9, <3>2, Zenon
  <2>4. \A j \in 1..i : wire'[c][j] = w[j + 1] /\ j + 1 \in 1..(i + 1)
    BY <1>2, <1>3, <2>1
  <2> QED
    BY <2>1, <2>2, <2>3, <2>4
<1>13. relay[c] = "stream" =>
         /\ sent'[c] = Len(got'[c]) + Len(wire'[c])
         /\ \A i \in 1..Len(wire'[c]) : wire'[c][i].mark = "token"
  <2> SUFFICES ASSUME relay[c] = "stream"
               PROVE  /\ sent'[c] = Len(got'[c]) + Len(wire'[c])
                      /\ \A i \in 1..Len(wire'[c]) : wire'[c][i].mark = "token"
    OBVIOUS
  <2>1. /\ sent[c] = Len(g) + Len(w)
        /\ \A i \in 1..Len(w) : w[i].mark = "token"
    BY DEF Delivers, WireInOrder, GotInOrder
  <2>2. sent'[c] = Len(got'[c]) + Len(wire'[c])
    <3>1. sent'[c] = sent[c] /\ sent[c] = Len(g) + Len(w)
      BY <1>2, <2>1
    <3>2. Len(w) \in Nat
      BY <1>3
    <3>3. sent[c] = (Len(g) + 1) + (Len(w) - 1)
      BY <1>4, <3>1, <3>2, Taken, Zenon
    <3> QED
      BY <1>9, <3>1, <3>3, Zenon
  <2>3. \A i \in 1..Len(wire'[c]) : wire'[c][i] = w[i + 1] /\ i + 1 \in 1..Len(w)
    BY <1>2, <1>3, <1>9
  <2> QED
    BY <2>1, <2>2, <2>3
<1> QED
  BY <1>2, <1>8, <1>10, <1>11, <1>12, <1>13 DEF Delivers, WireInOrder, GotInOrder

LEMMA ReadErrorDelivers ==
  ASSUME TypeOK, NEW c \in Streams, Delivers(c), ReadError(c)
  PROVE  Delivers(c)'
<1> DEFINE w == wire[c]
<1>1. w \in Seq(Piece) /\ w # <<>> /\ Head(w).mark = "error"
  BY DEF TypeOK, ReadError
<1>2. /\ wire'[c] = Tail(w) /\ got'[c] = got[c] /\ pc'[c] = pc[c]
      /\ relay'[c] = relay[c] /\ attempt'[c] = attempt[c] /\ up'[c] = up[c]
      /\ sent'[c] = sent[c] /\ pc[c] = "open"
  BY DEF ReadError, TypeOK
<1>3. /\ Len(Tail(w)) = Len(w) - 1 /\ Len(w) \in Nat /\ Len(w) > 0
      /\ \A i \in 1..(Len(w) - 1) : Tail(w)[i] = w[i + 1]
      /\ Head(w) = w[1]
  BY <1>1
<1>4. \A i \in 1..Len(w) : w[i].mark # "token"
  BY <1>1, <1>3 DEF Delivers, WireInOrder, GotInOrder
<1>5. \A i \in 1..Len(wire'[c]) : wire'[c][i] = w[i + 1] /\ i + 1 \in 1..Len(w)
  BY <1>2, <1>3
<1>6. \A i \in 1..Len(wire'[c]) : wire'[c][i].mark # "token"
  BY <1>4, <1>5
<1>7. relay[c] \notin {"try", "stream"}
  BY <1>1, <1>3, <1>4 DEF Delivers, WireInOrder, GotInOrder
<1>8. \A n : Tok(c, n)' = Tok(c, n)
  BY <1>2 DEF Tok
<1> QED
  BY <1>2, <1>6, <1>7, <1>8 DEF Delivers, WireInOrder, GotInOrder

\* What the relay puts on the wire comes behind what is there.
LEMMA RelayTokenDelivers ==
  ASSUME TypeOK, NEW c \in Streams, Delivers(c), RelayToken(c)
  PROVE  Delivers(c)'
<1> DEFINE w == wire[c]
           t == Tok(c, sent[c] + 1)
           p == [mark |-> "token", token |-> t]
<1>1. /\ w \in Seq(Piece) /\ got[c] \in Seq(Token)
      /\ sent[c] \in Nat /\ Len(w) \in Nat /\ Len(got[c]) \in Nat
  BY DEF TypeOK
<1>2. /\ wire'[c] = Append(w, p) /\ got'[c] = got[c] /\ pc'[c] = pc[c]
      /\ relay'[c] = relay[c] /\ attempt'[c] = attempt[c] /\ up'[c] = up[c]
      /\ sent'[c] = sent[c] + 1 /\ relay[c] = "stream" /\ pc[c] = "open"
  BY DEF RelayToken, Put, TypeOK, Tok
<1>3. t \in Token
  BY <1>1, <1>2, Counts DEF RelayToken, TypeOK, Calls, Token, Tok
<1>4. p \in Piece /\ p.mark = "token" /\ p.token = t
  BY <1>3, TokenPiece
<1> HIDE DEF p
<1>5. /\ Len(Append(w, p)) = Len(w) + 1
      /\ \A i \in 1..Len(w) : Append(w, p)[i] = w[i]
      /\ Append(w, p)[Len(w) + 1] = p
  BY <1>1, <1>4
<1>6. /\ sent[c] = Len(got[c]) + Len(w)
      /\ \A i \in 1..Len(w) : w[i].mark = "token"
      /\ \A i \in 1..Len(w) : w[i].token = Tok(c, Len(got[c]) + i)
  BY <1>2 DEF Delivers, WireInOrder, GotInOrder
<1>7. \A n : Tok(c, n)' = Tok(c, n)
  BY <1>2 DEF Tok
<1>8. \A i \in 1..Len(wire'[c]) : i \in 1..Len(w) \/ i = Len(w) + 1
  BY <1>1, <1>2, <1>5
<1>9. \A i \in 1..Len(wire'[c]) : wire'[c][i].mark = "token"
  BY <1>2, <1>4, <1>5, <1>6, <1>8
<1>10. \A i \in 1..Len(wire'[c]) : wire'[c][i].token = Tok(c, Len(got[c]) + i)
  <2>1. Len(got[c]) + (Len(w) + 1) = sent[c] + 1
    <3>1. sent[c] = Len(got[c]) + Len(w)
      BY <1>6
    <3>2. sent[c] \in Nat /\ Len(w) \in Nat /\ Len(got[c]) \in Nat
      BY <1>1
    <3> QED
      BY <3>1, <3>2, Sums, Zenon
  <2> QED
    BY <1>2, <1>4, <1>5, <1>6, <1>8, <2>1
<1>11. sent'[c] = Len(got'[c]) + Len(wire'[c])
  <2>1. sent[c] = Len(got[c]) + Len(w)
    BY <1>6
  <2>2. Len(got'[c]) = Len(got[c]) /\ Len(wire'[c]) = Len(w) + 1
    BY <1>2, <1>5
  <2>3. sent'[c] = sent[c] + 1 /\ Len(w) \in Nat /\ Len(got[c]) \in Nat
    BY <1>1, <1>2
  <2>4. sent'[c] = Len(got[c]) + Len(wire'[c])
    <3>1. Len(got[c]) + (Len(w) + 1) = sent[c] + 1
      BY <2>1, <2>3, Sums, Zenon
    <3> QED
      BY <2>2, <2>3, <3>1, Zenon
  <2> QED
    BY <2>2, <2>4, Zenon
<1>12. \A i \in 1..Len(wire'[c]) : \A j \in 1..i : j \in 1..Len(wire'[c])
  BY <1>1, <1>2, <1>5
<1>13. WireInOrder(c)'
  BY <1>2, <1>7, <1>9, <1>10, <1>12 DEF WireInOrder
<1>14. GotInOrder(c)'
  BY <1>2, <1>7 DEF Delivers, GotInOrder
<1> QED
  BY <1>2, <1>9, <1>11, <1>13, <1>14 DEF Delivers

LEMMA MarkDelivers ==
  ASSUME TypeOK, NEW c \in Streams, Delivers(c), relay[c] # "off",
         relay'[c] = "off", UNCHANGED <<pc, attempt, up, got>>,
         NEW k \in Mark, Put(c, [mark |-> k])
  PROVE  Delivers(c)'
<1> DEFINE w == wire[c]
           p == [mark |-> k]
<1>1. w \in Seq(Piece) /\ Len(w) \in Nat
  BY DEF TypeOK
<1>2. p \in Piece /\ p.mark # "token"
  BY MarkPiece DEF Mark
<1>3. wire'[c] = Append(w, p) /\ pc[c] = "open"
  BY DEF Put, TypeOK
<1> HIDE DEF p
<1>4. /\ Len(Append(w, p)) = Len(w) + 1
      /\ \A i \in 1..Len(w) : Append(w, p)[i] = w[i]
      /\ Append(w, p)[Len(w) + 1] = p
  BY <1>1, <1>2
<1>5. \A n : Tok(c, n)' = Tok(c, n)
  BY DEF Tok
<1>6. \A i \in 1..Len(wire'[c]) : wire'[c][i].mark = "token"
        => i \in 1..Len(w) /\ \A j \in 1..i : j \in 1..Len(w)
  BY <1>1, <1>2, <1>3, <1>4
<1>7. \A i \in 1..Len(w) : wire'[c][i] = w[i]
  BY <1>3, <1>4
<1>8. \A i \in 1..Len(wire'[c]) : wire'[c][i].mark = "token"
        => /\ wire'[c][i].token = Tok(c, Len(got[c]) + i)
           /\ \A j \in 1..i : wire'[c][j].mark = "token"
  <2> SUFFICES ASSUME NEW i \in 1..Len(wire'[c]), wire'[c][i].mark = "token"
               PROVE  /\ wire'[c][i].token = Tok(c, Len(got[c]) + i)
                      /\ \A j \in 1..i : wire'[c][j].mark = "token"
    OBVIOUS
  <2>1. WireInOrder(c)
    BY DEF Delivers
  <2>2. i \in 1..Len(w) /\ w[i] = wire'[c][i]
    BY <1>6, <1>7
  <2>3. w[i].token = Tok(c, Len(got[c]) + i) /\ \A j \in 1..i : w[j].mark = "token"
    BY <2>1, <2>2 DEF WireInOrder
  <2>4. \A j \in 1..i : wire'[c][j] = w[j]
    BY <1>6, <1>7
  <2> QED
    BY <2>2, <2>3, <2>4
<1>9. WireInOrder(c)'
  BY <1>5, <1>8 DEF WireInOrder
<1>10. GotInOrder(c)'
  BY <1>5 DEF Delivers, GotInOrder
<1> QED
  BY <1>3, <1>9, <1>10 DEF Delivers

LEMMA ErrorDelivers ==
  ASSUME TypeOK, NEW c \in Streams, Delivers(c), relay[c] # "off",
         relay'[c] = "off", UNCHANGED <<pc, attempt, up, got>>,
         NEW k \in {"error", "junk"}, PutError(c, k)
  PROVE  Delivers(c)'
<1> DEFINE w == wire[c]
           p == [mark |-> k]
           d == [mark |-> "done"]
           v == Append(w, p)
<1>1. w \in Seq(Piece) /\ Len(w) \in Nat
  BY DEF TypeOK
<1>2. p \in Piece /\ p.mark # "token" /\ d \in Piece /\ d.mark # "token"
  BY MarkPiece DEF Mark
<1>3. wire'[c] = Append(v, d) /\ pc[c] = "open"
  BY DEF PutError, TypeOK
<1> HIDE DEF p, d
<1>4. /\ v \in Seq(Piece)
      /\ Len(v) = Len(w) + 1
      /\ \A i \in 1..Len(w) : v[i] = w[i]
      /\ v[Len(w) + 1] = p
  BY <1>1, <1>2
<1> HIDE DEF v
<1>5. /\ Len(Append(v, d)) = Len(v) + 1
      /\ \A i \in 1..Len(v) : Append(v, d)[i] = v[i]
      /\ Append(v, d)[Len(v) + 1] = d
  BY <1>2, <1>4
<1>6. \A n : Tok(c, n)' = Tok(c, n)
  BY DEF Tok
<1>7. \A i \in 1..Len(w) : wire'[c][i] = w[i]
  BY <1>1, <1>3, <1>4, <1>5
<1>8. \A i \in 1..Len(wire'[c]) : wire'[c][i].mark = "token"
        => i \in 1..Len(w) /\ \A j \in 1..i : j \in 1..Len(w)
  BY <1>1, <1>2, <1>3, <1>4, <1>5
<1>9. \A i \in 1..Len(wire'[c]) : wire'[c][i].mark = "token"
        => /\ wire'[c][i].token = Tok(c, Len(got[c]) + i)
           /\ \A j \in 1..i : wire'[c][j].mark = "token"
  <2> SUFFICES ASSUME NEW i \in 1..Len(wire'[c]), wire'[c][i].mark = "token"
               PROVE  /\ wire'[c][i].token = Tok(c, Len(got[c]) + i)
                      /\ \A j \in 1..i : wire'[c][j].mark = "token"
    OBVIOUS
  <2>1. WireInOrder(c)
    BY DEF Delivers
  <2>2. i \in 1..Len(w) /\ w[i] = wire'[c][i]
    BY <1>8, <1>7
  <2>3. w[i].token = Tok(c, Len(got[c]) + i) /\ \A j \in 1..i : w[j].mark = "token"
    BY <2>1, <2>2 DEF WireInOrder
  <2>4. \A j \in 1..i : wire'[c][j] = w[j]
    BY <1>8, <1>7
  <2> QED
    BY <2>2, <2>3, <2>4
<1>10. WireInOrder(c)'
  BY <1>6, <1>9 DEF WireInOrder
<1>11. GotInOrder(c)'
  BY <1>6 DEF Delivers, GotInOrder
<1> QED
  BY <1>3, <1>10, <1>11 DEF Delivers

\* The relay moves on to the next upstream, or starts to stream, only before
\* the first token.
LEMMA TryDelivers ==
  ASSUME TypeOK, NEW c \in Streams, Delivers(c), relay[c] = "try",
         UNCHANGED <<pc, attempt, sent, wire, got>>,
         relay'[c] = "try" \/ (relay'[c] = "stream" /\ sent[c] = 0)
  PROVE  Delivers(c)'
<1>1. got'[c] = <<>> /\ wire'[c] = <<>>
  BY DEF Delivers, WireInOrder, GotInOrder
<1>2. Len(got'[c]) = 0 /\ Len(wire'[c]) = 0
  BY <1>1
<1> QED
  BY <1>1, <1>2 DEF Delivers, WireInOrder, GotInOrder, TypeOK

LEMMA ClientDelivers ==
  ASSUME TypeOK, NEW c \in Streams, Delivers(c), ClientStep(c)
  PROVE  Delivers(c)'
<1>1. CASE StartStream(c)
  <2>1. CASE Open(c)
    BY <1>1, <2>1, OpenDelivers DEF StartStream
  <2>2. CASE Goto(c, "refused") /\ UNCHANGED <<attempt, streamVars>>
    <3>1. wire[c] = <<>> /\ relay[c] = "off" /\ pc'[c] = "refused"
      BY <1>1, <2>2 DEF StartStream, Goto, Delivers, TypeOK, Calls
    <3> QED
      BY <2>2, <3>1 DEF Delivers, WireInOrder, GotInOrder, Tok, streamVars
  <2> QED
    BY <1>1, <2>1, <2>2 DEF StartStream
<1>2. CASE RetryStream(c)
  BY <1>2, OpenDelivers DEF RetryStream
<1>3. CASE ReadToken(c)
  BY <1>3, ReadTokenDelivers
<1>4. CASE ReadError(c)
  BY <1>4, ReadErrorDelivers
<1>5. CASE ReadJunk(c) \/ ReadDone(c) \/ Drop(c) \/ Leave(c)
  <2>1. PICK l \in {"broken", "answered", "backoff", "failed", "closed"} :
          Goto(c, l) /\ (l = "backoff" => got[c] = <<>>)
    BY <1>5 DEF ReadJunk, ReadDone, Drop, Leave
  <2>2. Disconnect(c) /\ UNCHANGED attempt
    BY <1>5 DEF ReadJunk, ReadDone, Drop, Leave
  <2> QED
    BY <2>1, <2>2, DisconnectDelivers DEF CallPC, Ends
<1> QED
  BY <1>1, <1>2, <1>3, <1>4, <1>5 DEF ClientStep

LEMMA RelayDelivers ==
  ASSUME TypeOK, NEW c \in Streams, Delivers(c), RelayStep(c)
  PROVE  Delivers(c)'
<1>1. CASE UpstreamAccepts(c)
  <2>1. /\ relay[c] = "try" /\ relay'[c] = "stream" /\ sent[c] = 0
        /\ UNCHANGED <<pc, attempt, sent, wire, got>>
    BY <1>1 DEF UpstreamAccepts, TypeOK, Delivers
  <2> QED
    BY <2>1, TryDelivers
<1>2. CASE UpstreamRejects(c)
  <2>1. CASE UNCHANGED <<relay, wire, cut>>
    BY <1>2, <2>1, TryDelivers DEF UpstreamRejects
  <2>2. CASE PutError(c, "error") /\ UNCHANGED up
             /\ relay' = [relay EXCEPT ![c] = "off"]
    <3>1. relay[c] = "try" /\ relay'[c] = "off"
          /\ UNCHANGED <<pc, attempt, up, got>>
      BY <1>2, <2>2 DEF UpstreamRejects, TypeOK
    <3> QED
      BY <2>2, <3>1, ErrorDelivers
  <2> QED
    BY <1>2, <2>1, <2>2 DEF UpstreamRejects
<1>3. CASE RelayToken(c)
  BY <1>3, RelayTokenDelivers
<1>4. CASE RelayDone(c)
  <2>1. relay[c] = "stream" /\ relay'[c] = "off"
        /\ UNCHANGED <<pc, attempt, up, got>>
    BY <1>4 DEF RelayDone, TypeOK
  <2> QED
    BY <1>4, <2>1, MarkDelivers DEF RelayDone, Mark
<1>5. CASE UpstreamLost(c)
  <2>1. relay[c] = "stream" /\ relay'[c] = "off"
        /\ UNCHANGED <<pc, attempt, up, got>>
    BY <1>5 DEF UpstreamLost, TypeOK
  <2> QED
    BY <1>5, <2>1, ErrorDelivers DEF UpstreamLost
<1>6. CASE UpstreamEnds(c)
  <2>1. relay[c] = "stream" /\ relay'[c] = "off"
        /\ UNCHANGED <<pc, attempt, up, got>>
    BY <1>6 DEF UpstreamEnds, TypeOK
  <2> QED
    BY <1>6, <2>1, MarkDelivers DEF UpstreamEnds, Mark
<1> QED
  BY <1>1, <1>2, <1>3, <1>4, <1>5, <1>6 DEF RelayStep

AllDeliver == \A c \in Streams : Delivers(c)

LEMMA StepDelivers == TypeOK /\ AllDeliver /\ [Next]_vars => AllDeliver'
<1> SUFFICES ASSUME TypeOK, AllDeliver, [Next]_vars,
                    NEW c \in Streams
             PROVE  Delivers(c)'
  BY DEF AllDeliver
<1> USE DEF AllDeliver
<1>1. CASE Same(c)
  BY <1>1, SameDelivers
<1>2. CASE ClientStep(c)
  BY <1>2, ClientDelivers
<1>3. CASE RelayStep(c)
  BY <1>3, RelayDelivers
<1> QED
  BY <1>1, <1>2, <1>3, OthersSame

\* In every reachable state the tokens are where they should be.
THEOREM AlwaysDelivers == Spec => []AllDeliver
<1>1. ASSUME Init PROVE AllDeliver
  <2> SUFFICES ASSUME NEW c \in Streams PROVE Delivers(c)
    BY DEF AllDeliver
  <2>1. wire[c] = <<>> /\ got[c] = <<>> /\ relay[c] = "off"
    BY <1>1 DEF Init
  <2>2. Len(wire[c]) = 0 /\ Len(got[c]) = 0
    BY <2>1
  <2> QED
    BY <2>1, <2>2 DEF Delivers, WireInOrder, GotInOrder
<1> QED
  BY <1>1, StepDelivers, TypeCorrect, PTL DEF Spec

\* What stream_complete yields is the start of one answer of one upstream in
\* one attempt: neither the relay's fallback nor a retry ever repeats, leaves
\* out or mixes a token.
THEOREM OneAnswerOnly == Spec => []OneAnswer
<1>1. ASSUME TypeOK, AllDeliver PROVE OneAnswer
  <2> SUFFICES ASSUME NEW c \in Streams, NEW i \in 1..Len(got[c])
               PROVE  got[c][i] = [attempt |-> got[c][1].attempt,
                                   up |-> got[c][1].up, n |-> i]
    BY DEF OneAnswer
  <2>1. Len(got[c]) \in Nat
    BY <1>1 DEF TypeOK
  <2>2. 1 \in 1..Len(got[c])
    BY <2>1
  <2>3. got[c][1] = Tok(c, 1) /\ got[c][i] = Tok(c, i)
    BY <1>1, <2>2 DEF AllDeliver, Delivers, GotInOrder
  <2> QED
    BY <2>3 DEF Tok
<1> QED
  BY <1>1, AlwaysDelivers, TypeCorrect, PTL

-----------------------------------------------------------------------------
(* The whole answer.  The first mark on a wire stands behind all the relay   *)
(* has sent, and the relay ends an answer behind the last token unless the   *)
(* upstream stopped.                                                         *)

MarkAtEnd(c) ==
  \A i \in 1..Len(wire[c]) :
    /\ wire[c][i].mark # "token"
    /\ \A j \in 1..(i - 1) : wire[c][j].mark = "token"
    => Len(got[c]) + i = sent[c] + 1

Whole(c) ==
  /\ MarkAtEnd(c)
  /\ pc[c] = "answered" => Len(got[c]) = sent[c]
  /\ pc[c] \in {"open", "answered"} /\ relay[c] = "off" /\ c \notin cut
       => sent[c] = Tokens

LEMMA SameWhole ==
  ASSUME NEW c \in Streams, Whole(c), Same(c)
  PROVE  Whole(c)'
BY DEF Whole, MarkAtEnd, Same

\* Where nothing is on the way and nothing is open or complete there is nothing
\* to show.
LEMMA NothingWhole ==
  ASSUME NEW c \in Streams, wire'[c] = <<>>, pc'[c] \notin {"open", "answered"}
  PROVE  Whole(c)'
<1>1. Len(wire'[c]) = 0
  OBVIOUS
<1> QED
  BY <1>1 DEF Whole, MarkAtEnd

LEMMA ReadTokenWhole ==
  ASSUME TypeOK, NEW c \in Streams, Whole(c), ReadToken(c)
  PROVE  Whole(c)'
<1> DEFINE w == wire[c]
           g == got[c]
<1>1. w \in Seq(Piece) /\ g \in Seq(Token) /\ w # <<>>
  BY DEF TypeOK, ReadToken
<1>2. /\ Len(Tail(w)) = Len(w) - 1 /\ Len(w) \in Nat \ {0} /\ Len(g) \in Nat
      /\ \A i \in 1..(Len(w) - 1) : Tail(w)[i] = w[i + 1]
      /\ Head(w) = w[1]
  BY <1>1
<1>3. /\ wire'[c] = Tail(w) /\ pc[c] = "open" /\ w[1].mark = "token"
      /\ UNCHANGED <<pc, relay, sent, cut>>
  BY <1>2 DEF ReadToken, TypeOK
<1>4. Len(got'[c]) = Len(g) + 1
  <2>1. w[1].token \in Token
    BY <1>1, <1>2, <1>3, PieceToken
  <2> QED
    BY <1>1, <1>2, <2>1 DEF ReadToken, TypeOK
<1>5. MarkAtEnd(c)'
  <2> SUFFICES ASSUME NEW i \in 1..Len(wire'[c]), wire'[c][i].mark # "token",
                      \A j \in 1..(i - 1) : wire'[c][j].mark = "token"
               PROVE  Len(got'[c]) + i = sent[c] + 1
    BY <1>3 DEF MarkAtEnd
  <2>1. i \in Nat /\ i + 1 \in 1..Len(w) /\ wire'[c][i] = w[i + 1]
    BY <1>2, <1>3
  <2>2. ASSUME NEW j \in 1..((i + 1) - 1) PROVE w[j].mark = "token"
    <3>1. CASE j = 1
      BY <1>3, <3>1
    <3>2. CASE j # 1
      <4>1. j - 1 \in 1..(i - 1) /\ j - 1 \in 1..(Len(w) - 1) /\ (j - 1) + 1 = j
        BY <1>2, <2>1, <3>2
      <4>2. w[j] = wire'[c][j - 1]
        BY <1>2, <1>3, <4>1
      <4> QED
        BY <4>1, <4>2
    <3> QED
      BY <3>1, <3>2
  <2>3. Len(g) + (i + 1) = sent[c] + 1
    BY <2>1, <2>2 DEF Whole, MarkAtEnd
  <2>4. (Len(g) + 1) + i = Len(g) + (i + 1)
    BY <1>2, <2>1, Sums, Zenon
  <2> QED
    BY <1>4, <2>3, <2>4, Zenon
<1> QED
  BY <1>3, <1>5 DEF Whole

\* Behind a mark there are only marks.
LEMMA ReadErrorWhole ==
  ASSUME TypeOK, NEW c \in Streams, Delivers(c), Whole(c), ReadError(c)
  PROVE  Whole(c)'
<1> DEFINE w == wire[c]
<1>1. w \in Seq(Piece) /\ w # <<>>
  BY DEF TypeOK, ReadError
<1>2. /\ Len(Tail(w)) = Len(w) - 1 /\ Len(w) \in Nat \ {0} /\ Len(got[c]) \in Nat
      /\ \A i \in 1..(Len(w) - 1) : Tail(w)[i] = w[i + 1]
      /\ Head(w) = w[1]
  BY <1>1 DEF TypeOK
<1>3. /\ wire'[c] = Tail(w) /\ pc[c] = "open" /\ w[1].mark # "token"
      /\ UNCHANGED <<pc, relay, sent, cut, got>>
  BY <1>2 DEF ReadError, TypeOK
<1>4. \A i \in 1..Len(w) : w[i].mark # "token"
  BY <1>2, <1>3 DEF Delivers, WireInOrder
<1>5. Len(got[c]) + 1 = sent[c] + 1
  BY <1>2, <1>3 DEF Whole, MarkAtEnd
<1>6. MarkAtEnd(c)'
  <2> SUFFICES ASSUME NEW i \in 1..Len(wire'[c]),
                      \A j \in 1..(i - 1) : wire'[c][j].mark = "token"
               PROVE  i = 1
    BY <1>3, <1>5 DEF MarkAtEnd
  <2>1. CASE i > 1
    <3>1. 1 \in 1..(i - 1) /\ 1 \in 1..(Len(w) - 1) /\ 1 + 1 \in 1..Len(w)
      BY <1>2, <1>3, <2>1
    <3>2. wire'[c][1] = w[1 + 1]
      BY <1>2, <1>3, <3>1
    <3> QED
      BY <1>4, <3>1, <3>2
  <2> QED
    BY <1>2, <1>3, <2>1
<1> QED
  BY <1>3, <1>6 DEF Whole

\* The answer ends at the first mark, and the relay is done by then.
LEMMA DoneWhole ==
  ASSUME TypeOK, NEW c \in Streams, Delivers(c), Whole(c), ReadDone(c)
  PROVE  Whole(c)'
<1>1. /\ wire[c] \in Seq(Piece) /\ wire[c] # <<>> /\ Len(got[c]) \in Nat
      /\ sent[c] \in Nat
  BY DEF TypeOK, ReadDone
<1>2. 1 \in 1..Len(wire[c]) /\ wire[c][1].mark # "token" /\ pc[c] = "open"
  BY <1>1 DEF ReadDone
<1>3. Len(got[c]) = sent[c]
  BY <1>1, <1>2 DEF Whole, MarkAtEnd
<1>4. relay[c] = "off"
  BY <1>1, <1>2 DEF Delivers, TypeOK
<1>5. /\ wire'[c] = <<>> /\ relay'[c] = "off" /\ UNCHANGED <<got, sent, cut>>
  BY DEF ReadDone, Disconnect, TypeOK
<1>6. Len(wire'[c]) = 0
  BY <1>5
<1> QED
  BY <1>2, <1>3, <1>4, <1>5, <1>6 DEF Whole, MarkAtEnd

\* A relay that is on has put only tokens on the wire, all it has sent.
LEMMA OnlyTokens ==
  ASSUME TypeOK, NEW c \in Streams, Delivers(c), relay[c] # "off"
  PROVE  /\ wire[c] \in Seq(Piece) /\ Len(wire[c]) \in Nat
         /\ Len(got[c]) \in Nat /\ sent[c] \in Nat
         /\ sent[c] = Len(got[c]) + Len(wire[c])
         /\ \A i \in 1..Len(wire[c]) : wire[c][i].mark = "token"
<1>1. wire[c] \in Seq(Piece) /\ got[c] \in Seq(Token) /\ sent[c] \in Nat
  BY DEF TypeOK
<1>2. Len(wire[c]) \in Nat /\ Len(got[c]) \in Nat
  BY <1>1
<1>3. CASE relay[c] = "stream"
  BY <1>1, <1>2, <1>3 DEF Delivers
<1>4. CASE relay[c] = "try"
  <2>1. Len(wire[c]) = 0 /\ Len(got[c]) = 0 /\ sent[c] = 0
    BY <1>4 DEF Delivers
  <2> QED
    BY <1>1, <1>2, <2>1
<1> QED
  BY <1>3, <1>4 DEF TypeOK

\* The relay's next token, or its next upstream: the wire holds no mark.
LEMMA StreamingWhole ==
  ASSUME TypeOK, NEW c \in Streams, Delivers(c)', TypeOK', relay'[c] # "off",
         pc'[c] # "answered"
  PROVE  Whole(c)'
<1>1. \A i \in 1..Len(wire'[c]) : wire'[c][i].mark = "token"
  BY DEF Delivers, TypeOK
<1> QED
  BY <1>1 DEF Whole, MarkAtEnd

\* The relay's last word comes behind its last token.
LEMMA EndWhole ==
  ASSUME TypeOK, NEW c \in Streams, Delivers(c), relay[c] # "off",
         NEW p \in Piece, p.mark # "token", NEW rest,
         \/ wire'[c] = Append(wire[c], p)
         \/ rest \in Piece /\ wire'[c] = Append(Append(wire[c], p), rest),
         UNCHANGED <<pc, got, sent>>,
         c \notin cut' => sent[c] = Tokens
  PROVE  Whole(c)'
<1> DEFINE w == wire[c]
<1>1. /\ w \in Seq(Piece) /\ Len(w) \in Nat /\ Len(got[c]) \in Nat
      /\ sent[c] \in Nat /\ sent[c] = Len(got[c]) + Len(w)
      /\ \A i \in 1..Len(w) : w[i].mark = "token"
  BY OnlyTokens
<1>2. pc[c] = "open"
  BY DEF TypeOK
<1>3. /\ wire'[c][Len(w) + 1] = p
      /\ \A i \in 1..Len(w) : wire'[c][i] = w[i]
  <2> DEFINE v == Append(w, p)
  <2>1. /\ v \in Seq(Piece) /\ Len(v) = Len(w) + 1 /\ v[Len(w) + 1] = p
        /\ \A i \in 1..Len(w) : v[i] = w[i]
    BY <1>1
  <2> HIDE DEF v
  <2>2. CASE wire'[c] = v
    BY <2>1, <2>2
  <2>3. CASE rest \in Piece /\ wire'[c] = Append(v, rest)
    <3>1. \A i \in 1..Len(v) : wire'[c][i] = v[i]
      BY <2>1, <2>3
    <3>2. Len(w) + 1 \in 1..Len(v) /\ \A i \in 1..Len(w) : i \in 1..Len(v)
      BY <1>1, <2>1
    <3> QED
      BY <2>1, <3>1, <3>2
  <2> QED
    BY <2>2, <2>3 DEF v
<1>4. MarkAtEnd(c)'
  <2> SUFFICES ASSUME NEW i \in 1..Len(wire'[c]), wire'[c][i].mark # "token",
                      \A j \in 1..(i - 1) : wire'[c][j].mark = "token"
               PROVE  Len(got[c]) + i = sent[c] + 1
    BY DEF MarkAtEnd
  <2>1. i = Len(w) + 1
    <3>1. CASE i > Len(w) + 1
      <4>1. Len(w) + 1 \in 1..(i - 1)
        BY <1>1, <3>1
      <4> QED
        BY <1>3, <4>1
    <3>2. CASE i < Len(w) + 1
      <4>1. i \in 1..Len(w)
        BY <1>1, <3>2
      <4> QED
        BY <1>1, <1>3, <4>1
    <3> QED
      BY <1>1, <3>1, <3>2
  <2>2. Len(got[c]) + (Len(w) + 1) = (Len(got[c]) + Len(w)) + 1
    BY <1>1, Sums, Zenon
  <2> QED
    BY <1>1, <2>1, <2>2, Zenon
<1> QED
  BY <1>2, <1>4 DEF Whole

LEMMA StopsShort ==
  ASSUME TypeOK, NEW c \in Streams, Stops(c), c \notin cut'
  PROVE  sent[c] = Tokens
BY Counts DEF Stops, TypeOK

LEMMA RelayWhole ==
  ASSUME TypeOK, TypeOK', NEW c \in Streams, Delivers(c), Delivers(c)',
         RelayStep(c)
  PROVE  Whole(c)'
<1> DEFINE d == [mark |-> "done"]
<1>1. d \in Piece /\ d.mark # "token"
  BY MarkPiece DEF Mark
<1>2. ASSUME UNCHANGED pc, relay[c] # "off", relay'[c] # "off" PROVE Whole(c)'
  <2>1. pc'[c] # "answered"
    BY <1>2 DEF TypeOK
  <2> QED
    BY <1>2, <2>1, StreamingWhole
<1>3. ASSUME relay[c] # "off", UNCHANGED <<pc, got, sent>>, Stops(c),
             NEW k \in {"error", "junk"}, PutError(c, k)
      PROVE  Whole(c)'
  <2> DEFINE p == [mark |-> k]
  <2>1. p \in Piece /\ p.mark # "token"
    BY MarkPiece DEF Mark
  <2>2. wire'[c] = Append(Append(wire[c], p), d)
    BY <1>3 DEF PutError, TypeOK
  <2> HIDE DEF p, d
  <2> QED
    BY <1>1, <1>3, <2>1, <2>2, StopsShort, EndWhole
<1>4. CASE UpstreamAccepts(c) \/ RelayToken(c)
  BY <1>2, <1>4 DEF UpstreamAccepts, RelayToken, TypeOK
<1>5. CASE UpstreamRejects(c)
  <2>1. CASE UNCHANGED <<relay, wire, cut>>
    BY <1>2, <1>5, <2>1 DEF UpstreamRejects
  <2>2. CASE PutError(c, "error") /\ Stops(c)
    BY <1>3, <1>5, <2>2 DEF UpstreamRejects
  <2> QED
    BY <1>5, <2>1, <2>2 DEF UpstreamRejects
<1>6. CASE RelayDone(c)
  <2>1. wire'[c] = Append(wire[c], d)
    BY <1>6 DEF RelayDone, Put, TypeOK
  <2>2. relay[c] # "off" /\ UNCHANGED <<pc, got, sent>> /\ sent[c] = Tokens
    BY <1>6 DEF RelayDone
  <2> HIDE DEF d
  <2> QED
    BY <1>1, <2>1, <2>2, EndWhole
<1>7. CASE UpstreamEnds(c)
  <2>1. PICK k \in {"end", "junk"} : Put(c, [mark |-> k])
    BY <1>7 DEF UpstreamEnds
  <2> DEFINE p == [mark |-> k]
  <2>2. p \in Piece /\ p.mark # "token"
    BY MarkPiece DEF Mark
  <2>3. wire'[c] = Append(wire[c], p)
    BY <2>1 DEF Put, TypeOK
  <2>4. relay[c] # "off" /\ UNCHANGED <<pc, got, sent>> /\ Stops(c)
    BY <1>7 DEF UpstreamEnds
  <2> HIDE DEF p
  <2> QED
    BY <2>2, <2>3, <2>4, StopsShort, EndWhole
<1>8. CASE UpstreamLost(c)
  BY <1>3, <1>8 DEF UpstreamLost
<1> QED
  BY <1>4, <1>5, <1>6, <1>7, <1>8 DEF RelayStep

LEMMA ClientWhole ==
  ASSUME TypeOK, TypeOK', NEW c \in Streams, Delivers(c), Delivers(c)', Whole(c),
         ClientStep(c)
  PROVE  Whole(c)'
<1>1. CASE StartStream(c) \/ RetryStream(c)
  <2>1. CASE Open(c)
    <3>1. relay'[c] = "try" /\ pc'[c] = "open"
      BY <2>1 DEF Open, Goto, TypeOK, Calls
    <3> QED
      BY <3>1, StreamingWhole
  <2>2. CASE Goto(c, "refused") /\ UNCHANGED streamVars /\ pc[c] = "idle"
    <3>1. wire'[c] = <<>> /\ pc'[c] = "refused"
      BY <2>2 DEF Delivers, Goto, TypeOK, Calls, streamVars
    <3> QED
      BY <3>1, NothingWhole
  <2> QED
    BY <1>1, <2>1, <2>2 DEF StartStream, RetryStream
<1>2. CASE ReadToken(c)
  BY <1>2, ReadTokenWhole
<1>3. CASE ReadError(c)
  BY <1>3, ReadErrorWhole
<1>4. CASE ReadDone(c)
  BY <1>4, DoneWhole
<1>5. CASE ReadJunk(c) \/ Drop(c) \/ Leave(c)
  <2>1. wire'[c] = <<>> /\ pc'[c] \in {"broken", "backoff", "failed", "closed"}
    BY <1>5 DEF ReadJunk, Drop, Leave, Disconnect, Goto, TypeOK, Calls
  <2> QED
    BY <2>1, NothingWhole
<1> QED
  BY <1>1, <1>2, <1>3, <1>4, <1>5 DEF ClientStep

\* An answer stream_complete counts as complete has lost nothing of what the
\* relay passed on in that attempt, through every fallback, retry and drop; it is
\* shorter than the whole only if the upstreams of that attempt stopped before
\* their last token.
THEOREM WholeOrCut == Spec => []CompleteUnlessCut
<1> DEFINE AllWhole == \A c \in Streams : Whole(c)
<1>1. Init => AllWhole
  <2> SUFFICES ASSUME Init, NEW c \in Streams PROVE Whole(c)
    OBVIOUS
  <2>1. wire[c] = <<>> /\ pc[c] = "idle"
    BY DEF Init, Calls
  <2>2. Len(wire[c]) = 0
    BY <2>1
  <2> QED
    BY <2>1, <2>2 DEF Whole, MarkAtEnd
<1>2. TypeOK /\ TypeOK' /\ AllDeliver /\ AllDeliver' /\ AllWhole /\ [Next]_vars
        => AllWhole'
  <2> SUFFICES ASSUME TypeOK, TypeOK', AllDeliver, AllDeliver', AllWhole,
                      [Next]_vars, NEW c \in Streams
               PROVE  Whole(c)'
    OBVIOUS
  <2>1. Delivers(c) /\ Delivers(c)' /\ Whole(c)
    BY DEF AllDeliver
  <2>2. CASE Same(c)
    BY <2>1, <2>2, SameWhole
  <2>3. CASE ClientStep(c)
    BY <2>1, <2>3, ClientWhole
  <2>4. CASE RelayStep(c)
    BY <2>1, <2>4, RelayWhole
  <2> QED
    BY <2>2, <2>3, <2>4, OthersSame
<1>3. TypeOK /\ AllWhole => CompleteUnlessCut
  <2> SUFFICES ASSUME AllWhole, NEW c \in Streams, pc[c] = "answered", TypeOK
               PROVE  Len(got[c]) = sent[c] /\ (c \notin cut => sent[c] = Tokens)
    BY DEF CompleteUnlessCut
  <2> QED
    BY DEF Whole, TypeOK
<1> QED
  BY <1>1, <1>2, <1>3, AlwaysDelivers, TypeCorrect, PTL DEF Spec
=============================================================================
