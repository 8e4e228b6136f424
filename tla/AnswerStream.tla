----------------------------- MODULE AnswerStream -----------------------------
(***************************************************************************)
(* A process that calls models through the LLM proxy: the streamed answers *)
(* of the Tutor (stream_complete) token by token through the relay         *)
(* (_relay_stream) and its upstreams, the plain completions beside them    *)
(* (complete), and the circuit breaker they share.                         *)
(*                                                                         *)
(* Every upstream has the tokens 1..Tokens to say, in this order, and may  *)
(* stop at any of them.  Time is a cooldown that may be over.              *)
(***************************************************************************)
EXTENDS Sequences, Integers

CONSTANTS
  Streams,    \* calls of stream_complete
  Plains,     \* calls of complete
  Attempts,   \* connection attempts of one call
  Upstreams,  \* number of providers the relay tries in turn
  Tokens,     \* length of a whole answer
  Threshold   \* failures that open the circuit

ASSUME CallsAssumption == Streams \cap Plains = {}
ASSUME CountsAssumption ==
  {Attempts, Upstreams, Tokens, Threshold} \subseteq Nat \ {0}

Calls == Streams \cup Plains

VARIABLES
  pc,       \* where each call is
  attempt,  \* the attempt it is at
  relay,    \* what the relay does for a stream
  up,       \* the upstream it is at
  sent,     \* tokens it has passed on from it
  wire,     \* what is on its way to the client
  got,      \* the tokens the client has yielded
  failures, \* the breaker's count, up to Threshold
  opened,   \* the breaker has an opening time ...
  cooled,   \* ... which is reset_timeout ago
  cut,      \* history: streams whose upstreams stopped before the last token
            \* in the current attempt
  log       \* history: the outcomes the breaker was told

streamVars == <<relay, up, sent, wire, got, cut>>
breakerVars == <<failures, opened, cooled, log>>
vars == <<pc, attempt, streamVars, breakerVars>>

-----------------------------------------------------------------------------
(* The data. *)

Ends == {"answered", "failed", "refused", "broken", "closed"}
CallPC == {"idle", "open", "backoff"} \cup Ends

Token == [attempt : 1..Attempts, up : 1..Upstreams, n : 1..Tokens]
\* "done" is the line [DONE], "end" the end of the response without one.
Mark == {"error", "junk", "done", "end"}
Piece == [mark : {"token"}, token : Token] \cup [mark : Mark]

Goto(c, label) == pc' = [pc EXCEPT ![c] = label]
Put(c, piece) == wire' = [wire EXCEPT ![c] = Append(@, piece)]

\* The upstream gives no more than it has: too little, or all of it.
Stops(c) == cut' = IF sent[c] < Tokens THEN cut \cup {c} ELSE cut

\* An error in place of (the rest of) an answer, then the usual end.
PutError(c, mark) ==
  wire' = [wire EXCEPT ![c] = Append(Append(@, [mark |-> mark]), [mark |-> "done"])]

-----------------------------------------------------------------------------
(* CircuitBreaker. *)

IsOpen == opened /\ ~cooled

\* Mutant: a success closes the circuit but keeps the count.
SuccessKeepsCount ==
  /\ opened' = FALSE
  /\ cooled' = FALSE
  /\ log' = Append(log, "success")
  /\ UNCHANGED failures

OnSuccess ==
  /\ failures' = 0
  /\ opened' = FALSE
  /\ cooled' = FALSE
  /\ log' = Append(log, "success")

OnFailure ==
  /\ failures' = IF failures < Threshold THEN failures + 1 ELSE failures
  /\ opened' = (opened \/ failures + 1 >= Threshold)
  /\ cooled' = IF failures + 1 >= Threshold THEN FALSE ELSE cooled
  /\ log' = Append(log, "failure")

CoolDown ==
  /\ IsOpen
  /\ cooled' = TRUE
  /\ UNCHANGED <<pc, attempt, streamVars, failures, opened, log>>

-----------------------------------------------------------------------------
(* stream_complete. *)

\* Each attempt is a request of its own, and the relay starts over.
Open(c) ==
  /\ Goto(c, "open")
  /\ attempt' = [attempt EXCEPT ![c] = @ + 1]
  /\ relay' = [relay EXCEPT ![c] = "try"]
  /\ up' = [up EXCEPT ![c] = 1]
  /\ sent' = [sent EXCEPT ![c] = 0]
  /\ cut' = cut \ {c}
  /\ UNCHANGED <<wire, got>>

StartStream(c) ==
  /\ pc[c] = "idle"
  /\ \/ IsOpen /\ Goto(c, "refused") /\ UNCHANGED <<attempt, streamVars>>
     \/ ~IsOpen /\ Open(c)
  /\ UNCHANGED breakerVars

RetryStream(c) ==
  /\ pc[c] = "backoff"
  /\ Open(c)
  /\ UNCHANGED breakerVars

\* The connection is gone, with all that was on its way.
Disconnect(c) ==
  /\ relay' = [relay EXCEPT ![c] = "off"]
  /\ wire' = [wire EXCEPT ![c] = <<>>]
  /\ UNCHANGED <<up, sent, got, cut>>

ReadToken(c) ==
  /\ pc[c] = "open" /\ wire[c] # <<>> /\ Head(wire[c]).mark = "token"
  /\ got' = [got EXCEPT ![c] = Append(@, Head(wire[c]).token)]
  /\ wire' = [wire EXCEPT ![c] = Tail(@)]
  /\ UNCHANGED <<pc, attempt, relay, up, sent, cut, breakerVars>>

\* A chunk without choices yields nothing.
ReadError(c) ==
  /\ pc[c] = "open" /\ wire[c] # <<>> /\ Head(wire[c]).mark = "error"
  /\ wire' = [wire EXCEPT ![c] = Tail(@)]
  /\ UNCHANGED <<pc, attempt, relay, up, sent, got, cut, breakerVars>>

\* A line that is not JSON raises past every handler.
ReadJunk(c) ==
  /\ pc[c] = "open" /\ wire[c] # <<>> /\ Head(wire[c]).mark = "junk"
  /\ Goto(c, "broken")
  /\ Disconnect(c)
  /\ UNCHANGED <<attempt, breakerVars>>

\* The loop over the lines ends at [DONE], or where the response ends.
ReadDone(c) ==
  /\ pc[c] = "open" /\ wire[c] # <<>> /\ Head(wire[c]).mark \in {"done", "end"}
  /\ Goto(c, "answered")
  /\ Disconnect(c)
  /\ OnSuccess
  /\ UNCHANGED attempt

\* Mutant: an error of the transport passes for the end of the answer.
DropEnds(c) ==
  /\ pc[c] = "open"
  /\ Disconnect(c)
  /\ Goto(c, "answered")
  /\ OnSuccess
  /\ UNCHANGED attempt

\* Mutant: one attempt too many.
DropOffByOne(c) ==
  /\ pc[c] = "open"
  /\ Disconnect(c)
  /\ LET last == got[c] # <<>> \/ attempt[c] > Attempts IN
       \/ ~last /\ Goto(c, "backoff") /\ UNCHANGED breakerVars
       \/ last /\ Goto(c, "failed") /\ OnFailure
  /\ UNCHANGED attempt

\* httpx.HTTPError: no connection, a refused key, a timeout, a reset.  Once a
\* token is out there is no way back.
Drop(c) ==
  /\ pc[c] = "open"
  /\ Disconnect(c)
  /\ LET last == got[c] # <<>> \/ attempt[c] = Attempts IN
       \/ ~last /\ Goto(c, "backoff") /\ UNCHANGED breakerVars
       \/ last /\ Goto(c, "failed") /\ OnFailure
  /\ UNCHANGED attempt

\* The reader leaves: the generator is closed where it stands.
Leave(c) ==
  /\ pc[c] \in {"open", "backoff"}
  /\ Goto(c, "closed")
  /\ Disconnect(c)
  /\ UNCHANGED <<attempt, breakerVars>>

-----------------------------------------------------------------------------
(* _relay_stream. *)

UpstreamAccepts(c) ==
  /\ relay[c] = "try"
  /\ relay' = [relay EXCEPT ![c] = "stream"]
  /\ UNCHANGED <<pc, attempt, up, sent, wire, got, cut, breakerVars>>

\* A status of 400 and more, or no connection: the next upstream, if any, then
\* the error as a chunk.
UpstreamRejects(c) ==
  /\ relay[c] = "try"
  /\ \/ /\ up[c] < Upstreams
        /\ up' = [up EXCEPT ![c] = @ + 1]
        /\ UNCHANGED <<relay, wire, cut>>
     \/ /\ up[c] = Upstreams
        /\ relay' = [relay EXCEPT ![c] = "off"]
        /\ PutError(c, "error") /\ Stops(c)
        /\ UNCHANGED up
  /\ UNCHANGED <<pc, attempt, sent, got, breakerVars>>

RelayToken(c) ==
  /\ relay[c] = "stream" /\ sent[c] < Tokens
  /\ sent' = [sent EXCEPT ![c] = @ + 1]
  /\ Put(c, [mark |-> "token",
             token |-> [attempt |-> attempt[c], up |-> up[c], n |-> sent[c] + 1]])
  /\ UNCHANGED <<pc, attempt, relay, up, got, cut, breakerVars>>

\* The upstream's own end of the answer, passed on with the rest.
RelayDone(c) ==
  /\ relay[c] = "stream" /\ sent[c] = Tokens
  /\ relay' = [relay EXCEPT ![c] = "off"]
  /\ Put(c, [mark |-> "done"])
  /\ UNCHANGED <<pc, attempt, up, sent, got, cut, breakerVars>>

\* The upstream's response is over without [DONE], between two lines or within
\* one, and so is the relay's: its bytes are passed on as they are.
UpstreamEnds(c) ==
  /\ relay[c] = "stream"
  /\ relay' = [relay EXCEPT ![c] = "off"]
  /\ Put(c, [mark |-> "end"]) \/ Put(c, [mark |-> "junk"])
  /\ Stops(c)
  /\ UNCHANGED <<pc, attempt, up, sent, got, breakerVars>>

\* Mutant: the next upstream takes over in the middle of the answer.
LostFallsBack(c) ==
  /\ relay[c] = "stream" /\ up[c] < Upstreams
  /\ relay' = [relay EXCEPT ![c] = "try"]
  /\ up' = [up EXCEPT ![c] = @ + 1]
  /\ sent' = [sent EXCEPT ![c] = 0]
  /\ UNCHANGED <<pc, attempt, wire, got, cut, breakerVars>>

\* The upstream breaks off, between two lines or within one: then the error is
\* glued to the torn line.
UpstreamLost(c) ==
  /\ relay[c] = "stream"
  /\ relay' = [relay EXCEPT ![c] = "off"]
  /\ PutError(c, "error") \/ PutError(c, "junk")
  /\ Stops(c)
  /\ UNCHANGED <<pc, attempt, up, sent, got, breakerVars>>

-----------------------------------------------------------------------------
(* complete: retry_with_backoff inside the breaker. *)

StartPlain(c) ==
  /\ pc[c] = "idle"
  /\ \/ IsOpen /\ Goto(c, "refused") /\ UNCHANGED attempt
     \/ /\ ~IsOpen
        /\ Goto(c, "open")
        /\ attempt' = [attempt EXCEPT ![c] = 1]
  /\ UNCHANGED <<streamVars, breakerVars>>

PlainAnswered(c) ==
  /\ pc[c] = "open"
  /\ Goto(c, "answered")
  /\ OnSuccess
  /\ UNCHANGED <<attempt, streamVars>>

PlainRetries(c) ==
  /\ pc[c] = "open" /\ attempt[c] < Attempts
  /\ attempt' = [attempt EXCEPT ![c] = @ + 1]
  /\ UNCHANGED <<pc, streamVars, breakerVars>>

\* The last attempt failed, or an answer was not what the client expects.
PlainFails(c) ==
  /\ pc[c] = "open"
  /\ Goto(c, "failed")
  /\ OnFailure
  /\ UNCHANGED <<attempt, streamVars>>

\* The caller is cancelled: no outcome.
PlainCancelled(c) ==
  /\ pc[c] = "open"
  /\ Goto(c, "closed")
  /\ UNCHANGED <<attempt, streamVars, breakerVars>>

-----------------------------------------------------------------------------
Init ==
  /\ pc = [c \in Calls |-> "idle"]
  /\ attempt = [c \in Calls |-> 0]
  /\ relay = [c \in Streams |-> "off"]
  /\ up = [c \in Streams |-> 1]
  /\ sent = [c \in Streams |-> 0]
  /\ wire = [c \in Streams |-> <<>>]
  /\ got = [c \in Streams |-> <<>>]
  /\ failures = 0
  /\ opened = FALSE
  /\ cooled = FALSE
  /\ cut = {}
  /\ log = <<>>

ClientStep(c) ==
  \/ StartStream(c) \/ RetryStream(c)
  \/ ReadToken(c) \/ ReadError(c) \/ ReadJunk(c) \/ ReadDone(c)
  \/ Drop(c) \/ Leave(c)

RelayStep(c) ==
  \/ UpstreamAccepts(c) \/ UpstreamRejects(c)
  \/ RelayToken(c) \/ RelayDone(c) \/ UpstreamEnds(c) \/ UpstreamLost(c)

PlainStep(c) ==
  \/ StartPlain(c) \/ PlainAnswered(c) \/ PlainRetries(c) \/ PlainFails(c)
  \/ PlainCancelled(c)

Next ==
  \/ \E c \in Streams : ClientStep(c) \/ RelayStep(c)
  \/ \E c \in Plains : PlainStep(c)
  \/ CoolDown

Spec == Init /\ [][Next]_vars

-----------------------------------------------------------------------------
(* Properties. *)

TypeOK ==
  /\ pc \in [Calls -> CallPC]
  /\ attempt \in [Calls -> 0..Attempts]
  /\ \A c \in Calls : /\ pc[c] = "idle" => attempt[c] = 0
                      /\ pc[c] = "open" => attempt[c] >= 1
                      /\ pc[c] = "backoff" => attempt[c] \in 1..(Attempts - 1)
  /\ relay \in [Streams -> {"off", "try", "stream"}]
  /\ \A c \in Streams : relay[c] # "off" => pc[c] = "open"
  /\ up \in [Streams -> 1..Upstreams]
  /\ sent \in [Streams -> 0..Tokens]
  /\ wire \in [Streams -> Seq(Piece)]
  /\ got \in [Streams -> Seq(Token)]
  /\ failures \in 0..Threshold
  /\ opened \in BOOLEAN /\ cooled \in BOOLEAN
  /\ cut \subseteq Streams
  /\ log \in Seq({"success", "failure"})

\* What the reader sees is the start of one answer of one upstream in one
\* attempt: nothing repeated, left out or mixed, across the relay's fallback
\* and the client's retries.
OneAnswer ==
  \A c \in Streams : \A i \in 1..Len(got[c]) :
    got[c][i] = [attempt |-> got[c][1].attempt, up |-> got[c][1].up, n |-> i]

\* An answer that counts as complete holds every token its relay had from the
\* upstream, and is short only if the upstreams stopped early in that very
\* attempt: no error of the transport, fallback or retry ends one quietly.  (The
\* upstream's own early end does.)
CompleteUnlessCut ==
  \A c \in Streams : pc[c] = "answered" =>
    /\ Len(got[c]) = sent[c]
    /\ c \notin cut => sent[c] = Tokens

\* The circuit is open only after Threshold failures in a row, whichever calls
\* they came from and however long ago they had started.
OpenedByFailures ==
  opened => /\ Len(log) >= Threshold
            /\ \A i \in (Len(log) - Threshold + 1)..Len(log) : log[i] = "failure"
=============================================================================
