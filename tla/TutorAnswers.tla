----------------------------- MODULE TutorAnswers -----------------------------
(***************************************************************************)
(* The Tutor's answers to one question, asked again and again: the answer  *)
(* cache in Redis, keyed on a subject's content version, the BM25 index of *)
(* the API process, cached under the same version, and the messages of the *)
(* sessions, while documents come and go (DocumentStore).  One await per   *)
(* step; an ask may stop at any of them (quota, errors of a service or the *)
(* model, a reader who leaves).                                            *)
(*                                                                         *)
(* Ranking is left out: an answer is grounded in the documents of the      *)
(* corpus its candidates are taken from.                                   *)
(***************************************************************************)
EXTENDS DocumentStore

CONSTANTS
  Asks,       \* POSTs of the question
  Sessions,
  SubjectOf,  \* the subject of each session
  NoAsk,      \* an ask that holds nothing
  NoIndex     \* no BM25 index in memory

ASSUME SubjectOfAssumption == SubjectOf \in [Sessions -> Subjects]

VARIABLES
  at,        \* where each ask is
  ask,       \* what it holds
  said,      \* the messages of the sessions
  cache,     \* the cached answers
  index,     \* each subject's BM25 index in this process
  overtaken, \* history: asks whose subject's content changed under them
  raced      \* history: asks with another ask of their session beside them

askVars == <<at, ask, said, cache, index, overtaken, raced>>
tutorVars == <<docVars, askVars>>

-----------------------------------------------------------------------------
(* The data. *)

\* From reading the content version for retrieval to reading it for the stamp.
Answering == {"index", "fetch", "keep", "generate", "answer", "stamp"}
AskPC == Answering \cup {"idle", "count", "version", "lookup", "quota", "history",
                         "question", "retrieve", "replay", "store", "done"}
Busy(a) == at[a] \notin {"idle", "done"}

Asking ==
  [session : Sessions,
   first : BOOLEAN,            \* cacheable: no message before it
   version : Nat,              \* the content version it read last
   hit : BOOLEAN,              \* found its answer in the cache
   recalled : BOOLEAN,         \* earlier messages are in its prompt
   corpus : SUBSET Requests]   \* the documents its answer is grounded in

Opening(c) ==
  [session |-> c, first |-> FALSE, version |-> 0, hit |-> FALSE,
   recalled |-> FALSE, corpus |-> {}]

Message == [session : Sessions, ask : Asks, role : {"user", "assistant"}]

Entry == [subject : Subjects, version : Nat, by : Asks, recalled : BOOLEAN,
          corpus : SUBSET Requests]

Index == [version : Nat, corpus : SUBSET Requests]

Subject(a) == SubjectOf[ask[a].session]
Messages(a) == {m \in said : m.session = ask[a].session}

\* get_content_version: an absent key reads as 1.
\* Mutant: the count starts one lower.
CurrentBefore(s) == version[s] - 1
Current(s) == IF version[s] = 0 THEN 1 ELSE version[s]

\* The answers under one cache key.
Cached(s, v) == {e \in cache : e.subject = s /\ e.version = v}

Move(a, label) == at' = [at EXCEPT ![a] = label]

AskEnds(a) ==
  /\ Move(a, "done")
  /\ ask' = [ask EXCEPT ![a] = NoAsk]

-----------------------------------------------------------------------------
(* prepare_answer_stream. *)

Beside(a, c) == {b \in Asks \ {a} : Busy(b) /\ ask[b].session = c}

Ask(a, c) ==
  /\ at[a] = "idle"
  /\ SubjectOf[c] \in subjects
  /\ ask' = [ask EXCEPT ![a] = Opening(c)]
  /\ raced' = IF Beside(a, c) = {} THEN raced ELSE raced \cup {a} \cup Beside(a, c)
  /\ Move(a, "count")
  /\ UNCHANGED <<said, cache, index, overtaken>>

\* Mutant: every question may be cached.
CountNothing(a) ==
  /\ at[a] = "count"
  /\ ask' = [ask EXCEPT ![a].first = TRUE]
  /\ Move(a, "version")
  /\ UNCHANGED <<said, cache, index, overtaken, raced>>

\* Only the first question of a session may be answered from the cache.
CountMessages(a) ==
  /\ at[a] = "count"
  /\ ask' = [ask EXCEPT ![a].first = (Messages(a) = {})]
  /\ Move(a, IF Messages(a) = {} THEN "version" ELSE "quota")
  /\ UNCHANGED <<said, cache, index, overtaken, raced>>

LookupVersion(a) ==
  /\ at[a] = "version"
  /\ ask' = [ask EXCEPT ![a].version = Current(Subject(a))]
  /\ Move(a, "lookup")
  /\ UNCHANGED <<said, cache, index, overtaken, raced>>

\* An answer may have expired.
Lookup(a) ==
  /\ at[a] = "lookup"
  /\ \/ /\ Cached(Subject(a), ask[a].version) # {}
        /\ ask' = [ask EXCEPT ![a].hit = TRUE]
        /\ Move(a, "history")
     \/ Move(a, "quota") /\ UNCHANGED ask
  /\ UNCHANGED <<said, cache, index, overtaken, raced>>

CheckQuota(a) ==
  /\ at[a] = "quota"
  /\ Move(a, "history")
  /\ UNCHANGED <<ask, said, cache, index, overtaken, raced>>

-----------------------------------------------------------------------------
(* _stream_answer_events. *)

ReadHistory(a) ==
  /\ at[a] = "history"
  /\ ask' = [ask EXCEPT ![a].recalled = (Messages(a) # {})]
  /\ Move(a, "question")
  /\ UNCHANGED <<said, cache, index, overtaken, raced>>

InsertQuestion(a) ==
  /\ at[a] = "question"
  /\ said' = said \cup {[session |-> ask[a].session, ask |-> a, role |-> "user"]}
  /\ Move(a, IF ask[a].hit THEN "replay" ELSE "retrieve")
  /\ UNCHANGED <<ask, cache, index, overtaken, raced>>

RetrieveVersion(a) ==
  /\ at[a] = "retrieve"
  /\ ask' = [ask EXCEPT ![a].version = Current(Subject(a))]
  /\ Move(a, "index")
  /\ UNCHANGED <<said, cache, index, overtaken, raced>>

\* The index in memory serves only the version it was built under.
ReadIndex(a) ==
  /\ at[a] = "index"
  /\ LET i == index[Subject(a)] IN
       IF i # NoIndex /\ i.version = ask[a].version
         THEN /\ ask' = [ask EXCEPT ![a].corpus = i.corpus]
              /\ Move(a, "generate")
         ELSE Move(a, "fetch") /\ UNCHANGED ask
  /\ UNCHANGED <<said, cache, index, overtaken, raced>>

FetchCorpus(a) ==
  /\ at[a] = "fetch"
  /\ ask' = [ask EXCEPT ![a].corpus = chunks[Subject(a)]]
  /\ Move(a, "keep")
  /\ UNCHANGED <<said, cache, index, overtaken, raced>>

\* Mutant: the index is kept under the version that is current by then.
KeepUnderCurrent(a) ==
  /\ at[a] = "keep"
  /\ index' = [index EXCEPT ![Subject(a)] =
       IF ask[a].corpus = {} THEN NoIndex
       ELSE [version |-> Current(Subject(a)), corpus |-> ask[a].corpus]]
  /\ Move(a, "generate")
  /\ UNCHANGED <<ask, said, cache, overtaken, raced>>

\* The new index replaces whatever is in memory by now.
KeepIndex(a) ==
  /\ at[a] = "keep"
  /\ index' = [index EXCEPT ![Subject(a)] =
       IF ask[a].corpus = {} THEN NoIndex
       ELSE [version |-> ask[a].version, corpus |-> ask[a].corpus]]
  /\ Move(a, "generate")
  /\ UNCHANGED <<ask, said, cache, overtaken, raced>>

\* The corpus is ranked (what a search finds outside it is dropped) and the
\* model answers to the end.
Generate(a) ==
  /\ at[a] = "generate"
  /\ Move(a, "answer")
  /\ UNCHANGED <<ask, said, cache, index, overtaken, raced>>

Answered(a) ==
  said' = said \cup {[session |-> ask[a].session, ask |-> a, role |-> "assistant"]}

InsertAnswer(a) ==
  /\ at[a] = "answer"
  /\ Answered(a)
  /\ \/ ask[a].first /\ Move(a, "stamp") /\ UNCHANGED ask
     \/ ~ask[a].first /\ AskEnds(a)
  /\ UNCHANGED <<cache, index, overtaken, raced>>

ReplayAnswer(a) ==
  /\ at[a] = "replay"
  /\ Answered(a)
  /\ AskEnds(a)
  /\ UNCHANGED <<cache, index, overtaken, raced>>

\* set_cached_answer reads the version anew.
StampVersion(a) ==
  /\ at[a] = "stamp"
  /\ ask' = [ask EXCEPT ![a].version = Current(Subject(a))]
  /\ Move(a, "store")
  /\ UNCHANGED <<said, cache, index, overtaken, raced>>

StoreAnswer(a) ==
  /\ at[a] = "store"
  /\ cache' = (cache \ Cached(Subject(a), ask[a].version)) \cup
       {[subject |-> Subject(a), version |-> ask[a].version, by |-> a,
         recalled |-> ask[a].recalled, corpus |-> ask[a].corpus]}
  /\ AskEnds(a)
  /\ UNCHANGED <<said, index, overtaken, raced>>

\* Quota spent, an error of Mongo, Redis, Chroma, the embedding service or the
\* model, or the reader closes the stream.
AskStops(a) ==
  /\ Busy(a)
  /\ AskEnds(a)
  /\ UNCHANGED <<said, cache, index, overtaken, raced>>

-----------------------------------------------------------------------------
AskNext ==
  \E a \in Asks :
    \/ \E c \in Sessions : Ask(a, c)
    \/ CountMessages(a) \/ LookupVersion(a) \/ Lookup(a) \/ CheckQuota(a)
    \/ ReadHistory(a) \/ InsertQuestion(a) \/ RetrieveVersion(a) \/ ReadIndex(a)
    \/ FetchCorpus(a) \/ KeepIndex(a) \/ Generate(a) \/ InsertAnswer(a)
    \/ ReplayAnswer(a) \/ StampVersion(a) \/ StoreAnswer(a) \/ AskStops(a)

\* The documents move; an ask that is answering is overtaken by any change of
\* its subject's chunks or version.
DocumentsMove ==
  /\ DocNext
  /\ overtaken' = overtaken \cup
       {a \in Asks : /\ at[a] \in Answering
                     /\ \/ chunks'[Subject(a)] # chunks[Subject(a)]
                        \/ version'[Subject(a)] # version[Subject(a)]}
  /\ UNCHANGED <<at, ask, said, cache, index, raced>>

\* Subjects that never had a document, or whose documents came and went.
TutorInit ==
  /\ NoDocuments
  /\ version \in [Subjects -> {0, 2}]
  /\ at = [a \in Asks |-> "idle"]
  /\ ask = [a \in Asks |-> NoAsk]
  /\ said = {}
  /\ cache = {}
  /\ index = [s \in Subjects |-> NoIndex]
  /\ overtaken = {}
  /\ raced = {}

TutorNext == (AskNext /\ UNCHANGED docVars) \/ DocumentsMove

TutorSpec == TutorInit /\ [][TutorNext]_tutorVars

-----------------------------------------------------------------------------
(* Properties. *)

TutorTypeOK ==
  /\ at \in [Asks -> AskPC]
  /\ ask \in [Asks -> Asking \cup {NoAsk}]
  /\ \A a \in Asks : Busy(a) => ask[a] \in Asking
  /\ said \subseteq Message
  /\ cache \subseteq Entry
  /\ index \in [Subjects -> Index \cup {NoIndex}]
  /\ overtaken \subseteq Asks
  /\ raced \subseteq Asks

\* The subject's documents are at rest, and what can be retrieved is what its
\* ready documents hold.
AtRest(s) ==
  /\ Quiet /\ stops = 0
  /\ s \in subjects
  /\ \A id \in chunks[s] : \E d \in rows : d.id = id /\ d.status = "ready"

\* The first bump is left out: it makes an absent key 1, and an absent key
\* reads as 1.
Settled(s) == AtRest(s) /\ version[s] >= 2

\* At rest, an answer the cache would serve is grounded in the documents as
\* they are, unless they changed while it was being generated.
StaleOnlyWhenOvertaken ==
  \A s \in Subjects : Settled(s) =>
    \A e \in Cached(s, version[s]) : e.by \in overtaken \/ e.corpus = chunks[s]

\* At rest, the index in memory, if it would be used, holds exactly what
\* Chroma holds: a slow rebuild never passes for the current one.
IndexIsCurrent ==
  \A s \in Subjects : Settled(s) /\ index[s] # NoIndex /\ index[s].version = Current(s)
    => index[s].corpus = chunks[s]

\* An answer whose prompt had earlier messages of its session is cached only
\* if two asks of that session ran at the same time.
CachedAlone ==
  \A e \in cache : e.recalled => e.by \in raced
=============================================================================
