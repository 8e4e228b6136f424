----------------------------- MODULE IngestText -----------------------------
(***************************************************************************)
(* What an ingest makes of a document (rag/ingest.py): the text of its     *)
(* pages, by their text layer or by OCR (rag/extractor.py); its chunks,    *)
(* each with a context written by the LLM (rag/contextualizer.py); their   *)
(* vectors, from the embedding service or from the cache all ingests share *)
(* (cache/ai_cache.py); and the chunks stored in the subject's collection. *)
(*                                                                         *)
(* A page, a paragraph, a slide and a sheet are all units here.  The       *)
(* chunker is external: it keeps the order of the text, and cuts it at the *)
(* units.  A vector is the text it was computed from.  Ingests of one      *)
(* document, and its status, are DocumentStore's.                          *)
(***************************************************************************)
EXTENDS Integers, Sequences, FiniteSets

CONSTANTS
  Docs,      \* documents
  Passages,  \* what a unit of a document says
  Content,   \* the passages of each document, in order
  NoVector,  \* nothing cached, nothing computed
  NoContext  \* the LLM answers nothing but white space

ASSUME ContentAssumption == Content \in [Docs -> Seq(Passages)]
ASSUME NoContextAssumption == NoContext \notin Docs

Units(d) == 1..Len(Content[d])

VARIABLES
  kind,      \* how each document must be read
  layer,     \* the text layer of each unit
  scan,      \* what OCR makes of it
  tesseract, \* is the OCR program installed
  job,       \* the ingest of each document
  cache,     \* vectors by raw chunk text
  index      \* the chunks stored for each document

fileVars == <<kind, layer, scan, tesseract>>
vars == <<fileVars, job, cache, index>>

-----------------------------------------------------------------------------
(* The data. *)

\* glyphs: a text layer with characters of a private use area, which show
\* nothing.  none: no text, or a page that cannot be parsed.
Layers == {"plain", "glyphs", "none"}

\* empty: the page gives no image, or OCR reads nothing in it; raises: rendering
\* or reading it does; found: a page that renders, and that OCR, if it is there,
\* can read.
Scans == {"found", "empty", "raises"}
Forms == Layers \cup {"ocr"}
Text == [passage : Passages, form : Forms]
Chunks == {t \in Text : t.form # "none"}

\* A chunk with its context, and the vector of such a text, are the same data.
Stored == [context : Docs \cup {NoContext}, chunk : Chunks]
Raw(c) == [context |-> NoContext, chunk |-> c]

Layer(d, i) == [passage |-> Content[d][i], form |-> layer[d][i]]

\* No text, or text with private glyphs.
NeedsOcr(l) == l # "plain"

NewJob == [stage |-> "read", text |-> <<>>, todo |-> {}, missing |-> FALSE,
           at |-> 1, final |-> <<>>, vectors |-> <<>>, misses |-> <<>>, fresh |-> <<>>]

Ended(stage) == [NewJob EXCEPT !.stage = stage]

Stages == {"read", "ocr", "look", "ask", "keep", "upsert", "ready", "failed", "no text", "no ocr"}

\* A set of places, in order.
InOrder(S) ==
  CHOOSE o \in [1..Cardinality(S) -> S] : \A j, k \in DOMAIN o : j < k => o[j] < o[k]

\* What OCR would make of a page is told apart only for the pages it is given.
Init ==
  /\ kind \in [Docs -> {"pdf", "office"}]
  /\ tesseract \in BOOLEAN
  /\ \E l \in [Docs -> UNION {[1..n -> Layers] : n \in {Len(Content[d]) : d \in Docs}}] :
       layer = l /\ \A d \in Docs : DOMAIN l[d] = Units(d)
  /\ \E s \in [Docs -> UNION {[1..n -> Scans] : n \in {Len(Content[d]) : d \in Docs}}] :
       /\ scan = s
       /\ \A d \in Docs : DOMAIN s[d] = Units(d)
       /\ \A d \in Docs : \A i \in Units(d) :
            kind[d] = "office" \/ layer[d][i] = "plain" => s[d][i] = "empty"
  /\ job = [d \in Docs |-> NewJob]
  /\ cache = [c \in Chunks |-> NoVector]
  /\ index = [d \in Docs |-> <<>>]

-----------------------------------------------------------------------------
(* Extraction. *)

\* The native pass over a PDF, which notes the pages to scan; an Office file
\* and a plain text have only that pass.
Read(d) ==
  /\ job[d].stage = "read"
  /\ job' = [job EXCEPT
       ![d].stage = "ocr",
       ![d].text = [i \in Units(d) |-> Layer(d, i)],
       ![d].todo = {i \in Units(d) : kind[d] = "pdf" /\ NeedsOcr(layer[d][i])}]
  /\ UNCHANGED <<fileVars, cache, index>>

\* Mutant: what OCR read takes the page's place even if it read nothing.
AlwaysReplaced(t, s) == [t EXCEPT !.form = IF s = "found" THEN "ocr" ELSE "none"]

\* What OCR read takes the page's place, unless it read nothing.
Recovered(t, s) == IF s = "found" THEN [t EXCEPT !.form = "ocr"] ELSE t

\* The page is rendered before the program is called: only a page with an image
\* shows that it is missing, and after that page no other is tried.
OcrPage(d) ==
  /\ job[d].stage = "ocr"
  /\ \E i \in job[d].todo :
       /\ \A k \in job[d].todo : i <= k
       /\ \/ /\ ~tesseract /\ scan[d][i] = "found"
             /\ job' = [job EXCEPT ![d].missing = TRUE, ![d].todo = {}]
          \/ /\ scan[d][i] = "empty" \/ (tesseract /\ scan[d][i] = "found")
             /\ job' = [job EXCEPT ![d].text[i] = Recovered(@, scan[d][i]), ![d].todo = @ \ {i}]
          \/ /\ scan[d][i] = "raises"
             /\ job' = [job EXCEPT ![d] = Ended("failed")]
  /\ UNCHANGED <<fileVars, cache, index>>

\* The units that say something, joined.
Said(text) == {i \in DOMAIN text : text[i].form # "none"}

Joined(text) == [k \in 1..Cardinality(Said(text)) |-> text[InOrder(Said(text))[k]]]

ChunksOf(d) == Joined(job[d].text)

\* Mutant: the text of a host without the program is not looked at.
RefusedFirst(j) ==
  IF j.missing THEN "no ocr" ELSE IF Joined(j.text) = <<>> THEN "no text" ELSE "look"

\* A document with no text is refused, for one of two reasons.
Verdict(j) ==
  IF Joined(j.text) # <<>> THEN "look" ELSE IF j.missing THEN "no ocr" ELSE "no text"

Extracted(d) ==
  /\ job[d].stage = "ocr" /\ job[d].todo = {}
  /\ LET v == Verdict(job[d]) IN
       job' = [job EXCEPT ![d] = IF v = "look" THEN [@ EXCEPT !.stage = v] ELSE Ended(v)]
  /\ UNCHANGED <<fileVars, cache, index>>

-----------------------------------------------------------------------------
(* Pass 1: the cache is asked with the raw text of a chunk; if it knows the
   chunk, the chunk is stored without a context. *)

Now(d) == ChunksOf(d)[job[d].at]

Look(d) ==
  /\ job[d].stage = "look" /\ job[d].at <= Len(ChunksOf(d))
  /\ \/ /\ cache[Now(d)] # NoVector
        /\ job' = [job EXCEPT ![d].at = @ + 1,
                              ![d].final = Append(@, Raw(Now(d))),
                              ![d].vectors = Append(@, cache[Now(d)])]
     \/ /\ cache[Now(d)] = NoVector
        /\ job' = [job EXCEPT ![d].stage = "ask"]
  /\ UNCHANGED <<fileVars, cache, index>>

\* Quota, context, charge: TokenQuota's.
Contextualise(d) ==
  /\ job[d].stage = "ask"
  /\ \E context \in {d, NoContext} :
       job' = [job EXCEPT ![d].stage = "look",
                          ![d].at = @ + 1,
                          ![d].final = Append(@, [context |-> context, chunk |-> Now(d)]),
                          ![d].vectors = Append(@, NoVector),
                          ![d].misses = Append(@, job[d].at)]
  /\ UNCHANGED <<fileVars, cache, index>>

-----------------------------------------------------------------------------
(* Pass 2: one call embeds every miss; the answers are put back in place and
   cached under the raw text, one by one. *)

Looked(d) == job[d].stage = "look" /\ job[d].at > Len(ChunksOf(d))

Embed(d) ==
  /\ Looked(d) /\ job[d].misses # <<>>
  /\ job' = [job EXCEPT ![d].stage = "keep", ![d].at = 1,
                        ![d].fresh = [k \in DOMAIN job[d].misses |-> job[d].final[job[d].misses[k]]]]
  /\ UNCHANGED <<fileVars, cache, index>>

\* Mutant: the answers are put at the front.
PlaceInOrder(j) == j.at

\* zip(miss_indices, fresh_embeddings)
Place(j) == j.misses[j.at]

Keep(d) ==
  /\ job[d].stage = "keep" /\ job[d].at <= Len(job[d].misses)
  /\ LET vector == job[d].fresh[job[d].at] IN
       /\ job' = [job EXCEPT ![d].at = @ + 1, ![d].vectors[Place(job[d])] = vector]
       /\ cache' = [cache EXCEPT ![ChunksOf(d)[Place(job[d])]] = vector]
  /\ UNCHANGED <<fileVars, index>>

\* 30 days later.
Expire ==
  \E c \in Chunks :
    /\ cache[c] # NoVector
    /\ cache' = [cache EXCEPT ![c] = NoVector]
    /\ UNCHANGED <<fileVars, job, index>>

-----------------------------------------------------------------------------
(* The collection. *)

Kept(d) == job[d].stage = "keep" /\ job[d].at > Len(job[d].misses)

DeleteOld(d) ==
  /\ (Looked(d) /\ job[d].misses = <<>>) \/ Kept(d)
  /\ index' = [index EXCEPT ![d] = <<>>]
  /\ job' = [job EXCEPT ![d].stage = "upsert"]
  /\ UNCHANGED <<fileVars, cache>>

Upsert(d) ==
  /\ job[d].stage = "upsert"
  /\ index' = [index EXCEPT ![d] = [i \in DOMAIN job[d].final |->
                                      [text |-> job[d].final[i], vector |-> job[d].vectors[i]]]]
  /\ job' = [job EXCEPT ![d] = [Ended("ready") EXCEPT !.text = job[d].text]]
  /\ UNCHANGED <<fileVars, cache>>

\* The store, the LLM, the quota, the cache or the embedding service raises.
CallFails(d) ==
  /\ job[d].stage \in {"read", "look", "ask", "keep", "upsert"}
  /\ job' = [job EXCEPT ![d] = Ended("failed")]
  /\ UNCHANGED <<fileVars, cache, index>>

\* The document is deleted and its file uploaded again, as another document.
Again(d) ==
  /\ job[d].stage \in {"failed", "ready"}
  /\ job' = [job EXCEPT ![d] = NewJob]
  /\ index' = [index EXCEPT ![d] = <<>>]
  /\ UNCHANGED <<fileVars, cache>>

-----------------------------------------------------------------------------
Extracts(d) == Read(d) \/ OcrPage(d) \/ Extracted(d)
Enriches(d) == Look(d) \/ Contextualise(d) \/ Embed(d) \/ Keep(d)
Stores(d) == DeleteOld(d) \/ Upsert(d)

Next ==
  \/ \E d \in Docs : Extracts(d) \/ Enriches(d) \/ Stores(d) \/ CallFails(d) \/ Again(d)
  \/ Expire

Spec == Init /\ [][Next]_vars

-----------------------------------------------------------------------------
(* Properties. *)

Job ==
  [stage : Stages, text : Seq(Text), todo : SUBSET Nat, missing : BOOLEAN, at : Nat \ {0},
   final : Seq(Stored), vectors : Seq(Stored \cup {NoVector}),
   misses : Seq(Nat), fresh : Seq(Stored)]

IngestTypeOK ==
  /\ kind \in [Docs -> {"pdf", "office"}] /\ tesseract \in BOOLEAN
  /\ \A d \in Docs : layer[d] \in [Units(d) -> Layers] /\ scan[d] \in [Units(d) -> Scans]
  /\ job \in [Docs -> Job]
  /\ cache \in [Chunks -> Stored \cup {NoVector}]
  /\ index \in [Docs -> Seq([text : Stored, vector : Stored])]

\* The form in which a unit is best read: with its private glyphs only if OCR
\* sees nothing, or was not there.
Best(d, i) ==
  IF kind[d] = "pdf" /\ tesseract /\ layer[d][i] # "plain" /\ scan[d][i] = "found"
  THEN "ocr" ELSE layer[d][i]

Readable(d) == [i \in Units(d) |-> [passage |-> Content[d][i], form |-> Best(d, i)]]

Unread(d) == job[d].stage \in {"read", "ocr", "failed", "no text", "no ocr"}

\* What goes on to be chunked is every unit that can be read, in its best form
\* and in order: no page hides another, and no page is lost to a better one.
TextIsBest ==
  \A d \in Docs : ~Unread(d) =>
    ChunksOf(d) = Joined(Readable(d))

\* A document is refused only if nothing in it can be read; and for the want of
\* the OCR program only on a host that has none.
RefusedOnlyIfUnreadable ==
  \A d \in Docs : job[d].stage \in {"no text", "no ocr"} =>
    /\ \A i \in Units(d) : Best(d, i) = "none"
    /\ job[d].stage = "no ocr" => ~tesseract

\* A chunk is found by a vector of itself: the vector stored beside a text, from
\* the cache, from another ingest or from a batch with holes in it, is that of
\* the same chunk, and of the very text unless it was stored without a context;
\* and the chunks stored are those of the document, in order.
VectorsAligned ==
  \A d \in Docs :
    /\ \A i \in DOMAIN index[d] :
         LET stored == index[d][i]
         IN  /\ stored.vector.chunk = stored.text.chunk
             /\ stored.vector = stored.text \/ stored.text.context = NoContext
    /\ job[d].stage = "ready" => [i \in DOMAIN index[d] |-> index[d][i].text.chunk] = ChunksOf(d)
=============================================================================
