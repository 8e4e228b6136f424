--------------------------- MODULE IngestTextProofs ---------------------------
(***************************************************************************)
(* Proofs about IngestText, for any documents with any content.            *)
(***************************************************************************)
EXTENDS IngestText, TLAPS, FiniteSetTheorems, WellFoundedInduction

-----------------------------------------------------------------------------
(* The units that say something, in order. *)

\* A set of natural numbers that is not empty has a least element.
LEMMA LeastOf ==
  ASSUME NEW T \in SUBSET Nat, NEW n \in T
  PROVE  \E m \in T : \A k \in T : m <= k
<1>1. PICK m \in T : \A k \in T : ~(<<k, m>> \in OpToRel(<, Nat))
  BY WFMin, NatLessThanWellFounded, Zenon
<1>2. \A k \in T : ~(k < m)
  BY <1>1, Zenon DEF OpToRel
<1> QED
  BY <1>2

Ordered(o, S) ==
  o \in [1..Cardinality(S) -> S] /\ \A j, k \in DOMAIN o : j < k => o[j] < o[k]

\* Any places of a text can be put in order: by what is left without the last.
LEMMA OrderExists ==
  ASSUME NEW n \in Nat, NEW S \in SUBSET (1..n)
  PROVE  IsFiniteSet(S) /\ \E o : Ordered(o, S)
<1> DEFINE Fails == {m \in Nat : \E R \in SUBSET (1..m) : ~\E o : Ordered(o, R)}
<1>1. ASSUME NEW m \in Nat, NEW R \in SUBSET (1..m)
      PROVE  IsFiniteSet(R) /\ Cardinality(R) \in Nat
  <2>1. IsFiniteSet(1..m)
    BY FS_Interval
  <2> QED
    BY <2>1, FS_Subset, FS_CardinalityType
<1>2. ASSUME Fails # {} PROVE FALSE
  <2>1. PICK m \in Fails : \A k \in Fails : m <= k
    BY <1>2, LeastOf
  <2>2. PICK R \in SUBSET (1..m) : ~\E o : Ordered(o, R)
    BY <2>1
  <2>3. CASE m = 0
    <3>0. R = {}
      BY <2>3
    <3>1. R = {} /\ Cardinality(R) = 0
      BY <3>0, FS_EmptySet
    <3>2. Ordered([j \in 1..0 |-> j], R)
      BY <3>1 DEF Ordered
    <3> QED
      BY <2>2, <3>2
  <2>4. CASE m # 0
    <3> DEFINE Q == R \ {m}
    <3>1. m \in Nat /\ m - 1 \in Nat /\ m - 1 < m /\ Q \in SUBSET (1..(m - 1))
      BY <2>1, <2>4
    <3>2. m - 1 \notin Fails
      <4> HIDE DEF Fails
      <4> QED
        BY <2>1, <3>1
    <3>3. PICK o : Ordered(o, Q)
      BY <3>1, <3>2
    <3>4. CASE m \notin R
      BY <2>2, <3>3, <3>4
    <3>5. CASE m \in R
      <4> DEFINE c == Cardinality(Q)
                 p == [j \in 1..(c + 1) |-> IF j = c + 1 THEN m ELSE o[j]]
      <4>1. c \in Nat /\ Cardinality(R) = c + 1
        <5>1. IsFiniteSet(R) /\ Cardinality(R) \in Nat
          BY <1>1, <3>1
        <5>2. Cardinality(Q) = Cardinality(R) - 1
          BY <3>5, <5>1, FS_RemoveElement
        <5>3. IsFiniteSet(Q) /\ Cardinality(Q) \in Nat
          BY <1>1, <3>1
        <5> QED
          BY <5>1, <5>2, <5>3
      <4>2. /\ o \in [1..c -> Q]
            /\ \A j, k \in 1..c : j < k => o[j] < o[k]
            /\ \A j \in 1..c : o[j] \in R /\ o[j] < m
        <5>1. o \in [1..c -> Q] /\ \A j, k \in 1..c : j < k => o[j] < o[k]
          BY <3>3 DEF Ordered
        <5>2. \A j \in 1..c : o[j] \in Q
          BY <5>1
        <5>3. \A q \in Q : q \in R /\ q < m
          BY <3>1
        <5> QED
          BY <5>1, <5>2, <5>3
      <4> HIDE DEF c
      <4>3. p \in [1..(c + 1) -> R]
        BY <3>5, <4>1, <4>2
      <4>4. ASSUME NEW j \in 1..(c + 1), NEW k \in 1..(c + 1), j < k PROVE p[j] < p[k]
        <5>1. j \in 1..c /\ p[j] = o[j] /\ (k # c + 1 => k \in 1..c /\ p[k] = o[k])
          BY <4>1, <4>4
        <5> QED
          BY <4>2, <4>4, <5>1
      <4> HIDE DEF p
      <4>5. Ordered(p, R)
        BY <4>1, <4>3, <4>4 DEF Ordered
      <4> QED
        BY <2>2, <4>5
    <3> QED
      BY <3>4, <3>5
  <2> QED
    BY <2>3, <2>4
<1> QED
  BY <1>1, <1>2

LEMMA InOrderOf ==
  ASSUME NEW n \in Nat, NEW S \in SUBSET (1..n)
  PROVE  /\ Cardinality(S) \in Nat
         /\ InOrder(S) \in [1..Cardinality(S) -> S]
         /\ Cardinality(S) = 0 <=> S = {}
<1>1. IsFiniteSet(S) /\ \E o : Ordered(o, S)
  BY OrderExists
<1>2. Cardinality(S) \in Nat /\ (Cardinality(S) = 0 <=> S = {})
  BY <1>1, FS_CardinalityType, FS_EmptySet
<1>3. \E o \in [1..Cardinality(S) -> S] : \A j, k \in DOMAIN o : j < k => o[j] < o[k]
  BY <1>1 DEF Ordered
<1>4. InOrder(S) \in [1..Cardinality(S) -> S]
  BY <1>3, Zenon DEF InOrder
<1> QED
  BY <1>2, <1>4

LEMMA JoinedType ==
  ASSUME NEW text \in Seq(Text)
  PROVE  Joined(text) \in Seq(Chunks) /\ (Joined(text) = <<>> <=> Said(text) = {})
<1> DEFINE n == Len(text)
           S == Said(text)
           o == InOrder(S)
<1>1. n \in Nat /\ S \in SUBSET (1..n) /\ \A i \in S : text[i] \in Chunks
  BY DEF Said, Chunks
<1>2. Cardinality(S) \in Nat /\ o \in [1..Cardinality(S) -> S] /\ (Cardinality(S) = 0 <=> S = {})
  BY <1>1, InOrderOf
<1> HIDE DEF S, n, o
<1>3. Joined(text) = [k \in 1..Cardinality(S) |-> text[o[k]]]
  BY DEF Joined, S, o
<1>4. \A k \in 1..Cardinality(S) : text[o[k]] \in Chunks
  BY <1>1, <1>2
<1>5. Joined(text) \in Seq(Chunks) /\ Len(Joined(text)) = Cardinality(S)
  BY <1>2, <1>3, <1>4
<1>6. Joined(text) = <<>> <=> Len(Joined(text)) = 0
  BY <1>5
<1> QED
  BY <1>2, <1>5, <1>6 DEF S

-----------------------------------------------------------------------------
(* The invariants. *)

\* The pages that are still to scan have the text layer, the others their best.
HalfRead(d) ==
  [i \in Units(d) |-> [passage |-> Content[d][i],
                       form |-> IF i \in job[d].todo THEN layer[d][i] ELSE Best(d, i)]]

ToScan(d) == {i \in Units(d) : kind[d] = "pdf" /\ NeedsOcr(layer[d][i])}

TextInv(d) ==
  /\ job[d].stage = "ocr" =>
       /\ job[d].todo \subseteq ToScan(d)
       /\ job[d].missing => ~tesseract
       /\ job[d].text = HalfRead(d)
  /\ ~Unread(d) => job[d].text = Readable(d)
  /\ job[d].stage \in {"no text", "no ocr"} => Said(Readable(d)) = {}
  /\ job[d].stage = "no ocr" => ~tesseract

\* What is stored beside a text is a vector of its chunk.
Aligned(vector, text) ==
  vector \in Stored /\ vector.chunk = text.chunk /\ (vector = text \/ text.context = NoContext)

\* A place whose vector is still to come: a miss, until its answer is kept.
Awaited(j, i) ==
  \E k \in DOMAIN j.misses :
    /\ j.misses[k] = i
    /\ j.stage \in {"look", "ask"} \/ (j.stage = "keep" /\ k >= j.at)

\* The lists of the two passes, over the chunks of the document.
BatchOK(j, chunks) ==
  /\ Len(j.vectors) = Len(j.final)
  /\ j.stage \in {"look", "ask"} => Len(j.final) = j.at - 1 /\ j.at <= Len(chunks) + 1
  /\ j.stage = "ask" => j.at <= Len(chunks)
  /\ j.stage \in {"keep", "upsert"} => Len(j.final) = Len(chunks)
  /\ Len(j.final) <= Len(chunks)
  /\ \A i \in DOMAIN j.final : j.final[i].chunk = chunks[i]
  /\ \A k \in DOMAIN j.misses : j.misses[k] \in DOMAIN j.final
  /\ j.stage = "keep" =>
       /\ Len(j.fresh) = Len(j.misses)
       /\ \A k \in DOMAIN j.misses : j.fresh[k] = j.final[j.misses[k]]
  /\ \A i \in DOMAIN j.final : Awaited(j, i) \/ Aligned(j.vectors[i], j.final[i])

Batching(d) == job[d].stage \in {"look", "ask", "keep", "upsert"}

Untouched(j) ==
  /\ j.at = 1 /\ j.final = <<>> /\ j.vectors = <<>> /\ j.misses = <<>>
  /\ j.stage = "read" => ~j.missing

BatchInv(d) ==
  /\ job[d].stage \in {"read", "ocr"} => Untouched(job[d])
  /\ Batching(d) => BatchOK(job[d], ChunksOf(d))

CacheInv == \A c \in Chunks : cache[c] # NoVector => cache[c] \in Stored /\ cache[c].chunk = c

IndexInv(d) ==
  /\ \A i \in DOMAIN index[d] : Aligned(index[d][i].vector, index[d][i].text)
  /\ job[d].stage = "ready" =>
       /\ Len(index[d]) = Len(ChunksOf(d))
       /\ \A i \in DOMAIN index[d] : index[d][i].text.chunk = ChunksOf(d)[i]

IngestInv ==
  /\ IngestTypeOK /\ CacheInv
  /\ \A d \in Docs : TextInv(d) /\ BatchInv(d) /\ IndexInv(d)

-----------------------------------------------------------------------------
(* The data. *)

LEMMA UnitsType == ASSUME NEW d \in Docs PROVE Len(Content[d]) \in Nat /\ \A i \in Units(d) : Content[d][i] \in Passages
BY ContentAssumption DEF Units

LEMMA JobFields ==
  ASSUME NEW j \in Job
  PROVE  /\ j.stage \in Stages /\ j.text \in Seq(Text) /\ j.todo \in SUBSET Nat
         /\ j.missing \in BOOLEAN /\ j.at \in Nat \ {0} /\ j.final \in Seq(Stored)
         /\ j.vectors \in Seq(Stored \cup {NoVector}) /\ j.misses \in Seq(Nat)
         /\ j.fresh \in Seq(Stored)
BY DEF Job

LEMMA EndedJob ==
  /\ NewJob \in Job /\ NewJob.stage = "read" /\ NewJob.at = 1 /\ NewJob.final = <<>>
  /\ NewJob.vectors = <<>> /\ NewJob.misses = <<>> /\ ~NewJob.missing
  /\ \A s \in Stages : Ended(s) \in Job /\ Ended(s).stage = s
<1>1. /\ <<>> \in Seq(Text) /\ <<>> \in Seq(Stored) /\ <<>> \in Seq(Stored \cup {NoVector})
      /\ <<>> \in Seq(Nat) /\ {} \in SUBSET Nat /\ 1 \in Nat \ {0} /\ "read" \in Stages
  BY DEF Stages
<1>2. NewJob \in Job
  BY <1>1 DEF NewJob, Job
<1>3. \A s \in Stages : Ended(s) \in Job /\ Ended(s).stage = s
  BY <1>2 DEF Ended, Job
<1> QED
  BY <1>2, <1>3 DEF NewJob

LEMMA ChunkTypes ==
  /\ \A c \in Chunks : Raw(c) \in Stored /\ Raw(c).chunk = c /\ Raw(c).context = NoContext
  /\ \A c \in Chunks, x \in Docs \cup {NoContext} :
       [context |-> x, chunk |-> c] \in Stored /\ [context |-> x, chunk |-> c].chunk = c
  /\ \A s \in Stored : s.chunk \in Chunks
BY DEF Raw, Stored

LEMMA ReadableType == ASSUME IngestTypeOK, NEW d \in Docs PROVE Readable(d) \in Seq(Text)
<1>1. Len(Content[d]) \in Nat /\ Units(d) = 1..Len(Content[d]) /\ \A i \in Units(d) : Content[d][i] \in Passages
  BY UnitsType DEF Units
<1>2. \A i \in Units(d) : Best(d, i) \in Forms
  BY DEF IngestTypeOK, Best, Forms
<1>3. Readable(d) \in [1..Len(Content[d]) -> Text]
  BY <1>1, <1>2 DEF Readable, Text
<1> QED
  BY <1>1, <1>3

-----------------------------------------------------------------------------
(* The lists of the two passes. *)

LEMMA Appended ==
  ASSUME NEW S, NEW s \in Seq(S), NEW x \in S
  PROVE  /\ Append(s, x) \in Seq(S) /\ Len(s) \in Nat /\ Len(Append(s, x)) = Len(s) + 1
         /\ DOMAIN s = 1..Len(s) /\ DOMAIN Append(s, x) = 1..(Len(s) + 1)
         /\ Append(s, x)[Len(s) + 1] = x
         /\ \A i \in 1..Len(s) : Append(s, x)[i] = s[i]
OBVIOUS

\* A chunk the cache knows.
LEMMA LookBatch ==
  ASSUME NEW chunks \in Seq(Chunks), NEW j \in Job, NEW n \in Job, BatchOK(j, chunks),
         j.stage = "look", j.at <= Len(chunks), n.stage = "look", n.at = j.at + 1,
         NEW v \in Stored, v.chunk = chunks[j.at],
         n.final = Append(j.final, Raw(chunks[j.at])), n.vectors = Append(j.vectors, v),
         n.misses = j.misses
  PROVE  BatchOK(n, chunks)
<1>1. /\ j.at \in Nat \ {0} /\ j.final \in Seq(Stored) /\ j.misses \in Seq(Nat)
      /\ j.vectors \in Seq(Stored \cup {NoVector})
      /\ Len(j.final) = j.at - 1 /\ Len(j.vectors) = j.at - 1
      /\ n.at = j.at + 1 /\ j.at <= Len(chunks) /\ Len(chunks) \in Nat
  <2>1. /\ j.at \in Nat \ {0} /\ j.final \in Seq(Stored) /\ j.misses \in Seq(Nat)
        /\ j.vectors \in Seq(Stored \cup {NoVector})
    BY JobFields
  <2>2. Len(j.final) = j.at - 1 /\ Len(j.vectors) = Len(j.final)
    BY DEF BatchOK
  <2>3. j.at <= Len(chunks)
    BY DEF BatchOK
  <2>4. Len(chunks) \in Nat
    OBVIOUS
  <2> QED
    BY <2>1, <2>2, <2>3, <2>4
<1>0. /\ chunks[j.at] \in Chunks /\ Raw(chunks[j.at]) \in Stored
      /\ Raw(chunks[j.at]).chunk = chunks[j.at] /\ Raw(chunks[j.at]).context = NoContext
  <2>1. j.at \in 1..Len(chunks)
    BY <1>1
  <2>2. chunks[j.at] \in Chunks
    BY <2>1
  <2> QED
    BY <2>2, ChunkTypes
<1>2. /\ Len(n.final) = j.at /\ Len(n.vectors) = j.at
      /\ DOMAIN n.final = 1..j.at /\ DOMAIN j.final = 1..(j.at - 1)
      /\ n.final[j.at] = Raw(chunks[j.at]) /\ n.vectors[j.at] = v
      /\ \A i \in 1..(j.at - 1) : n.final[i] = j.final[i] /\ n.vectors[i] = j.vectors[i]
  <2>1. j.at - 1 + 1 = j.at
    BY <1>1
  <2>2. v \in Stored \cup {NoVector}
    OBVIOUS
  <2>3. /\ Len(n.final) = j.at /\ DOMAIN n.final = 1..j.at /\ DOMAIN j.final = 1..(j.at - 1)
        /\ n.final[j.at] = Raw(chunks[j.at])
        /\ \A i \in 1..(j.at - 1) : n.final[i] = j.final[i]
    BY <1>0, <1>1, <2>1, Appended
  <2>4. /\ Len(n.vectors) = j.at /\ n.vectors[j.at] = v
        /\ \A i \in 1..(j.at - 1) : n.vectors[i] = j.vectors[i]
    BY <1>1, <2>1, <2>2, Appended
  <2> QED
    BY <2>3, <2>4
<1>3. \A i \in DOMAIN n.final : n.final[i].chunk = chunks[i]
  <2>1. \A i \in 1..(j.at - 1) : j.final[i].chunk = chunks[i]
    BY <1>2 DEF BatchOK
  <2>2. n.final[j.at].chunk = chunks[j.at]
    BY <1>0, <1>2
  <2>3. ASSUME NEW i \in 1..(j.at - 1) PROVE n.final[i].chunk = chunks[i]
    BY <1>2, <2>1
  <2>4. \A i \in 1..j.at : i = j.at \/ i \in 1..(j.at - 1)
    BY <1>1
  <2> QED
    BY <1>2, <2>2, <2>3, <2>4
<1>4. Aligned(n.vectors[j.at], n.final[j.at])
  BY <1>0, <1>2 DEF Aligned
<1>5. ASSUME NEW i \in 1..(j.at - 1) PROVE Awaited(n, i) \/ Aligned(n.vectors[i], n.final[i])
  <2>1. Awaited(j, i) \/ Aligned(j.vectors[i], j.final[i])
    BY <1>2 DEF BatchOK
  <2>2. Awaited(j, i) => Awaited(n, i)
    BY DEF Awaited
  <2> QED
    BY <1>2, <2>1, <2>2
<1>6. \A k \in DOMAIN n.misses : n.misses[k] \in DOMAIN n.final
  BY <1>1, <1>2 DEF BatchOK
<1>7. \A i \in DOMAIN n.final : Awaited(n, i) \/ Aligned(n.vectors[i], n.final[i])
  <2>1. \A i \in 1..j.at : i = j.at \/ i \in 1..(j.at - 1)
    BY <1>1
  <2> QED
    BY <1>2, <1>4, <1>5, <2>1
<1>9. Len(n.final) = n.at - 1 /\ n.at <= Len(chunks) + 1 /\ Len(n.final) <= Len(chunks)
  BY <1>1, <1>2
<1> QED
  BY <1>2, <1>3, <1>6, <1>7, <1>9 DEF BatchOK

\* A chunk the cache does not know: its vector is awaited.
LEMMA MissBatch ==
  ASSUME NEW chunks \in Seq(Chunks), NEW j \in Job, NEW n \in Job, BatchOK(j, chunks),
         j.stage = "ask", n.stage = "look", n.at = j.at + 1,
         NEW t \in Stored, t.chunk = chunks[j.at],
         n.final = Append(j.final, t), n.vectors = Append(j.vectors, NoVector),
         n.misses = Append(j.misses, j.at)
  PROVE  BatchOK(n, chunks)
<1>1. /\ j.at \in Nat \ {0} /\ j.final \in Seq(Stored) /\ j.misses \in Seq(Nat)
      /\ j.vectors \in Seq(Stored \cup {NoVector})
      /\ Len(j.final) = j.at - 1 /\ Len(j.vectors) = j.at - 1
      /\ n.at = j.at + 1 /\ j.at <= Len(chunks) /\ Len(chunks) \in Nat
  <2>1. /\ j.at \in Nat \ {0} /\ j.final \in Seq(Stored) /\ j.misses \in Seq(Nat)
        /\ j.vectors \in Seq(Stored \cup {NoVector})
    BY JobFields
  <2>2. Len(j.final) = j.at - 1 /\ Len(j.vectors) = Len(j.final)
    BY DEF BatchOK
  <2>3. j.at <= Len(chunks)
    BY DEF BatchOK
  <2>4. Len(chunks) \in Nat
    OBVIOUS
  <2> QED
    BY <2>1, <2>2, <2>3, <2>4
<1>2. /\ Len(n.final) = j.at /\ Len(n.vectors) = j.at
      /\ DOMAIN n.final = 1..j.at /\ DOMAIN j.final = 1..(j.at - 1)
      /\ n.final[j.at] = t
      /\ \A i \in 1..(j.at - 1) : n.final[i] = j.final[i] /\ n.vectors[i] = j.vectors[i]
  <2>1. j.at - 1 + 1 = j.at
    BY <1>1
  <2>2. NoVector \in Stored \cup {NoVector}
    OBVIOUS
  <2>3. /\ Len(n.final) = j.at /\ DOMAIN n.final = 1..j.at /\ DOMAIN j.final = 1..(j.at - 1)
        /\ n.final[j.at] = t
        /\ \A i \in 1..(j.at - 1) : n.final[i] = j.final[i]
    BY <1>1, <2>1, Appended
  <2>4. /\ Len(n.vectors) = j.at
        /\ \A i \in 1..(j.at - 1) : n.vectors[i] = j.vectors[i]
    BY <1>1, <2>1, <2>2, Appended
  <2> QED
    BY <2>3, <2>4
<1>3. /\ DOMAIN n.misses = 1..(Len(j.misses) + 1) /\ DOMAIN j.misses = 1..Len(j.misses)
      /\ Len(j.misses) \in Nat
      /\ n.misses[Len(j.misses) + 1] = j.at
      /\ \A k \in 1..Len(j.misses) : n.misses[k] = j.misses[k]
  <2>1. j.misses \in Seq(Nat) /\ j.at \in Nat
    BY <1>1
  <2> QED
    BY <2>1, Appended
<1>4. \A i \in DOMAIN n.final : n.final[i].chunk = chunks[i]
  <2>1. \A i \in 1..(j.at - 1) : j.final[i].chunk = chunks[i]
    BY <1>2 DEF BatchOK
  <2>2. n.final[j.at].chunk = chunks[j.at]
    BY <1>2
  <2>3. ASSUME NEW i \in 1..(j.at - 1) PROVE n.final[i].chunk = chunks[i]
    BY <1>2, <2>1
  <2>4. \A i \in 1..j.at : i = j.at \/ i \in 1..(j.at - 1)
    BY <1>1
  <2> QED
    BY <1>2, <2>2, <2>3, <2>4
<1>5. Awaited(n, j.at)
  <2>1. Len(j.misses) + 1 \in DOMAIN n.misses
    BY <1>3
  <2> QED
    BY <1>3, <2>1 DEF Awaited
<1>6. ASSUME NEW i \in 1..(j.at - 1) PROVE Awaited(n, i) \/ Aligned(n.vectors[i], n.final[i])
  <2>1. Awaited(j, i) \/ Aligned(j.vectors[i], j.final[i])
    BY <1>2 DEF BatchOK
  <2>2. Awaited(j, i) => Awaited(n, i)
    <3>1. DOMAIN j.misses \subseteq DOMAIN n.misses
      BY <1>3
    <3> QED
      BY <1>3, <3>1 DEF Awaited
  <2> QED
    BY <1>2, <2>1, <2>2
<1>7. \A k \in DOMAIN n.misses : n.misses[k] \in DOMAIN n.final
  <2>1. \A k \in 1..Len(j.misses) : j.misses[k] \in 1..(j.at - 1)
    BY <1>2, <1>3 DEF BatchOK
  <2>2. ASSUME NEW k \in 1..(Len(j.misses) + 1) PROVE n.misses[k] \in 1..j.at
    <3>1. CASE k = Len(j.misses) + 1
      BY <1>1, <1>3, <3>1
    <3>2. CASE k # Len(j.misses) + 1
      <4>1. k \in 1..Len(j.misses)
        BY <1>3, <3>2
      <4>2. n.misses[k] \in 1..(j.at - 1)
        <5>1. n.misses[k] = j.misses[k]
          BY <1>3, <4>1
        <5>2. j.misses[k] \in 1..(j.at - 1)
          BY <2>1, <4>1
        <5> QED
          BY <5>1, <5>2
      <4>3. \A x \in 1..(j.at - 1) : x \in 1..j.at
        BY <1>1
      <4> QED
        BY <4>2, <4>3, Zenon
    <3> QED
      BY <3>1, <3>2
  <2> QED
    BY <1>2, <1>3, <2>2
<1>8. \A i \in DOMAIN n.final : Awaited(n, i) \/ Aligned(n.vectors[i], n.final[i])
  <2>1. \A i \in 1..j.at : i = j.at \/ i \in 1..(j.at - 1)
    BY <1>1
  <2> QED
    BY <1>2, <1>5, <1>6, <2>1
<1>9. Len(n.final) = n.at - 1 /\ n.at <= Len(chunks) + 1 /\ Len(n.final) <= Len(chunks)
  BY <1>1, <1>2
<1> QED
  BY <1>2, <1>4, <1>7, <1>8, <1>9 DEF BatchOK

\* The answers to one call, in the order of the misses.
LEMMA EmbedBatch ==
  ASSUME NEW chunks \in Seq(Chunks), NEW j \in Job, NEW n \in Job, BatchOK(j, chunks),
         j.stage = "look", j.at > Len(chunks), n.stage = "keep", n.at = 1,
         n.final = j.final, n.vectors = j.vectors, n.misses = j.misses,
         n.fresh = [k \in DOMAIN j.misses |-> j.final[j.misses[k]]]
  PROVE  BatchOK(n, chunks)
<1>1. /\ j.at \in Nat \ {0} /\ j.final \in Seq(Stored) /\ j.misses \in Seq(Nat) /\ Len(chunks) \in Nat
      /\ Len(j.final) = Len(chunks) /\ Len(j.vectors) = Len(j.final)
  BY JobFields DEF BatchOK
<1>2. n.fresh \in Seq(Stored) /\ Len(n.fresh) = Len(n.misses)
      /\ \A k \in DOMAIN n.misses : n.fresh[k] = n.final[n.misses[k]]
  BY <1>1, JobFields
<1>3. ASSUME NEW i \in DOMAIN n.final PROVE Awaited(n, i) \/ Aligned(n.vectors[i], n.final[i])
  <2>1. Awaited(j, i) \/ Aligned(j.vectors[i], j.final[i])
    BY DEF BatchOK
  <2>2. Awaited(j, i) => Awaited(n, i)
    BY <1>1 DEF Awaited
  <2> QED
    BY <2>1, <2>2
<1> QED
  BY <1>1, <1>2, <1>3 DEF BatchOK

\* An answer takes the place of its miss.
LEMMA KeepBatch ==
  ASSUME NEW chunks \in Seq(Chunks), NEW j \in Job, NEW n \in Job, BatchOK(j, chunks),
         j.stage = "keep", j.at \in DOMAIN j.misses, n.stage = "keep", n.at = j.at + 1,
         n.final = j.final, n.misses = j.misses, n.fresh = j.fresh,
         n.vectors = [j.vectors EXCEPT ![j.misses[j.at]] = j.fresh[j.at]]
  PROVE  BatchOK(n, chunks)
<1> DEFINE p == j.misses[j.at]
<1>0. /\ j.at \in Nat \ {0} /\ j.final \in Seq(Stored) /\ j.misses \in Seq(Nat)
      /\ j.vectors \in Seq(Stored \cup {NoVector})
  BY JobFields
<1>1. /\ Len(j.vectors) = Len(j.final) /\ p \in DOMAIN j.final /\ DOMAIN j.final = DOMAIN j.vectors
      /\ j.fresh[j.at] = j.final[p]
  <2>1. Len(j.vectors) = Len(j.final)
    BY DEF BatchOK
  <2>2. p \in DOMAIN j.final /\ j.fresh[j.at] = j.final[p]
    BY DEF BatchOK
  <2> QED
    BY <1>0, <2>1, <2>2
<1>2. /\ Len(n.vectors) = Len(n.final) /\ n.vectors[p] = n.final[p]
      /\ \A i \in DOMAIN n.final : i # p => n.vectors[i] = j.vectors[i]
  BY <1>0, <1>1
<1>3. ASSUME NEW i \in DOMAIN n.final PROVE Awaited(n, i) \/ Aligned(n.vectors[i], n.final[i])
  <2>1. CASE i = p
    <3>1. n.final[p] \in Stored
      BY <1>0, <1>1
    <3> QED
      BY <1>2, <2>1, <3>1 DEF Aligned
  <2>2. CASE i # p
    <3>1. Awaited(j, i) \/ Aligned(j.vectors[i], j.final[i])
      BY DEF BatchOK
    <3>2. Awaited(j, i) => Awaited(n, i)
      BY <1>0, <1>1, <2>2 DEF Awaited
    <3> QED
      BY <1>2, <2>2, <3>1, <3>2
  <2> QED
    BY <2>1, <2>2
<1> QED
  BY <1>2, <1>3 DEF BatchOK

\* With every answer in place, nothing is awaited.
LEMMA DoneBatch ==
  ASSUME NEW chunks \in Seq(Chunks), NEW j \in Job, NEW n \in Job, BatchOK(j, chunks),
         \/ j.stage = "look" /\ j.at > Len(chunks) /\ j.misses = <<>>
         \/ j.stage = "keep" /\ j.at > Len(j.misses),
         n.stage = "upsert", n.final = j.final, n.vectors = j.vectors, n.misses = j.misses
  PROVE  BatchOK(n, chunks)
<1>1. /\ j.at \in Nat \ {0} /\ j.misses \in Seq(Nat) /\ Len(chunks) \in Nat
      /\ Len(j.final) = Len(chunks) /\ Len(j.vectors) = Len(j.final)
  BY JobFields DEF BatchOK
<1>2. ASSUME NEW i \in DOMAIN j.final PROVE Aligned(j.vectors[i], j.final[i])
  <2>1. ~Awaited(j, i)
    BY <1>1 DEF Awaited
  <2> QED
    BY <2>1 DEF BatchOK
<1> QED
  BY <1>1, <1>2 DEF BatchOK

-----------------------------------------------------------------------------
(* Types. *)

LEMMA Updated ==
  ASSUME NEW S, NEW s \in Seq(S), NEW i, NEW x, i \in DOMAIN s => x \in S
  PROVE  /\ [s EXCEPT ![i] = x] \in Seq(S) /\ Len([s EXCEPT ![i] = x]) = Len(s)
         /\ DOMAIN [s EXCEPT ![i] = x] = DOMAIN s
<1> DEFINE t == [s EXCEPT ![i] = x]
<1>1. Len(s) \in Nat /\ DOMAIN s = 1..Len(s) /\ \A k \in DOMAIN s : s[k] \in S
  OBVIOUS
<1>2. t \in [1..Len(s) -> S]
  BY <1>1
<1> HIDE DEF t
<1>3. t \in Seq(S) /\ Len(t) = Len(s) /\ DOMAIN t = DOMAIN s
  BY <1>1, <1>2
<1> QED
  BY <1>3 DEF t

OnlyJob(d) == \A e \in Docs \ {d} : job'[e] = job[e]

\* A step that gives one document another job.
LEMMA OneJob ==
  ASSUME IngestTypeOK, NEW d \in Docs, NEW n \in Job, job' = [job EXCEPT ![d] = n]
  PROVE  job' \in [Docs -> Job] /\ job'[d] = n /\ OnlyJob(d)
BY DEF IngestTypeOK, OnlyJob

\* What each step makes of the job of its document.
LEMMA ReadJob ==
  ASSUME IngestTypeOK, NEW d \in Docs, Read(d)
  PROVE  LET n == [job[d] EXCEPT !.stage = "ocr", !.text = [i \in Units(d) |-> Layer(d, i)],
                                 !.todo = ToScan(d)]
         IN  n \in Job /\ job' = [job EXCEPT ![d] = n]
<1> DEFINE text == [i \in Units(d) |-> Layer(d, i)]
<1>1. job[d] \in Job /\ job \in [Docs -> Job]
  BY DEF IngestTypeOK
<1>2. text \in Seq(Text)
  <2>1. Len(Content[d]) \in Nat /\ Units(d) = 1..Len(Content[d])
        /\ \A i \in Units(d) : Content[d][i] \in Passages
    BY UnitsType DEF Units
  <2>2. \A i \in Units(d) : layer[d][i] \in Forms
    BY DEF IngestTypeOK, Forms
  <2>3. text \in [1..Len(Content[d]) -> Text]
    BY <2>1, <2>2 DEF Layer, Text
  <2> QED
    BY <2>1, <2>3
<1>3. ToScan(d) \in SUBSET Nat /\ "ocr" \in Stages
  BY UnitsType DEF ToScan, Units, Stages
<1> HIDE DEF text
<1>4. [job[d] EXCEPT !.stage = "ocr", !.text = text, !.todo = ToScan(d)] \in Job
  BY <1>1, <1>2, <1>3 DEF Job
<1>5. job' = [job EXCEPT ![d].stage = "ocr", ![d].text = text, ![d].todo = ToScan(d)]
  BY DEF Read, ToScan, text
<1> QED
  BY <1>1, <1>4, <1>5 DEF text

LEMMA LookJob ==
  ASSUME IngestTypeOK, NEW d \in Docs, Look(d)
  PROVE  LET n == [job[d] EXCEPT !.at = @ + 1, !.final = Append(@, Raw(Now(d))),
                                 !.vectors = Append(@, cache[Now(d)])]
         IN  \/ n \in Job /\ cache[Now(d)] # NoVector /\ job' = [job EXCEPT ![d] = n]
             \/ [job[d] EXCEPT !.stage = "ask"] \in Job
                /\ job' = [job EXCEPT ![d] = [job[d] EXCEPT !.stage = "ask"]]
<1>1. job[d] \in Job /\ job \in [Docs -> Job]
  BY DEF IngestTypeOK
<1>2. Now(d) \in Chunks /\ cache[Now(d)] \in Stored \cup {NoVector} /\ Raw(Now(d)) \in Stored
  <2>1. ChunksOf(d) \in Seq(Chunks) /\ job[d].at \in Nat \ {0} /\ job[d].at <= Len(ChunksOf(d))
    BY <1>1, JobFields, JoinedType DEF ChunksOf, Look
  <2>2. Now(d) \in Chunks
    BY <2>1 DEF Now
  <2> QED
    BY <2>2, ChunkTypes DEF IngestTypeOK
<1>3. [job[d] EXCEPT !.stage = "ask"] \in Job
  BY <1>1 DEF Job, Stages
<1> DEFINE f == Append(job[d].final, Raw(Now(d)))
           v == Append(job[d].vectors, cache[Now(d)])
<1>4. f \in Seq(Stored) /\ v \in Seq(Stored \cup {NoVector}) /\ job[d].at + 1 \in Nat \ {0}
  BY <1>1, <1>2, JobFields
<1>5. \/ /\ cache[Now(d)] # NoVector
         /\ job' = [job EXCEPT ![d].at = job[d].at + 1, ![d].final = f, ![d].vectors = v]
      \/ job' = [job EXCEPT ![d].stage = "ask"]
  BY <1>1 DEF Look
<1> HIDE DEF f, v
<1>6. [job[d] EXCEPT !.at = job[d].at + 1, !.final = f, !.vectors = v] \in Job
  BY <1>1, <1>4 DEF Job
<1> QED
  BY <1>1, <1>3, <1>5, <1>6 DEF f, v

\* A page whose scan decides its text.
Tried(d, i) == scan[d][i] = "empty" \/ (tesseract /\ scan[d][i] = "found")

\* An OCR run over the first page that is left: one of three results.
LEMMA OcrJob ==
  ASSUME IngestTypeOK, NEW d \in Docs, TextInv(d), OcrPage(d)
  PROVE  \E i \in job[d].todo :
           LET n == [job[d] EXCEPT !.missing = TRUE, !.todo = {}]
               m == [job[d] EXCEPT !.text = [job[d].text EXCEPT ![i] = Recovered(@, scan[d][i])],
                                   !.todo = job[d].todo \ {i}]
           IN  \/ ~tesseract /\ n \in Job /\ job' = [job EXCEPT ![d] = n]
               \/ Tried(d, i) /\ m \in Job /\ job' = [job EXCEPT ![d] = m]
               \/ job' = [job EXCEPT ![d] = Ended("failed")]
<1>1. job[d] \in Job /\ job \in [Docs -> Job]
  BY DEF IngestTypeOK
<1>2. PICK i \in job[d].todo :
        \/ ~tesseract /\ job' = [job EXCEPT ![d].missing = TRUE, ![d].todo = {}]
        \/ Tried(d, i) /\ job' = [job EXCEPT ![d].text[i] = Recovered(@, scan[d][i]), ![d].todo = @ \ {i}]
        \/ job' = [job EXCEPT ![d] = Ended("failed")]
  BY DEF OcrPage, Tried
<1> DEFINE text == [job[d].text EXCEPT ![i] = Recovered(@, scan[d][i])]
           todo == job[d].todo \ {i}
<1>3. [job[d] EXCEPT !.missing = TRUE, !.todo = {}] \in Job
  BY <1>1 DEF Job
<1>4. text \in Seq(Text) /\ todo \in SUBSET Nat
  <2>1. job[d].text \in Seq(Text) /\ job[d].todo \in SUBSET Nat
    BY <1>1, JobFields
  <2>2. \A t \in Text : \A s : Recovered(t, s) \in Text
    BY DEF Recovered, Text, Forms
  <2>3. i \in DOMAIN job[d].text => Recovered(job[d].text[i], scan[d][i]) \in Text
    BY <2>1, <2>2
  <2>4. text \in Seq(Text)
    BY <2>1, <2>3, Updated
  <2> QED
    BY <2>1, <2>4
<1>6. \/ ~tesseract /\ job' = [job EXCEPT ![d].missing = TRUE, ![d].todo = {}]
      \/ Tried(d, i) /\ job' = [job EXCEPT ![d].text = text, ![d].todo = todo]
      \/ job' = [job EXCEPT ![d] = Ended("failed")]
  BY <1>1, <1>2
<1> HIDE DEF text, todo
<1>5. [job[d] EXCEPT !.text = text, !.todo = todo] \in Job
  BY <1>1, <1>4 DEF Job
<1>7. \/ ~tesseract /\ job' = [job EXCEPT ![d] = [job[d] EXCEPT !.missing = TRUE, !.todo = {}]]
      \/ Tried(d, i) /\ job' = [job EXCEPT ![d] = [job[d] EXCEPT !.text = text, !.todo = todo]]
      \/ job' = [job EXCEPT ![d] = Ended("failed")]
  BY <1>1, <1>6
<1> WITNESS i \in job[d].todo
<1> QED
  BY <1>3, <1>5, <1>7 DEF text, todo

LEMMA ExtractedJob ==
  ASSUME IngestTypeOK, NEW d \in Docs, Extracted(d)
  PROVE  LET n == [job[d] EXCEPT !.stage = "look"]
         IN  \/ Verdict(job[d]) = "look" /\ n \in Job /\ job' = [job EXCEPT ![d] = n]
             \/ /\ Verdict(job[d]) \in {"no ocr", "no text"}
                /\ job' = [job EXCEPT ![d] = Ended(Verdict(job[d]))]
<1>1. job[d] \in Job /\ job \in [Docs -> Job]
  BY DEF IngestTypeOK
<1>2. [job[d] EXCEPT !.stage = "look"] \in Job
  BY <1>1 DEF Job, Stages
<1>3. Verdict(job[d]) \in {"look", "no ocr", "no text"}
  BY DEF Verdict
<1>4. CASE Verdict(job[d]) = "look"
  BY <1>2, <1>4 DEF Extracted
<1>5. CASE Verdict(job[d]) # "look"
  BY <1>3, <1>5 DEF Extracted
<1> QED
  BY <1>4, <1>5

LEMMA ContextualiseJob ==
  ASSUME IngestTypeOK, NEW d \in Docs, BatchInv(d), Contextualise(d)
  PROVE  \E t \in Stored :
           LET n == [job[d] EXCEPT !.stage = "look", !.at = @ + 1, !.final = Append(@, t),
                                   !.vectors = Append(@, NoVector),
                                   !.misses = Append(@, job[d].at)]
           IN  n \in Job /\ t.chunk = Now(d) /\ job' = [job EXCEPT ![d] = n]
<1>1. job[d] \in Job /\ job \in [Docs -> Job]
  BY DEF IngestTypeOK
<1>2. Now(d) \in Chunks
  <2>1. ChunksOf(d) \in Seq(Chunks) /\ job[d].at \in Nat \ {0} /\ job[d].stage = "ask"
    BY <1>1, JobFields, JoinedType DEF ChunksOf, Contextualise
  <2>2. job[d].at <= Len(ChunksOf(d))
    BY <2>1 DEF BatchInv, Batching, BatchOK
  <2> QED
    BY <2>1, <2>2 DEF Now
<1>3. PICK context \in {d, NoContext} :
        job' = [job EXCEPT ![d].stage = "look", ![d].at = @ + 1,
                           ![d].final = Append(@, [context |-> context, chunk |-> Now(d)]),
                           ![d].vectors = Append(@, NoVector),
                           ![d].misses = Append(@, job[d].at)]
  BY DEF Contextualise
<1> DEFINE t == [context |-> context, chunk |-> Now(d)]
           a == job[d].at + 1
           f == Append(job[d].final, t)
           v == Append(job[d].vectors, NoVector)
           m == Append(job[d].misses, job[d].at)
<1>4. t \in Stored /\ t.chunk = Now(d)
  BY <1>2, ChunkTypes
<1>5. /\ a \in Nat \ {0} /\ f \in Seq(Stored) /\ v \in Seq(Stored \cup {NoVector})
      /\ m \in Seq(Nat) /\ "look" \in Stages
  <2>1. /\ job[d].at \in Nat \ {0} /\ job[d].final \in Seq(Stored) /\ job[d].misses \in Seq(Nat)
        /\ job[d].vectors \in Seq(Stored \cup {NoVector})
    BY <1>1, JobFields
  <2> QED
    BY <1>4, <2>1 DEF Stages
<1>6. job' = [job EXCEPT ![d].stage = "look", ![d].at = a, ![d].final = f, ![d].vectors = v,
                         ![d].misses = m]
  BY <1>1, <1>3
<1> HIDE DEF t, a, f, v, m
<1>7. [job[d] EXCEPT !.stage = "look", !.at = a, !.final = f, !.vectors = v, !.misses = m] \in Job
  BY <1>1, <1>5 DEF Job
<1>8. job' = [job EXCEPT ![d] = [job[d] EXCEPT !.stage = "look", !.at = a, !.final = f,
                                               !.vectors = v, !.misses = m]]
  BY <1>1, <1>6
<1> QED
  BY <1>4, <1>7, <1>8 DEF a, f, v, m

LEMMA EmbedJob ==
  ASSUME IngestTypeOK, NEW d \in Docs, BatchInv(d), Embed(d)
  PROVE  LET n == [job[d] EXCEPT !.stage = "keep", !.at = 1,
                     !.fresh = [k \in DOMAIN job[d].misses |-> job[d].final[job[d].misses[k]]]]
         IN  n \in Job /\ job' = [job EXCEPT ![d] = n]
<1> DEFINE fresh == [k \in DOMAIN job[d].misses |-> job[d].final[job[d].misses[k]]]
<1>1. job[d] \in Job /\ job \in [Docs -> Job]
  BY DEF IngestTypeOK
<1>2. fresh \in Seq(Stored)
  <2>1. job[d].misses \in Seq(Nat) /\ job[d].final \in Seq(Stored)
    BY <1>1, JobFields
  <2>2. \A k \in DOMAIN job[d].misses : job[d].misses[k] \in DOMAIN job[d].final
    BY DEF BatchInv, Batching, BatchOK, Embed, Looked
  <2>3. Len(job[d].misses) \in Nat /\ DOMAIN job[d].misses = 1..Len(job[d].misses)
    BY <2>1
  <2>4. \A k \in DOMAIN job[d].misses : job[d].final[job[d].misses[k]] \in Stored
    BY <2>1, <2>2
  <2>5. fresh \in [1..Len(job[d].misses) -> Stored]
    BY <2>3, <2>4
  <2> HIDE DEF fresh
  <2> QED
    BY <2>3, <2>5
<1>3. job' = [job EXCEPT ![d].stage = "keep", ![d].at = 1, ![d].fresh = fresh]
  BY DEF Embed
<1> HIDE DEF fresh
<1>4. [job[d] EXCEPT !.stage = "keep", !.at = 1, !.fresh = fresh] \in Job
  <2>1. "keep" \in Stages /\ 1 \in Nat \ {0}
    BY DEF Stages
  <2> QED
    BY <1>1, <1>2, <2>1 DEF Job
<1> QED
  BY <1>1, <1>3, <1>4 DEF fresh

\* The place of an answer is a chunk of the document, and the answer is for it.
LEMMA KeepJob ==
  ASSUME IngestTypeOK, NEW d \in Docs, BatchInv(d), Keep(d)
  PROVE  LET j == job[d]
             n == [j EXCEPT !.at = @ + 1, !.vectors = [@ EXCEPT ![Place(j)] = j.fresh[j.at]]]
         IN  /\ n \in Job /\ job' = [job EXCEPT ![d] = n]
             /\ j.at \in DOMAIN j.misses
             /\ ChunksOf(d)[Place(j)] \in Chunks
             /\ j.fresh[j.at] \in Stored /\ j.fresh[j.at].chunk = ChunksOf(d)[Place(j)]
<1> DEFINE j == job[d]
           p == Place(j)
           x == j.fresh[j.at]
           v == [j.vectors EXCEPT ![p] = x]
<1>1. j \in Job /\ job \in [Docs -> Job]
  BY DEF IngestTypeOK
<1>2. /\ j.at \in Nat \ {0} /\ j.final \in Seq(Stored) /\ j.misses \in Seq(Nat)
      /\ j.vectors \in Seq(Stored \cup {NoVector})
  BY <1>1, JobFields
<1>3. j.at \in DOMAIN j.misses
  BY <1>2 DEF Keep
<1>4. BatchOK(j, ChunksOf(d)) /\ j.stage = "keep"
  BY DEF BatchInv, Batching, Keep
<1>5. /\ p \in DOMAIN j.final /\ x = j.final[p] /\ j.final[p].chunk = ChunksOf(d)[p]
  BY <1>3, <1>4 DEF BatchOK, Place
<1>6. x \in Stored /\ x.chunk \in Chunks
  BY <1>2, <1>5, ChunkTypes
<1>7. v \in Seq(Stored \cup {NoVector}) /\ j.at + 1 \in Nat \ {0}
  <2>1. x \in Stored \cup {NoVector}
    BY <1>6
  <2>2. v \in Seq(Stored \cup {NoVector})
    BY <1>2, <2>1, Updated
  <2> QED
    BY <1>2, <2>2
<1>8. job' = [job EXCEPT ![d].at = job[d].at + 1, ![d].vectors = v]
  BY <1>1 DEF Keep
<1> HIDE DEF v
<1>9. [j EXCEPT !.at = j.at + 1, !.vectors = v] \in Job
  BY <1>1, <1>7 DEF Job
<1>10. job' = [job EXCEPT ![d] = [j EXCEPT !.at = j.at + 1, !.vectors = v]]
  BY <1>1, <1>8
<1> QED
  BY <1>3, <1>5, <1>6, <1>9, <1>10 DEF v

LEMMA StoreJob ==
  ASSUME IngestTypeOK, NEW d \in Docs
  PROVE  /\ LET n == [job[d] EXCEPT !.stage = "upsert"]
            IN  n \in Job /\ (DeleteOld(d) => job' = [job EXCEPT ![d] = n])
         /\ LET n == [Ended("ready") EXCEPT !.text = job[d].text]
            IN  n \in Job /\ (Upsert(d) => job' = [job EXCEPT ![d] = n])
<1>1. job[d] \in Job /\ job \in [Docs -> Job] /\ job[d].text \in Seq(Text)
  BY JobFields DEF IngestTypeOK
<1>2. Ended("ready") \in Job
  BY EndedJob DEF Stages
<1>3. [Ended("ready") EXCEPT !.text = job[d].text] \in Job
  BY <1>1, <1>2 DEF Job
<1>4. [job[d] EXCEPT !.stage = "upsert"] \in Job
  BY <1>1 DEF Job, Stages
<1> QED
  BY <1>1, <1>3, <1>4 DEF DeleteOld, Upsert

-----------------------------------------------------------------------------
(* Steps. *)

LEMMA FilesSame ==
  ASSUME UNCHANGED fileVars, NEW d \in Docs
  PROVE  /\ Readable(d)' = Readable(d) /\ ToScan(d)' = ToScan(d) /\ tesseract' = tesseract
         /\ \A i : Best(d, i)' = Best(d, i)
         /\ layer' = layer
BY DEF fileVars, Readable, ToScan, Best

LEMMA OtherDocument ==
  ASSUME NEW e \in Docs, UNCHANGED fileVars, job'[e] = job[e], index'[e] = index[e],
         TextInv(e), BatchInv(e), IndexInv(e)
  PROVE  TextInv(e)' /\ BatchInv(e)' /\ IndexInv(e)'
<1>1. TextInv(e)'
  <2>1. HalfRead(e)' = HalfRead(e)
    BY FilesSame DEF HalfRead
  <2> QED
    BY <2>1, FilesSame DEF TextInv, Unread
<1>2. BatchInv(e)' /\ IndexInv(e)'
  <2>1. ChunksOf(e)' = ChunksOf(e)
    BY DEF ChunksOf
  <2> QED
    BY <2>1 DEF BatchInv, Batching, IndexInv
<1> QED
  BY <1>1, <1>2

\* A step of one document's ingest.
LEMMA OneDocument ==
  ASSUME IngestInv, NEW d \in Docs, NEW n \in Job, job' = [job EXCEPT ![d] = n],
         UNCHANGED fileVars,
         index' = index \/ \E s \in Seq([text : Stored, vector : Stored]) : index' = [index EXCEPT ![d] = s],
         cache' \in [Chunks -> Stored \cup {NoVector}], CacheInv',
         TextInv(d)', BatchInv(d)', IndexInv(d)'
  PROVE  IngestInv'
<1>1. job' \in [Docs -> Job] /\ job'[d] = n /\ OnlyJob(d)
  BY OneJob DEF IngestInv
<1>2. /\ index' \in [Docs -> Seq([text : Stored, vector : Stored])]
      /\ \A e \in Docs \ {d} : index'[e] = index[e]
  BY DEF IngestInv, IngestTypeOK
<1>3. IngestTypeOK'
  BY <1>1, <1>2 DEF IngestInv, IngestTypeOK, fileVars
<1>4. ASSUME NEW e \in Docs PROVE TextInv(e)' /\ BatchInv(e)' /\ IndexInv(e)'
  BY <1>1, <1>2, OtherDocument DEF IngestInv, OnlyJob
<1> QED
  BY <1>3, <1>4 DEF IngestInv

\* A step that leaves the cache and the collection alone, and the text as it was.
LEMMA KeepsText ==
  ASSUME IngestInv, NEW d \in Docs, NEW n \in Job, job' = [job EXCEPT ![d] = n],
         UNCHANGED fileVars, ~Unread(d), n.text = job[d].text,
         n.stage \in {"look", "ask", "keep", "upsert", "ready"}
  PROVE  /\ TextInv(d)' /\ ChunksOf(d)' = ChunksOf(d) /\ ChunksOf(d) \in Seq(Chunks)
         /\ job'[d] = n
         /\ BatchOK(n, ChunksOf(d)) => BatchInv(d)'
<1>1. job'[d] = n /\ job[d] \in Job
  BY OneJob DEF IngestInv, IngestTypeOK
<1>2. job[d].text = Readable(d)
  BY DEF IngestInv, TextInv
<1>3. TextInv(d)'
  BY <1>1, <1>2, FilesSame DEF TextInv
<1>4. ChunksOf(d)' = ChunksOf(d) /\ ChunksOf(d) \in Seq(Chunks)
  BY <1>1, JobFields, JoinedType DEF ChunksOf
<1>5. BatchOK(n, ChunksOf(d)) => BatchInv(d)'
  BY <1>1, <1>4 DEF BatchInv, Batching
<1> QED
  BY <1>1, <1>3, <1>4, <1>5

\* A step after which the ingest has ended badly, or not begun.
LEMMA EndsBadly ==
  ASSUME IngestInv, NEW d \in Docs, NEW s \in {"read", "failed", "no text", "no ocr"},
         job' = [job EXCEPT ![d] = Ended(s)], UNCHANGED fileVars,
         s \in {"no text", "no ocr"} => Said(Readable(d)) = {},
         s = "no ocr" => ~tesseract
  PROVE  Ended(s) \in Job /\ TextInv(d)' /\ BatchInv(d)' /\ (index'[d] = index[d] => IndexInv(d)')
<1>1. Ended(s) \in Job /\ Ended(s).stage = s
  BY EndedJob DEF Stages
<1>2. job'[d] = Ended(s)
  BY <1>1, OneJob DEF IngestInv
<1>3. TextInv(d)'
  BY <1>1, <1>2, FilesSame DEF TextInv, Unread
<1>4. s = "read" => Untouched(Ended(s))
  BY DEF Ended, NewJob, Untouched
<1>5. BatchInv(d)'
  BY <1>1, <1>2, <1>4 DEF BatchInv, Batching
<1>6. index'[d] = index[d] => IndexInv(d)'
  BY <1>1, <1>2 DEF IngestInv, IndexInv
<1> QED
  BY <1>1, <1>3, <1>5, <1>6

LEMMA StepRead == ASSUME IngestInv, NEW d \in Docs, Read(d) PROVE IngestInv'
<1> DEFINE text == [i \in Units(d) |-> Layer(d, i)]
           n == [job[d] EXCEPT !.stage = "ocr", !.text = text, !.todo = ToScan(d)]
<1>1. n \in Job /\ job' = [job EXCEPT ![d] = n]
  BY ReadJob DEF IngestInv
<1>2. job[d] \in Job /\ job[d].stage = "read" /\ UNCHANGED <<fileVars, cache, index>>
  BY DEF IngestInv, IngestTypeOK, Read
<1> HIDE DEF text
<1>3. /\ n.stage = "ocr" /\ n.text = text /\ n.todo = ToScan(d) /\ n.missing = job[d].missing
      /\ n.at = job[d].at /\ n.final = job[d].final /\ n.vectors = job[d].vectors
      /\ n.misses = job[d].misses
  BY <1>2 DEF Job
<1> HIDE DEF n
<1>4. job'[d] = n
  BY <1>1, OneJob DEF IngestInv
<1>5. HalfRead(d)' = text
  <2>1. \A i \in Units(d) : (IF i \in ToScan(d) THEN layer[d][i] ELSE Best(d, i)) = layer[d][i]
    BY DEF ToScan, Best, NeedsOcr
  <2>2. HalfRead(d)' = [i \in Units(d) |-> [passage |-> Content[d][i],
                         form |-> IF i \in ToScan(d) THEN layer[d][i] ELSE Best(d, i)]]
    BY <1>2, <1>3, <1>4, FilesSame DEF HalfRead
  <2> QED
    BY <2>1, <2>2 DEF text, Layer
<1>6. ~job[d].missing
  BY <1>2 DEF IngestInv, BatchInv, Untouched
<1>7. TextInv(d)'
  BY <1>2, <1>3, <1>4, <1>5, <1>6, FilesSame DEF TextInv, Unread
<1>8. BatchInv(d)' /\ IndexInv(d)'
  BY <1>2, <1>3, <1>4 DEF IngestInv, BatchInv, Batching, Untouched, IndexInv
<1> QED
  BY <1>1, <1>2, <1>7, <1>8, OneDocument DEF IngestInv, IngestTypeOK, CacheInv

\* A page that was scanned is in its best form; without the program, each is.
LEMMA StepOcr == ASSUME IngestInv, NEW d \in Docs, OcrPage(d) PROVE IngestInv'
<1>1. /\ IngestTypeOK /\ TextInv(d) /\ job[d] \in Job /\ job[d].stage = "ocr"
      /\ UNCHANGED <<fileVars, cache, index>>
  BY DEF IngestInv, IngestTypeOK, OcrPage
<1>2. job[d].todo \subseteq ToScan(d) /\ job[d].text = HalfRead(d)
  BY <1>1 DEF TextInv
<1>3. \/ job' = [job EXCEPT ![d] = Ended("failed")]
      \/ \E n \in Job :
           /\ job' = [job EXCEPT ![d] = n] /\ n.stage = "ocr" /\ n.todo \subseteq ToScan(d)
           /\ n.missing => ~tesseract
           /\ n.at = job[d].at /\ n.final = job[d].final /\ n.vectors = job[d].vectors
           /\ n.misses = job[d].misses
           /\ n.text = [i \in Units(d) |-> [passage |-> Content[d][i],
                         form |-> IF i \in n.todo THEN layer[d][i] ELSE Best(d, i)]]
  <2>1. PICK i \in job[d].todo :
           LET n == [job[d] EXCEPT !.missing = TRUE, !.todo = {}]
               m == [job[d] EXCEPT !.text = [job[d].text EXCEPT ![i] = Recovered(@, scan[d][i])],
                                   !.todo = job[d].todo \ {i}]
           IN  \/ ~tesseract /\ n \in Job /\ job' = [job EXCEPT ![d] = n]
               \/ /\ Tried(d, i) /\ m \in Job /\ job' = [job EXCEPT ![d] = m]
               \/ job' = [job EXCEPT ![d] = Ended("failed")]
    BY <1>1, OcrJob
  <2> DEFINE n == [job[d] EXCEPT !.missing = TRUE, !.todo = {}]
             text == [job[d].text EXCEPT ![i] = Recovered(@, scan[d][i])]
             todo == job[d].todo \ {i}
             m == [job[d] EXCEPT !.text = text, !.todo = todo]
  <2>2. CASE ~tesseract /\ n \in Job /\ job' = [job EXCEPT ![d] = n]
    <3>1. /\ n.stage = "ocr" /\ n.todo = {} /\ n.missing /\ n.text = job[d].text
          /\ n.at = job[d].at /\ n.final = job[d].final /\ n.vectors = job[d].vectors
          /\ n.misses = job[d].misses
      BY <1>1 DEF Job
    <3>2. \A k \in Units(d) : Best(d, k) = layer[d][k]
      BY <2>2 DEF Best
    <3> HIDE DEF n
    <3>3. HalfRead(d) = [k \in Units(d) |-> [passage |-> Content[d][k],
                          form |-> IF k \in n.todo THEN layer[d][k] ELSE Best(d, k)]]
      BY <3>1, <3>2 DEF HalfRead
    <3> QED
      BY <1>2, <2>2, <3>1, <3>3
  <2>3. CASE Tried(d, i) /\ m \in Job /\ job' = [job EXCEPT ![d] = m]
    <3> HIDE DEF text, todo
    <3>1. /\ m.stage = "ocr" /\ m.todo = todo /\ m.missing = job[d].missing /\ m.text = text
          /\ m.at = job[d].at /\ m.final = job[d].final /\ m.vectors = job[d].vectors
          /\ m.misses = job[d].misses
      BY <1>1 DEF Job
    <3>2. i \in Units(d) /\ kind[d] = "pdf" /\ layer[d][i] # "plain"
      BY <1>2 DEF ToScan, NeedsOcr
    <3>3. Recovered([passage |-> Content[d][i], form |-> layer[d][i]], scan[d][i])
            = [passage |-> Content[d][i], form |-> Best(d, i)]
      BY <2>3, <3>2 DEF Recovered, Best, Tried
    <3>4. HalfRead(d)[i] = [passage |-> Content[d][i], form |-> layer[d][i]]
      BY <3>2 DEF HalfRead
    <3>5. text = [HalfRead(d) EXCEPT ![i] = [passage |-> Content[d][i], form |-> Best(d, i)]]
      BY <1>2, <3>3, <3>4 DEF text
    <3>6. text = [k \in Units(d) |-> [passage |-> Content[d][k],
                   form |-> IF k \in todo THEN layer[d][k] ELSE Best(d, k)]]
      BY <3>2, <3>5 DEF HalfRead, todo
    <3>7. todo \subseteq ToScan(d) /\ (job[d].missing => ~tesseract)
      BY <1>1, <1>2 DEF todo, TextInv
    <3> HIDE DEF m
    <3>8. /\ job' = [job EXCEPT ![d] = m] /\ m.stage = "ocr" /\ m.todo \subseteq ToScan(d)
          /\ m.missing => ~tesseract
          /\ m.text = [k \in Units(d) |-> [passage |-> Content[d][k],
                        form |-> IF k \in m.todo THEN layer[d][k] ELSE Best(d, k)]]
      BY <2>3, <3>1, <3>6, <3>7
    <3> QED
      BY <2>3, <3>1, <3>8, Zenon
  <2> QED
    BY <2>1, <2>2, <2>3
<1>4. CASE job' = [job EXCEPT ![d] = Ended("failed")]
  BY <1>1, <1>4, EndsBadly, OneDocument DEF IngestInv, IngestTypeOK, CacheInv
<1>5. ASSUME NEW n \in Job, job' = [job EXCEPT ![d] = n],
             n.stage = "ocr", n.todo \subseteq ToScan(d), n.missing => ~tesseract,
             n.at = job[d].at, n.final = job[d].final, n.vectors = job[d].vectors,
             n.misses = job[d].misses,
             n.text = [i \in Units(d) |-> [passage |-> Content[d][i],
                        form |-> IF i \in n.todo THEN layer[d][i] ELSE Best(d, i)]]
      PROVE  IngestInv'
  <2>1. job'[d] = n
    BY <1>1, <1>5, OneJob
  <2>2. HalfRead(d)' = n.text
    BY <1>1, <1>5, <2>1, FilesSame DEF HalfRead
  <2>3. TextInv(d)'
    BY <1>1, <1>5, <2>1, <2>2, FilesSame DEF TextInv, Unread
  <2>4. BatchInv(d)' /\ IndexInv(d)'
    BY <1>1, <1>5, <2>1 DEF IngestInv, BatchInv, Batching, Untouched, IndexInv
  <2> QED
    BY <1>1, <1>5, <2>3, <2>4, OneDocument DEF IngestInv, IngestTypeOK, CacheInv
<1> QED
  BY <1>3, <1>4, <1>5

\* With no page left the text is at its best; it goes on if it says something.
LEMMA StepExtracted == ASSUME IngestInv, NEW d \in Docs, Extracted(d) PROVE IngestInv'
<1>1. /\ IngestTypeOK /\ TextInv(d) /\ job[d] \in Job /\ job[d].stage = "ocr" /\ job[d].todo = {}
      /\ UNCHANGED <<fileVars, cache, index>>
  BY DEF IngestInv, IngestTypeOK, Extracted
<1>2. job[d].text = Readable(d) /\ (job[d].missing => ~tesseract)
  BY <1>1 DEF TextInv, HalfRead, Readable
<1>3. Joined(job[d].text) = <<>> <=> Said(Readable(d)) = {}
  BY <1>1, <1>2, JobFields, JoinedType
<1> DEFINE n == [job[d] EXCEPT !.stage = "look"]
<1>4. CASE n \in Job /\ job' = [job EXCEPT ![d] = n]
  <2>1. /\ n.stage = "look" /\ n.text = job[d].text /\ n.at = 1 /\ n.final = <<>>
        /\ n.vectors = <<>> /\ n.misses = <<>>
    <3>1. Untouched(job[d])
      BY <1>1 DEF IngestInv, BatchInv
    <3> QED
      BY <1>1, <3>1 DEF Untouched, Job
  <2> HIDE DEF n
  <2>2. job'[d] = n
    BY <1>1, <1>4, OneJob
  <2>3. TextInv(d)'
    BY <1>1, <1>2, <2>1, <2>2, FilesSame DEF TextInv
  <2>4. BatchOK(n, ChunksOf(d)')
    <3>1. ChunksOf(d)' \in Seq(Chunks)
      BY <1>4, <2>2, JobFields, JoinedType DEF ChunksOf
    <3> HIDE DEF ChunksOf
    <3> QED
      BY <2>1, <3>1 DEF BatchOK
  <2>5. BatchInv(d)' /\ IndexInv(d)'
    BY <1>1, <2>1, <2>2, <2>4 DEF BatchInv, Batching, IngestInv, IndexInv
  <2> QED
    BY <1>1, <1>4, <2>3, <2>5, OneDocument DEF IngestInv, IngestTypeOK, CacheInv
<1>5. ASSUME Verdict(job[d]) \in {"no ocr", "no text"},
             job' = [job EXCEPT ![d] = Ended(Verdict(job[d]))]
      PROVE  IngestInv'
  <2>1. /\ Said(Readable(d)) = {}
        /\ Verdict(job[d]) = "no ocr" => ~tesseract
    BY <1>2, <1>3, <1>5 DEF Verdict
  <2>2. PICK v \in {"no ocr", "no text"} : v = Verdict(job[d])
    BY <1>5
  <2>3. Ended(v) \in Job /\ TextInv(d)' /\ BatchInv(d)' /\ IndexInv(d)'
    BY <1>1, <1>5, <2>1, <2>2, EndsBadly
  <2> QED
    BY <1>1, <1>5, <2>2, <2>3, OneDocument DEF IngestInv, IngestTypeOK, CacheInv
<1> QED
  BY <1>1, <1>4, <1>5, ExtractedJob

LEMMA StepLook == ASSUME IngestInv, NEW d \in Docs, Look(d) PROVE IngestInv'
<1> DEFINE c == Now(d)
           v == cache[c]
           n == [job[d] EXCEPT !.at = @ + 1, !.final = Append(@, Raw(c)), !.vectors = Append(@, v)]
           a == [job[d] EXCEPT !.stage = "ask"]
<1>1. /\ IngestTypeOK /\ job[d] \in Job /\ job[d].stage = "look" /\ job[d].at <= Len(ChunksOf(d))
      /\ UNCHANGED <<fileVars, cache, index>> /\ ~Unread(d) /\ BatchOK(job[d], ChunksOf(d))
  BY DEF IngestInv, IngestTypeOK, Look, Unread, BatchInv, Batching
<1>2. ChunksOf(d) \in Seq(Chunks) /\ c = ChunksOf(d)[job[d].at]
  BY <1>1, JobFields, JoinedType DEF ChunksOf, Now
<1>3. CASE n \in Job /\ v # NoVector /\ job' = [job EXCEPT ![d] = n]
  <2>1. c \in Chunks
    <3>1. job[d].at \in Nat \ {0}
      BY <1>1, JobFields
    <3> HIDE DEF c
    <3> QED
      BY <1>1, <1>2, <3>1
  <2>2. v \in Stored /\ v.chunk = c
    BY <1>3, <2>1 DEF IngestInv, CacheInv
  <2> HIDE DEF c, v
  <2>3. /\ n.stage = "look" /\ n.text = job[d].text /\ n.at = job[d].at + 1
        /\ n.final = Append(job[d].final, Raw(c)) /\ n.vectors = Append(job[d].vectors, v)
        /\ n.misses = job[d].misses
    BY <1>1 DEF Job
  <2> HIDE DEF n
  <2>4. BatchOK(n, ChunksOf(d))
    BY <1>1, <1>2, <1>3, <2>2, <2>3, LookBatch
  <2>5. TextInv(d)' /\ BatchInv(d)' /\ IndexInv(d)'
    BY <1>1, <1>3, <2>3, <2>4, KeepsText DEF IngestInv, IndexInv
  <2> QED
    BY <1>1, <1>3, <2>5, OneDocument DEF IngestInv, IngestTypeOK, CacheInv
<1>4. CASE a \in Job /\ job' = [job EXCEPT ![d] = a]
  <2>1. /\ a.stage = "ask" /\ a.text = job[d].text /\ a.at = job[d].at
        /\ a.final = job[d].final /\ a.vectors = job[d].vectors /\ a.misses = job[d].misses
    BY <1>1 DEF Job
  <2> HIDE DEF a
  <2>2. BatchOK(a, ChunksOf(d))
    <3>1. \A i : Awaited(job[d], i) => Awaited(a, i)
      BY <1>1, <2>1 DEF Awaited
    <3> QED
      BY <1>1, <2>1, <3>1 DEF BatchOK
  <2>3. TextInv(d)' /\ BatchInv(d)' /\ IndexInv(d)'
    BY <1>1, <1>4, <2>1, <2>2, KeepsText DEF IngestInv, IndexInv
  <2> QED
    BY <1>1, <1>4, <2>3, OneDocument DEF IngestInv, IngestTypeOK, CacheInv
<1> QED
  BY <1>1, <1>3, <1>4, LookJob

LEMMA StepContextualise == ASSUME IngestInv, NEW d \in Docs, Contextualise(d) PROVE IngestInv'
<1>1. /\ IngestTypeOK /\ BatchInv(d) /\ job[d] \in Job /\ job[d].stage = "ask"
      /\ UNCHANGED <<fileVars, cache, index>> /\ ~Unread(d) /\ BatchOK(job[d], ChunksOf(d))
  BY DEF IngestInv, IngestTypeOK, Contextualise, Unread, BatchInv, Batching
<1>2. ChunksOf(d) \in Seq(Chunks) /\ Now(d) = ChunksOf(d)[job[d].at]
  BY <1>1, JobFields, JoinedType DEF ChunksOf, Now
<1>3. PICK t \in Stored :
        LET n == [job[d] EXCEPT !.stage = "look", !.at = @ + 1, !.final = Append(@, t),
                                !.vectors = Append(@, NoVector),
                                !.misses = Append(@, job[d].at)]
        IN  n \in Job /\ t.chunk = Now(d) /\ job' = [job EXCEPT ![d] = n]
  BY <1>1, ContextualiseJob
<1> DEFINE n == [job[d] EXCEPT !.stage = "look", !.at = @ + 1, !.final = Append(@, t),
                               !.vectors = Append(@, NoVector),
                               !.misses = Append(@, job[d].at)]
<1>4. n \in Job /\ job' = [job EXCEPT ![d] = n]
  BY <1>3
<1>5. /\ n.stage = "look" /\ n.text = job[d].text /\ n.at = job[d].at + 1
      /\ n.final = Append(job[d].final, t) /\ n.vectors = Append(job[d].vectors, NoVector)
      /\ n.misses = Append(job[d].misses, job[d].at)
  BY <1>1 DEF Job
<1>6. t.chunk = ChunksOf(d)[job[d].at]
  BY <1>2, <1>3
<1> HIDE DEF n
<1>7. BatchOK(n, ChunksOf(d))
  BY <1>1, <1>2, <1>4, <1>5, <1>6, MissBatch
<1>8. TextInv(d)' /\ BatchInv(d)' /\ IndexInv(d)'
  BY <1>1, <1>4, <1>5, <1>7, KeepsText DEF IngestInv, IndexInv
<1> QED
  BY <1>1, <1>4, <1>8, OneDocument DEF IngestInv, IngestTypeOK, CacheInv

LEMMA StepEmbed == ASSUME IngestInv, NEW d \in Docs, Embed(d) PROVE IngestInv'
<1> DEFINE fresh == [k \in DOMAIN job[d].misses |-> job[d].final[job[d].misses[k]]]
           n == [job[d] EXCEPT !.stage = "keep", !.at = 1, !.fresh = fresh]
<1>1. /\ IngestTypeOK /\ BatchInv(d) /\ job[d] \in Job /\ job[d].stage = "look"
      /\ job[d].at > Len(ChunksOf(d))
      /\ UNCHANGED <<fileVars, cache, index>> /\ ~Unread(d) /\ BatchOK(job[d], ChunksOf(d))
  BY DEF IngestInv, IngestTypeOK, Embed, Looked, Unread, BatchInv, Batching
<1>2. ChunksOf(d) \in Seq(Chunks)
  BY <1>1, JobFields, JoinedType DEF ChunksOf
<1>3. n \in Job /\ job' = [job EXCEPT ![d] = n]
  BY <1>1, EmbedJob
<1>4. /\ n.stage = "keep" /\ n.text = job[d].text /\ n.at = 1 /\ n.final = job[d].final
      /\ n.vectors = job[d].vectors /\ n.misses = job[d].misses
      /\ n.fresh = [k \in DOMAIN job[d].misses |-> job[d].final[job[d].misses[k]]]
  BY <1>1 DEF Job
<1> HIDE DEF n, fresh
<1>5. BatchOK(n, ChunksOf(d))
  BY <1>1, <1>2, <1>3, <1>4, EmbedBatch
<1>6. TextInv(d)' /\ BatchInv(d)' /\ IndexInv(d)'
  BY <1>1, <1>3, <1>4, <1>5, KeepsText DEF IngestInv, IndexInv
<1> QED
  BY <1>1, <1>3, <1>6, OneDocument DEF IngestInv, IngestTypeOK, CacheInv

LEMMA StepKeep == ASSUME IngestInv, NEW d \in Docs, Keep(d) PROVE IngestInv'
<1> DEFINE j == job[d]
           v == [j.vectors EXCEPT ![j.misses[j.at]] = j.fresh[j.at]]
           n == [j EXCEPT !.at = @ + 1, !.vectors = v]
           c == ChunksOf(d)[Place(j)]
           x == j.fresh[j.at]
<1>1. /\ IngestTypeOK /\ BatchInv(d) /\ j \in Job /\ j.stage = "keep"
      /\ UNCHANGED <<fileVars, index>> /\ cache' = [cache EXCEPT ![c] = x]
      /\ ~Unread(d) /\ BatchOK(j, ChunksOf(d))
  BY DEF IngestInv, IngestTypeOK, Keep, Unread, BatchInv, Batching
<1>2. ChunksOf(d) \in Seq(Chunks)
  BY <1>1, JobFields, JoinedType DEF ChunksOf
<1>3. /\ n \in Job /\ job' = [job EXCEPT ![d] = n] /\ j.at \in DOMAIN j.misses
      /\ c \in Chunks /\ x \in Stored /\ x.chunk = c
  BY <1>1, KeepJob DEF Place
<1>4. /\ n.stage = "keep" /\ n.text = j.text /\ n.at = j.at + 1 /\ n.final = j.final
      /\ n.vectors = v /\ n.misses = j.misses /\ n.fresh = j.fresh
  BY <1>1 DEF Job
<1> HIDE DEF n, c, x
<1>5. BatchOK(n, ChunksOf(d))
  BY <1>1, <1>2, <1>3, <1>4, KeepBatch
<1>6. TextInv(d)' /\ BatchInv(d)' /\ IndexInv(d)'
  BY <1>1, <1>3, <1>4, <1>5, KeepsText DEF IngestInv, IndexInv
<1>7. cache' \in [Chunks -> Stored \cup {NoVector}] /\ CacheInv'
  BY <1>1, <1>3 DEF IngestInv, IngestTypeOK, CacheInv
<1> HIDE DEF j
<1> QED
  BY <1>1, <1>3, <1>6, <1>7, OneDocument DEF j

LEMMA StepDeleteOld == ASSUME IngestInv, NEW d \in Docs, DeleteOld(d) PROVE IngestInv'
<1> DEFINE n == [job[d] EXCEPT !.stage = "upsert"]
<1>1. /\ IngestTypeOK /\ job[d] \in Job /\ job[d].stage \in {"look", "keep"}
      /\ UNCHANGED <<fileVars, cache>> /\ index' = [index EXCEPT ![d] = <<>>]
      /\ ~Unread(d) /\ BatchOK(job[d], ChunksOf(d))
  BY DEF IngestInv, IngestTypeOK, DeleteOld, Looked, Kept, Unread, BatchInv, Batching
<1>2. ChunksOf(d) \in Seq(Chunks)
  BY <1>1, JobFields, JoinedType DEF ChunksOf
<1>3. n \in Job /\ job' = [job EXCEPT ![d] = n]
  BY <1>1, StoreJob
<1>4. /\ n.stage = "upsert" /\ n.text = job[d].text /\ n.final = job[d].final
      /\ n.vectors = job[d].vectors /\ n.misses = job[d].misses
  BY <1>1 DEF Job
<1> HIDE DEF n
<1>5. BatchOK(n, ChunksOf(d))
  <2>1. \/ job[d].stage = "look" /\ job[d].at > Len(ChunksOf(d)) /\ job[d].misses = <<>>
        \/ job[d].stage = "keep" /\ job[d].at > Len(job[d].misses)
    BY DEF DeleteOld, Looked, Kept
  <2> QED
    BY <1>1, <1>2, <1>3, <1>4, <2>1, DoneBatch
<1>6. TextInv(d)' /\ BatchInv(d)' /\ job'[d] = n
  BY <1>1, <1>3, <1>4, <1>5, KeepsText
<1>7. index'[d] = <<>> /\ <<>> \in Seq([text : Stored, vector : Stored])
  BY <1>1 DEF IngestTypeOK
<1>8. IndexInv(d)'
  BY <1>4, <1>6, <1>7 DEF IndexInv
<1> QED
  BY <1>1, <1>3, <1>6, <1>7, <1>8, OneDocument DEF IngestInv, IngestTypeOK, CacheInv

\* Every text goes to the collection beside its own vector.
LEMMA StepUpsert == ASSUME IngestInv, NEW d \in Docs, Upsert(d) PROVE IngestInv'
<1> DEFINE j == job[d]
           n == [Ended("ready") EXCEPT !.text = j.text]
           rows == [i \in DOMAIN j.final |-> [text |-> j.final[i], vector |-> j.vectors[i]]]
<1>1. /\ IngestTypeOK /\ j \in Job /\ j.stage = "upsert"
      /\ UNCHANGED <<fileVars, cache>> /\ index' = [index EXCEPT ![d] = rows]
      /\ ~Unread(d) /\ BatchOK(j, ChunksOf(d))
  BY DEF IngestInv, IngestTypeOK, Upsert, Unread, BatchInv, Batching
<1>2. n \in Job /\ job' = [job EXCEPT ![d] = n]
  BY <1>1, StoreJob
<1>3. n.stage = "ready" /\ n.text = j.text
  BY EndedJob DEF Stages, Job
<1> HIDE DEF n
<1>4. /\ TextInv(d)' /\ ChunksOf(d)' = ChunksOf(d) /\ job'[d] = n
  BY <1>1, <1>2, <1>3, KeepsText
<1>5. BatchInv(d)'
  BY <1>3, <1>4 DEF BatchInv, Batching
<1>6. /\ Len(j.vectors) = Len(j.final) /\ j.final \in Seq(Stored)
      /\ j.vectors \in Seq(Stored \cup {NoVector}) /\ Len(j.final) = Len(ChunksOf(d))
      /\ \A i \in DOMAIN j.final : Aligned(j.vectors[i], j.final[i])
                                   /\ j.final[i].chunk = ChunksOf(d)[i]
  <2>1. \A i : ~Awaited(j, i)
    BY <1>1 DEF Awaited
  <2> QED
    BY <1>1, <2>1, JobFields DEF BatchOK
<1>7. rows \in Seq([text : Stored, vector : Stored]) /\ Len(rows) = Len(ChunksOf(d))
  <2>1. Len(j.final) \in Nat /\ DOMAIN j.final = 1..Len(j.final)
    BY <1>6
  <2>2. ASSUME NEW i \in DOMAIN j.final PROVE j.final[i] \in Stored /\ j.vectors[i] \in Stored
    BY <1>6 DEF Aligned
  <2> QED
    BY <1>6, <2>1, <2>2
<1>8. index'[d] = rows /\ \A i \in DOMAIN rows :
        /\ Aligned(rows[i].vector, rows[i].text) /\ rows[i].text.chunk = ChunksOf(d)[i]
  BY <1>1, <1>6 DEF IngestTypeOK
<1> HIDE DEF rows, j
<1>9. IndexInv(d)'
  BY <1>4, <1>7, <1>8 DEF IndexInv
<1> QED
  BY <1>1, <1>2, <1>4, <1>5, <1>7, <1>9, OneDocument DEF IngestInv, IngestTypeOK, CacheInv

LEMMA StepElse ==
  ASSUME IngestInv, NEW d \in Docs, CallFails(d) \/ Again(d)
  PROVE  IngestInv'
<1>0. IngestTypeOK /\ UNCHANGED <<fileVars, cache>>
  BY DEF IngestInv, CallFails, Again
<1>1. CASE CallFails(d)
  <2>1. job' = [job EXCEPT ![d] = Ended("failed")] /\ index' = index
    BY <1>1 DEF CallFails
  <2> QED
    BY <1>0, <2>1, EndsBadly, OneDocument DEF IngestInv, IngestTypeOK, CacheInv
<1>2. CASE Again(d)
  <2>1. job' = [job EXCEPT ![d] = Ended("read")] /\ index' = [index EXCEPT ![d] = <<>>]
    <3>1. Ended("read") = NewJob
      BY DEF Ended, NewJob
    <3> QED
      BY <1>2, <3>1 DEF Again
  <2>2. Ended("read") \in Job /\ TextInv(d)' /\ BatchInv(d)'
    BY <1>0, <2>1, EndsBadly
  <2>3. index'[d] = <<>> /\ job'[d] = Ended("read") /\ <<>> \in Seq([text : Stored, vector : Stored])
    BY <1>0, <2>1 DEF IngestTypeOK
  <2>4. IndexInv(d)'
    <3>1. Ended("read").stage = "read"
      BY EndedJob DEF Stages
    <3> QED
      BY <2>3, <3>1 DEF IndexInv
  <2> QED
    BY <1>0, <2>1, <2>2, <2>3, <2>4, OneDocument DEF IngestInv, IngestTypeOK, CacheInv
<1> QED
  BY <1>1, <1>2

LEMMA StepQuiet ==
  ASSUME IngestInv, Expire \/ UNCHANGED vars
  PROVE  IngestInv'
<1>1. UNCHANGED <<fileVars, job, index>>
  BY DEF Expire, vars
<1>2. cache' \in [Chunks -> Stored \cup {NoVector}] /\ CacheInv'
  <2>1. CASE Expire
    BY <2>1 DEF Expire, IngestInv, IngestTypeOK, CacheInv
  <2>2. CASE cache' = cache
    BY <2>2 DEF IngestInv, IngestTypeOK, CacheInv
  <2> QED
    BY <2>1, <2>2 DEF vars
<1>3. \A e \in Docs : TextInv(e)' /\ BatchInv(e)' /\ IndexInv(e)'
  BY <1>1, OtherDocument DEF IngestInv
<1>4. IngestTypeOK'
  BY <1>1, <1>2 DEF IngestInv, IngestTypeOK, fileVars
<1> QED
  BY <1>2, <1>3, <1>4 DEF IngestInv

LEMMA StartsIngest == ASSUME Init PROVE IngestInv
<1>1. job = [d \in Docs |-> NewJob] /\ index = [d \in Docs |-> <<>>] /\ cache = [c \in Chunks |-> NoVector]
  BY DEF Init
<1>2. IngestTypeOK
  <2>1. job \in [Docs -> Job] /\ index \in [Docs -> Seq([text : Stored, vector : Stored])]
    BY <1>1, EndedJob
  <2>2. ASSUME NEW d \in Docs PROVE layer[d] \in [Units(d) -> Layers] /\ scan[d] \in [Units(d) -> Scans]
    <3> DEFINE Lengths == {Len(Content[e]) : e \in Docs}
    <3>1. /\ layer \in [Docs -> UNION {[1..n -> Layers] : n \in Lengths}] /\ DOMAIN layer[d] = Units(d)
          /\ scan \in [Docs -> UNION {[1..n -> Scans] : n \in Lengths}] /\ DOMAIN scan[d] = Units(d)
      BY Zenon DEF Init
    <3> HIDE DEF Lengths
    <3>2. layer[d] \in UNION {[1..n -> Layers] : n \in Lengths}
          /\ scan[d] \in UNION {[1..n -> Scans] : n \in Lengths}
      BY <3>1
    <3>3. PICK n \in Lengths : layer[d] \in [1..n -> Layers]
      BY <3>2
    <3>4. PICK m \in Lengths : scan[d] \in [1..m -> Scans]
      BY <3>2
    <3> QED
      BY <3>1, <3>3, <3>4
  <2> QED
    BY <1>1, <2>1, <2>2 DEF Init, IngestTypeOK
<1>3. CacheInv
  BY <1>1 DEF CacheInv
<1>4. ASSUME NEW d \in Docs PROVE TextInv(d) /\ BatchInv(d) /\ IndexInv(d)
  <2>1. job[d] = NewJob /\ index[d] = <<>>
    BY <1>1
  <2> QED
    BY <2>1, EndedJob DEF TextInv, Unread, BatchInv, Batching, Untouched, IndexInv
<1> QED
  BY <1>2, <1>3, <1>4 DEF IngestInv

\* The ingest of every document keeps its text and its lists in step.
THEOREM IngestInvariant == Spec => []IngestInv
<1>1. ASSUME IngestInv, [Next]_vars PROVE IngestInv'
  BY <1>1, StepRead, StepOcr, StepExtracted, StepLook, StepContextualise, StepEmbed, StepKeep,
     StepDeleteOld, StepUpsert, StepElse, StepQuiet
     DEF Next, Extracts, Enriches, Stores
<1> QED
  BY <1>1, StartsIngest, PTL DEF Spec

\* Every state of an ingest is well typed: its lists are lists of texts, vectors
\* and places (rag/ingest.py).
THEOREM IngestTypeCorrect == Spec => []IngestTypeOK
<1>1. IngestInv => IngestTypeOK
  BY DEF IngestInv
<1> QED
  BY <1>1, IngestInvariant, PTL

\* No page hides another, and none is lost to a better one (rag/extractor.py).
THEOREM TheTextIsBest == Spec => []TextIsBest
<1>1. IngestInv => TextIsBest
  BY DEF IngestInv, TextInv, TextIsBest, ChunksOf
<1> QED
  BY <1>1, IngestInvariant, PTL

\* A document is refused only if nothing in it can be read, and for the want of
\* the OCR program only on a host that has none.
THEOREM RefusalIsRight == Spec => []RefusedOnlyIfUnreadable
<1>1. ASSUME IngestInv PROVE RefusedOnlyIfUnreadable
  <2> SUFFICES ASSUME NEW d \in Docs, job[d].stage \in {"no text", "no ocr"}
               PROVE  /\ \A i \in Units(d) : Best(d, i) = "none"
                      /\ job[d].stage = "no ocr" => ~tesseract
    BY DEF RefusedOnlyIfUnreadable
  <2>1. Said(Readable(d)) = {} /\ (job[d].stage = "no ocr" => ~tesseract)
    BY <1>1 DEF IngestInv, TextInv
  <2>2. ASSUME NEW i \in Units(d) PROVE Best(d, i) = "none"
    <3>1. i \in DOMAIN Readable(d) /\ Readable(d)[i].form = Best(d, i)
      BY DEF Readable
    <3> QED
      BY <2>1, <3>1 DEF Said
  <2> QED
    BY <2>1, <2>2
<1> QED
  BY <1>1, IngestInvariant, PTL

\* A chunk is stored beside a vector of itself, whatever was in the cache, what
\* other ingests put there, and which places of the batch were misses.
THEOREM VectorsStayAligned == Spec => []VectorsAligned
<1>1. ASSUME IngestInv PROVE VectorsAligned
  <2> SUFFICES ASSUME NEW d \in Docs
               PROVE  /\ \A i \in DOMAIN index[d] :
                           LET stored == index[d][i]
                           IN  /\ stored.vector.chunk = stored.text.chunk
                               /\ stored.vector = stored.text \/ stored.text.context = NoContext
                      /\ job[d].stage = "ready" =>
                           [i \in DOMAIN index[d] |-> index[d][i].text.chunk] = ChunksOf(d)
    BY DEF VectorsAligned
  <2>1. IndexInv(d) /\ index[d] \in Seq([text : Stored, vector : Stored]) /\ job[d] \in Job
    BY <1>1 DEF IngestInv, IngestTypeOK
  <2>2. ASSUME job[d].stage = "ready"
        PROVE  [i \in DOMAIN index[d] |-> index[d][i].text.chunk] = ChunksOf(d)
    <3>1. ChunksOf(d) \in Seq(Chunks)
      BY <2>1, JobFields, JoinedType DEF ChunksOf
    <3>2. /\ Len(index[d]) = Len(ChunksOf(d))
          /\ \A i \in DOMAIN index[d] : index[d][i].text.chunk = ChunksOf(d)[i]
      BY <2>1, <2>2 DEF IndexInv
    <3> QED
      BY <2>1, <3>1, <3>2
  <2> QED
    BY <2>1, <2>2 DEF IndexInv, Aligned
<1> QED
  BY <1>1, IngestInvariant, PTL
=============================================================================
