--------------------------- MODULE MCDocumentStore ---------------------------
(* DocumentStore on a small instance, and the claims of comments that its    *)
(* runs put to TLC.                                                          *)
EXTENDS DocumentStore, TLC

\* Requests, subjects and files are interchangeable.
MCSymmetry ==
  Permutations(Requests) \cup Permutations(Subjects) \cup Permutations(Files)

\* get_document_bytes: the raw bytes are "available regardless of ingest
\* status", since the object is written before the row exists.
DocumentHasObject == Quiet => \A d \in rows : d.file \in objects
=============================================================================
