---------------------------- MODULE MCIngestText ----------------------------
(* IngestText on a small instance: a document of two units, and another that
   repeats one of them. *)
EXTENDS IngestText, TLC

CONSTANTS d1, d2, p1, p2

MCContent == (d1 :> <<p1, p2>>) @@ (d2 :> <<p2>>)
=============================================================================
