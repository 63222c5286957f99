------------------------- MODULE MCDocumentPipeline -------------------------
(* Instances of DocumentPipeline for TLC.                                  *)
EXTENDS DocumentPipeline, TLC

CONSTANTS d1, d2, c1, r1, r2

\* Every request carries the same content.
OneContent == [d \in Docs |-> c1]

Interchangeable == Permutations(Docs) \cup Permutations(Runs)
=============================================================================
