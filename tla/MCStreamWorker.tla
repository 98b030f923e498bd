--------------------------- MODULE MCStreamWorker ---------------------------
(***************************************************************************)
(* StreamWorker on small instances.  The cfg files give the constants; the *)
(* payloads, and the workers of a safety run, are interchangeable where    *)
(* nothing is malformed.                                                   *)
(***************************************************************************)
EXTENDS StreamQueue, TLC

Interchangeable == Permutations(Tasks)
WorkersInterchangeable == Permutations(Workers)
=============================================================================
