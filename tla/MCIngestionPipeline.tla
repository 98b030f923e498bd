------------------------ MODULE MCIngestionPipeline -------------------------
(* IngestionPipeline on small instances: the files are interchangeable in  *)
(* the safety runs.                                                        *)
EXTENDS IngestionPipeline, TLC

Interchangeable == Permutations(Files \ Chunkless)
=============================================================================
