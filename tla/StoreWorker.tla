----------------------------- MODULE StoreWorker ----------------------------
(***************************************************************************)
(* process_files_store_message of workers/file_store.py with store_filedata*)
(* of ingestion/store.py: write the vectors and the metadata of one file,  *)
(* acknowledge, count it, and complete the job with the last one.          *)
(***************************************************************************)
EXTENDS IngestionState

StoreLoad(h) ==
  /\ h.role = "store" /\ h.pc = "queued"
  /\ Goto(h, "examine")
  /\ UNCHANGED <<rows, progress, vectors, streams, up, dead, api, faults>>

\* Raised before repo_url is bound: the except block raises in turn, gather
\* swallows that, and the message stays pending.
StoreAbandon(h) ==
  /\ h.role = "store" /\ h.pc = "queued"
  /\ Raises("store_load")
  /\ End(h)
  /\ UNCHANGED <<rows, progress, vectors, streams, up, dead, api>>

\* Mutant: a repository that failed is passed over like a complete one.
StoreExamineFailed(h) ==
  /\ h.role = "store" /\ h.pc = "examine"
  /\ Goto(h, IF repoStatus \in {"completed", "failed"} THEN "commit" ELSE "vectors")
  /\ UNCHANGED <<rows, progress, vectors, streams, up, dead, api, faults>>

\* store_filedata reports success for a complete repository and stores
\* nothing.
StoreExamine(h) ==
  /\ h.role = "store" /\ h.pc = "examine"
  /\ Goto(h, IF repoStatus = "completed" THEN "commit" ELSE "vectors")
  /\ UNCHANGED <<rows, progress, vectors, streams, up, dead, api, faults>>

StoreVectors(h) ==
  /\ h.role = "store" /\ h.pc = "vectors"
  /\ vectors' = vectors \cup {File(h)}
  /\ Goto(h, "meta")
  /\ UNCHANGED <<rows, progress, streams, up, dead, api, faults>>

\* upsert_file_metadata commits on its own.
StoreMeta(h) ==
  /\ h.role = "store" /\ h.pc = "meta"
  /\ meta' = [meta EXCEPT ![File(h)] = "completed"]
  /\ Goto(h, "commit")
  /\ UNCHANGED <<repoStatus, jobStatus, jobTotal, jobShown, progress, vectors,
                 streams, up, dead, api, faults>>

\* Refresh of both rows, chunk totals, commit.
StoreCommit(h) ==
  /\ h.role = "store" /\ h.pc = "commit"
  /\ meta' = WithRow(File(h))
  /\ Become(h, [h EXCEPT !.pc = "ack", !.repo = repoStatus])
  /\ UNCHANGED <<repoStatus, jobStatus, jobTotal, jobShown, progress, vectors,
                 streams, up, dead, api, faults>>

\* Mutant: the file is counted and never acknowledged.
StoreAckForgotten(h) ==
  /\ h.role = "store" /\ h.pc = "ack"
  /\ Goto(h, "count")
  /\ UNCHANGED <<rows, progress, vectors, streams, up, dead, api, faults>>

StoreAck(h) ==
  /\ h.role = "store" /\ h.pc = "ack"
  /\ streams' = Acked(streams, "store", h.id)
  /\ Goto(h, "count")
  /\ UNCHANGED <<rows, progress, vectors, up, dead, api, faults>>

CountStored(h) ==
  /\ h.role = "store" /\ h.pc = "count"
  /\ progress' = [progress EXCEPT !.stored = @ + 1]
  /\ Goto(h, "check")
  /\ UNCHANGED <<rows, vectors, streams, up, dead, api, faults>>

\* Mutant: the last file does not reach the total.
StoreCheckStrict(h) ==
  /\ h.role = "store" /\ h.pc = "check"
  /\ IF progress.stored > progress.total
     THEN Become(h, [h EXCEPT !.pc = "finish", !.snap = Counts(progress)])
     ELSE End(h)
  /\ UNCHANGED <<rows, progress, vectors, streams, up, dead, api, faults>>

\* Mutant: the counter of the processed files decides.
StoreCheckProcessed(h) ==
  /\ h.role = "store" /\ h.pc = "check"
  /\ IF progress.processed >= progress.total
     THEN Become(h, [h EXCEPT !.pc = "finish", !.snap = Counts(progress)])
     ELSE End(h)
  /\ UNCHANGED <<rows, progress, vectors, streams, up, dead, api, faults>>

\* get_progress, and the read of flush_to_db behind the comparison.
StoreCheck(h) ==
  /\ h.role = "store" /\ h.pc = "check"
  /\ IF progress.stored >= progress.total
     THEN Become(h, [h EXCEPT !.pc = "finish", !.snap = Counts(progress)])
     ELSE End(h)
  /\ UNCHANGED <<rows, progress, vectors, streams, up, dead, api, faults>>

\* Mutant: the counters are not flushed with the statuses.
StoreFinishUnshown(h) ==
  /\ h.role = "store" /\ h.pc = "finish"
  /\ jobStatus' = "completed"
  /\ repoStatus' = Written(repoStatus, h.repo, "completed")
  /\ End(h)
  /\ UNCHANGED <<jobTotal, jobShown, meta, progress, vectors, streams, up, dead,
                 api, faults>>

\* The job row is locked and refreshed by flush_to_db; the repository is
\* compared with what StoreCommit loaded.
StoreFinish(h) ==
  /\ h.role = "store" /\ h.pc = "finish"
  /\ jobShown' = h.snap
  /\ jobStatus' = "completed"
  /\ repoStatus' = Written(repoStatus, h.repo, "completed")
  /\ End(h)
  /\ UNCHANGED <<jobTotal, meta, progress, vectors, streams, up, dead, api,
                 faults>>

\* Qdrant refuses the vectors, Postgres the metadata; after the ack, the
\* progress hash cannot be read.
StoreFails(h) ==
  /\ h.role = "store"
  /\ \/ h.pc = "vectors" /\ Fails(h, "qdrant")
     \/ h.pc = "meta" /\ Fails(h, "db_store")
     \/ h.pc = "check" /\ Fails(h, "progress")

StoreStep(h) ==
  \/ StoreLoad(h) \/ StoreExamine(h) \/ StoreVectors(h) \/ StoreMeta(h)
  \/ StoreCommit(h) \/ StoreAck(h) \/ CountStored(h) \/ StoreCheck(h)
  \/ StoreFinish(h)
=============================================================================
