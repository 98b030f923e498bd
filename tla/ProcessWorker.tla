---------------------------- MODULE ProcessWorker ---------------------------
(***************************************************************************)
(* process_files_message of workers/file_process.py with process_file of   *)
(* ingestion/processor.py: parse, embed and count one file, acknowledge,   *)
(* then publish it to file:store.                                          *)
(***************************************************************************)
EXTENDS IngestionState

ProcessLoad(h) ==
  /\ h.role = "process" /\ h.pc = "queued"
  /\ Turn(h)
  /\ Load(h, "mark")
  /\ UNCHANGED <<rows, progress, vectors, streams, up, dead, api, faults>>

ProcessMark(h) ==
  /\ h.role = "process" /\ h.pc = "mark"
  /\ repoStatus' = Written(repoStatus, h.repo, "processing")
  /\ jobStatus' = Written(jobStatus, h.job, "processing")
  /\ Become(h, [h EXCEPT !.pc = "examine", !.repo = Unloaded, !.job = Unloaded])
  /\ UNCHANGED <<jobTotal, jobShown, meta, progress, vectors, streams, up,
                 dead, api, faults>>

\* process_file returns None: the repository is complete, the file is
\* already indexed with this content, or it holds no chunk.
Skippable(h) ==
  repoStatus = "completed" \/ meta[File(h)] = "completed" \/ File(h) \in Chunkless

\* A skipped file is acknowledged and nothing else.
ProcessSkip(h) ==
  /\ h.role = "process" /\ h.pc = "examine"
  /\ Skippable(h)
  /\ Goto(h, "close")
  /\ UNCHANGED <<rows, progress, vectors, streams, up, dead, api, faults>>

\* Mutant: the file is processed and not counted.
ProcessFileUncounted(h) ==
  /\ h.role = "process" /\ h.pc = "examine"
  /\ ~Skippable(h)
  /\ Goto(h, "check")
  /\ UNCHANGED <<rows, progress, vectors, streams, up, dead, api, faults>>

ProcessFile(h) ==
  /\ h.role = "process" /\ h.pc = "examine"
  /\ ~Skippable(h)
  /\ Goto(h, "count")
  /\ UNCHANGED <<rows, progress, vectors, streams, up, dead, api, faults>>

CountProcessed(h) ==
  /\ h.role = "process" /\ h.pc = "count"
  /\ progress' = [progress EXCEPT !.processed = @ + 1]
  /\ Goto(h, "check")
  /\ UNCHANGED <<rows, vectors, streams, up, dead, api, faults>>

\* get_progress, and the read of flush_to_db behind the comparison.
ProcessCheck(h) ==
  /\ h.role = "process" /\ h.pc = "check"
  /\ Become(h, IF progress.processed >= jobTotal
               THEN [h EXCEPT !.pc = "commit", !.flush = TRUE,
                              !.snap = Counts(progress)]
               ELSE [h EXCEPT !.pc = "commit"])
  /\ UNCHANGED <<rows, progress, vectors, streams, up, dead, api, faults>>

ProcessCommit(h) ==
  /\ h.role = "process" /\ h.pc = "commit"
  /\ jobShown' = IF h.flush THEN h.snap ELSE jobShown
  /\ meta' = WithRow(File(h))
  /\ Become(h, [h EXCEPT !.pc = "ack", !.flush = FALSE, !.snap = NoCounts])
  /\ UNCHANGED <<repoStatus, jobStatus, jobTotal, progress, vectors, streams,
                 up, dead, api, faults>>

\* Mutant: the message is published and never acknowledged.
ProcessAckForgotten(h) ==
  /\ h.role = "process" /\ h.pc = "ack"
  /\ Goto(h, "publish")
  /\ UNCHANGED <<rows, progress, vectors, streams, up, dead, api, faults>>

ProcessAck(h) ==
  /\ h.role = "process" /\ h.pc = "ack"
  /\ streams' = Acked(streams, "process", h.id)
  /\ Goto(h, "publish")
  /\ UNCHANGED <<rows, progress, vectors, up, dead, api, faults>>

ProcessPublish(h) ==
  /\ h.role = "process" /\ h.pc = "publish"
  /\ streams' = Publish(streams, "store", Message(File(h), 0))
  /\ End(h)
  /\ UNCHANGED <<rows, progress, vectors, up, dead, api, faults>>

\* The parser or the embedding service raises, the progress hash cannot be
\* read, Redis refuses the file:store message.
ProcessFails(h) ==
  /\ h.role = "process"
  /\ \/ h.pc = "examine" /\ ~Skippable(h) /\ Fails(h, "embed")
     \/ h.pc = "check" /\ Fails(h, "progress")
     \/ h.pc = "publish" /\ Fails(h, "publish_store")

ProcessStep(h) ==
  \/ ProcessLoad(h) \/ ProcessMark(h) \/ ProcessSkip(h) \/ ProcessFile(h)
  \/ CountProcessed(h) \/ ProcessCheck(h) \/ ProcessCommit(h)
  \/ ProcessAck(h) \/ ProcessPublish(h)
=============================================================================
