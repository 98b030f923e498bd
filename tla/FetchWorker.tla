----------------------------- MODULE FetchWorker ----------------------------
(***************************************************************************)
(* process_fetch_message of workers/repo_fetch.py: list the files of the   *)
(* repository, reset the progress hash, publish one file:process message   *)
(* per file, and acknowledge last.                                         *)
(***************************************************************************)
EXTENDS IngestionState

FetchLoad(h) ==
  /\ h.role = "fetch" /\ h.pc = "queued"
  /\ Turn(h)
  /\ Load(h, "mark")
  /\ UNCHANGED <<rows, progress, vectors, streams, up, dead, api, faults>>

FetchMark(h) ==
  /\ h.role = "fetch" /\ h.pc = "mark"
  /\ repoStatus' = Written(repoStatus, h.repo, "fetching")
  /\ jobStatus' = Written(jobStatus, h.job, "processing")
  /\ Become(h, [h EXCEPT !.pc = "refresh", !.repo = Unloaded, !.job = Unloaded])
  /\ UNCHANGED <<jobTotal, jobShown, meta, progress, vectors, streams, up,
                 dead, api, faults>>

FetchRefresh(h) ==
  /\ h.role = "fetch" /\ h.pc = "refresh"
  /\ Load(h, "list")
  /\ UNCHANGED <<rows, progress, vectors, streams, up, dead, api, faults>>

\* fetch_repo_files: a blob that cannot be read is left out of the list.
Listings == IF "blob" \in ErrorPoints THEN SUBSET Files ELSE {Files}

FetchFiles(h) ==
  /\ h.role = "fetch" /\ h.pc = "list"
  /\ \E found \in Listings \ {{}} :
       Become(h, [h EXCEPT !.pc = "reset", !.todo = found, !.job = Unloaded])
  /\ UNCHANGED <<rows, progress, vectors, streams, up, dead, api, faults>>

FetchNothing(h) ==
  /\ h.role = "fetch" /\ h.pc = "list"
  /\ {} \in Listings
  /\ repoStatus' = Written(repoStatus, h.repo, "failed")
  /\ jobStatus' = Written(jobStatus, h.job, "failed")
  /\ Become(h, [h EXCEPT !.pc = "close", !.repo = Unloaded, !.job = Unloaded])
  /\ UNCHANGED <<jobTotal, jobShown, meta, progress, vectors, streams, up,
                 dead, api, faults>>

\* init_progress starts every counter at zero, whatever was counted before.
InitProgress(h) ==
  /\ h.role = "fetch" /\ h.pc = "reset"
  /\ progress' = [NoProgress EXCEPT !.total = Cardinality(h.todo)]
  /\ Goto(h, "total")
  /\ UNCHANGED <<rows, vectors, streams, up, dead, api, faults>>

SetTotal(h) ==
  /\ h.role = "fetch" /\ h.pc = "total"
  /\ jobTotal' = Cardinality(h.todo)
  /\ Goto(h, "publish")
  /\ UNCHANGED <<repoStatus, jobStatus, jobShown, meta, progress, vectors,
                 streams, up, dead, api, faults>>

PublishFile(h) ==
  /\ h.role = "fetch" /\ h.pc = "publish"
  /\ \E f \in h.todo :
       /\ streams' = Publish(streams, "process", Message(f, 0))
       /\ Become(h, [h EXCEPT !.todo = @ \ {f}])
  /\ UNCHANGED <<rows, progress, vectors, up, dead, api, faults>>

\* increment_fetch, and the read of flush_to_db.  Nobody else writes the
\* fetched counter, so the two commands are one step.
CountFetched(h) ==
  /\ h.role = "fetch" /\ h.pc = "publish"
  /\ h.todo = {}
  /\ progress' = [progress EXCEPT !.fetched = jobTotal]
  /\ Become(h, [h EXCEPT !.pc = "commit", !.snap = Counts(progress')])
  /\ UNCHANGED <<rows, vectors, streams, up, dead, api, faults>>

\* The counters read above and the status reach the rows, the status as the
\* difference to what FetchRefresh loaded before the listing.
FetchCommit(h) ==
  /\ h.role = "fetch" /\ h.pc = "commit"
  /\ jobShown' = h.snap
  /\ repoStatus' = Written(repoStatus, h.repo, "processing")
  /\ Become(h, [h EXCEPT !.pc = "close", !.snap = NoCounts, !.repo = Unloaded])
  /\ UNCHANGED <<jobStatus, jobTotal, meta, progress, vectors, streams, up,
                 dead, api, faults>>

\* GitHub refuses, Redis refuses a file:process message.
FetchFails(h) ==
  /\ h.role = "fetch"
  /\ \/ h.pc = "list" /\ Fails(h, "github")
     \/ h.pc = "publish" /\ Fails(h, "publish_file")

FetchStep(h) ==
  \/ FetchLoad(h) \/ FetchMark(h) \/ FetchRefresh(h) \/ FetchFiles(h)
  \/ FetchNothing(h) \/ InitProgress(h) \/ SetTotal(h) \/ PublishFile(h)
  \/ CountFetched(h) \/ FetchCommit(h)
=============================================================================
