----------------------------- MODULE JobFollower ----------------------------
(***************************************************************************)
(* A client that follows a job over server-sent events (stream_job_status  *)
(* of api/v2/endpoints/ingest.py), beside the pipeline that works on it.   *)
(* Every two seconds the generator reads the row of the job, then the      *)
(* progress hash, and sends both; it stops at a status it takes for final. *)
(* A turn that does not stop changes nothing here.                         *)
(***************************************************************************)
EXTENDS IngestionPipeline

VARIABLES
  follower,  \* "following"; a final status, read before the progress; "ended"
  told       \* the last update: the status and the percentage it carries

following == <<vars, follower, told>>

\* A client may have the id as soon as the row is there: a second POST answers
\* with it.
FollowInit ==
  /\ Init /\ follower = "following"
  /\ told = [status |-> "none", percent |-> 0]

\* The statuses at which the generator stops.
Final == {"completed", "failed"}

\* _calculate_progress, in whole numbers: a share of each counter.  The shares
\* are floats in the code, exact where a counter is 0 or the total.
Percent(c, total) ==
  IF total = 0 THEN 0
  ELSE (33 * c.fetched + 33 * c.processed + 34 * c.stored) \div total

\* The row is read: its status, and the percentage last flushed to it, which
\* is sent if the hash cannot be read.
PollStatus ==
  /\ follower = "following"
  /\ jobStatus \in Final
  /\ follower' = jobStatus
  /\ told' = [status |-> jobStatus, percent |-> Percent(jobShown, jobTotal)]
  /\ UNCHANGED vars

\* The hash is read, the update goes out, and the last event after it.
PollProgress ==
  /\ follower \in Final
  /\ follower' = "ended"
  /\ \/ told' = [told EXCEPT !.percent = Percent(progress, progress.total)]
     \/ "progress" \in ErrorPoints /\ UNCHANGED told
  /\ UNCHANGED vars

\* The client goes away, or Postgres raises and an error event is the last.
Leave ==
  /\ follower = "following"
  /\ follower' = "ended"
  /\ UNCHANGED <<vars, told>>

FollowNext ==
  \/ Next /\ UNCHANGED <<follower, told>>
  \/ PollStatus \/ PollProgress \/ Leave

\* The workers run as in IngestionPipeline.
FollowSpec ==
  /\ FollowInit /\ [][FollowNext]_following
  /\ WF_following((ApiPublish \/ ApiFails) /\ UNCHANGED <<follower, told>>)
  /\ \A r \in Roles :
       /\ WF_following(Consume(r) /\ UNCHANGED <<follower, told>>)
       /\ WF_following(
            (\E h \in ctx : h.role = r /\ Step(h)) /\ UNCHANGED <<follower, told>>)

-----------------------------------------------------------------------------

\* Who is told "completed" is told of two thirds at least: every file is
\* counted as processed and as stored in the hash, although the status and the
\* counters come from two stores and the workers write both in between.  The
\* last third, the files fetched, is counted after they are published, and the
\* client whose last update comes before that sees 67 percent of a completed
\* job.
LastUpdateWhole ==
  follower = "ended" /\ told.status = "completed" => told.percent >= 67
=============================================================================
