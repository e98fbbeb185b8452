------------------------------ MODULE JobQueue ------------------------------
(***************************************************************************)
(* The part of pg-boss that the worker relies on, as pure operators on one *)
(* job row.  pg-boss itself is a library; what is stated here is how the   *)
(* code under apps/worker uses it: a stable job id (the row the job is     *)
(* about), `send` returning null when that id exists already, a bounded    *)
(* number of retries, and an expiry that takes a job away from a handler   *)
(* that has not reported back.                                             *)
(***************************************************************************)
EXTENDS Naturals

CONSTANT RetryLimit     \* REPLAYBUG_JOB_RETRY_LIMIT, 0..10 in the config

JobState == {"none", "created", "retry", "active", "completed", "failed"}

Job == [state : JobState, retries : 0..RetryLimit]

\* A job waits for a retry only while it has one left.
RetryLeft(job) == job.state = "retry" => job.retries < RetryLimit

\* No row with this id in the job table.
NoJob == [state |-> "none", retries |-> 0]

Exists(job) == job.state # "none"

\* boss.send with a stable id: INSERT ... ON CONFLICT DO NOTHING.
Send(job) ==
  [state   |-> IF Exists(job) THEN job.state ELSE "created",
   retries |-> IF Exists(job) THEN job.retries ELSE 0]

Fetchable(job) == job.state \in {"created", "retry"}

\* A fetch that follows a failed attempt is counted as a retry.
Fetch(job) ==
  [state   |-> "active",
   retries |-> IF job.state = "retry" THEN job.retries + 1 ELSE job.retries]

\* Completing touches the row only while it is active.
Complete(job) ==
  [state   |-> IF job.state = "active" THEN "completed" ELSE job.state,
   retries |-> job.retries]

\* Mutant of Fail: the retry limit is compared off by one.
FailOneRetryTooMany(job) ==
  [state   |-> IF job.state # "active" THEN job.state
               ELSE IF job.retries <= RetryLimit THEN "retry" ELSE "failed",
   retries |-> job.retries]

\* A thrown error or an expired attempt: another retry, or the terminal state.
Fail(job) ==
  [state   |-> IF job.state # "active" THEN job.state
               ELSE IF job.retries < RetryLimit THEN "retry" ELSE "failed",
   retries |-> job.retries]

Expire(job) == Fail(job)

=============================================================================
