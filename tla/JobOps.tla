------------------------------- MODULE JobOps -------------------------------
(***************************************************************************)
(* JobLifecycle with the operator actions that hold no lock: ops_fail_job  *)
(* and ops_cancel_job read the record and the status of a job, take it out *)
(* of the queue, save the record they have read and write the status, and  *)
(* anything else can happen between these steps.  The record they hold is  *)
(* a copy: every other operation starts with _refresh_jobs, which replaces *)
(* the dictionaries in the cache.  ops_cleanup_queue holds no lock either: *)
(* it looks at the status of each job with an entry and removes the entry. *)
(* Nor does a launch without a key: it saves the record, writes launching, *)
(* adds the entry, saves its copy of the record again and writes queued.   *)
(* And a listing saves: list_jobs repairs the records it has read before.  *)
(***************************************************************************)
EXTENDS JobLifecycle

CONSTANT OpsForces   \* values of force in these requests

ASSUME OpsForceType == OpsForces \subseteq BOOLEAN

VARIABLE request     \* the request in progress

opsVars == <<vars, request>>

NoRequest == [pc |-> "idle", job |-> None, outcome |-> FAILED, force |-> FALSE,
              meta |-> NoRecord]

Request == {NoRequest} \cup
    [pc : {"read", "checked", "dequeued", "persisted", "written", "purge", "launched",
           "enqueued", "listing"},
     job : Jobs, outcome : {FAILED, CANCELED, LAUNCHING, QUEUED}, force : BOOLEAN,
     meta : Record]

OpsRead(j, outcome, force) ==
    /\ request.pc = "idle"
    /\ Exists(j)
    /\ request' = [pc |-> "read", job |-> j, outcome |-> outcome, force |-> force,
                   meta |-> registry[j]]
    /\ UNCHANGED vars

\* Without force an ended job is refused, and a waiting one can only be canceled.
OpsRefused(s) ==
    /\ ~request.force
    /\ s \in Terminal \cup (IF request.outcome = FAILED THEN {QUEUED, LAUNCHING} ELSE {})

OpsCheck ==
    LET j == request.job
        s == IF statusFile[j] # Absent THEN statusFile[j] ELSE request.meta.status
    IN
    /\ request.pc = "read"
    /\ request' = IF OpsRefused(s) THEN NoRequest ELSE [request EXCEPT !.pc = "checked"]
    /\ UNCHANGED vars

OpsDequeue ==
    /\ request.pc = "checked"
    /\ queue' = RemovedFrom(queue, request.job)
    /\ request' = [request EXCEPT !.pc = "dequeued"]
    /\ UNCHANGED <<registry, statusFile, poll, issued, grants, quiet, worlds, returns, history>>

\* The record that was read is saved, with the new status.
OpsPersist ==
    /\ request.pc = "dequeued"
    /\ registry' = [registry EXCEPT ![request.job] =
                        [request.meta EXCEPT !.status = request.outcome]]
    /\ request' = [request EXCEPT !.pc = "persisted"]
    /\ UNCHANGED <<statusFile, queue, poll, issued, grants, quiet, worlds, returns, history>>

\* An unkeyed launch registers the job ...
LaunchBegin(j, host) ==
    /\ request.pc = "idle"
    /\ ~Exists(j)
    /\ registry' = [registry EXCEPT ![j] = LaunchRecord(host)]
    /\ request' = [pc |-> "persisted", job |-> j, outcome |-> LAUNCHING, force |-> FALSE,
                   meta |-> LaunchRecord(host)]
    /\ UNCHANGED <<statusFile, queue, poll, issued, grants, quiet, worlds, returns, history>>

\* ... and, once its status says launching, adds the entry: polls see it now ...
LaunchEnqueue ==
    LET host == request.meta.preferred IN
    /\ request.pc = "launched"
    /\ queue' = EnqueuedIn(queue, request.job, host, host # None)
    /\ request' = [request EXCEPT !.pc = "enqueued"]
    /\ UNCHANGED <<registry, statusFile, poll, issued, grants, quiet, worlds, returns, history>>

\* ... saves its copy of the record with the status queued, and will write that.
LaunchPersist ==
    /\ request.pc = "enqueued"
    /\ registry' = [registry EXCEPT ![request.job] = [request.meta EXCEPT !.status = QUEUED]]
    /\ request' = [request EXCEPT !.pc = "persisted", !.outcome = QUEUED]
    /\ UNCHANGED <<statusFile, queue, poll, issued, grants, quiet, worlds, returns, history>>

\* Mutant: the check at the start is taken to be enough.
OverwritesChecked == TRUE

\* _force_status instead of _write_status.
Overwrites == request.force

\* _write_status refuses a transition: the request fails, the record stays as
\* it was saved.  A write of queued takes the fence from the cached record.
OpsWrite ==
    LET j == request.job
        s == request.outcome
    IN
    /\ request.pc = "persisted"
    /\ \/ /\ Overwrites \/ Writable(statusFile[j], s)
          /\ statusFile' = [statusFile EXCEPT ![j] = s]
          /\ quiet' = [quiet EXCEPT ![j] = FALSE]
          /\ ByOrchestrator(j)
          /\ owner' = IF s = QUEUED THEN [owner EXCEPT ![j] = NoAttempt] ELSE owner
          /\ request' = [request EXCEPT !.pc = "written",
                 !.meta = IF s = QUEUED THEN Written(registry[j], statusFile[j], s) ELSE @]
       \/ /\ ~Overwrites
          /\ ~Writable(statusFile[j], s)
          /\ request' = NoRequest
          /\ UNCHANGED <<statusFile, quiet, history>>
    /\ UNCHANGED <<registry, queue, poll, issued, grants, worlds, returns>>

\* The cached record is saved with the status once more: the one whose fence was
\* taken, or what another request has refreshed the cache to since.
OpsSave ==
    LET j == request.job
        m == request.meta
        s == request.outcome
    IN
    /\ request.pc = "written"
    /\ \/ registry' = [registry EXCEPT ![j].status = s]
       \/ /\ s = QUEUED
          /\ registry[j] = [m EXCEPT !.status = registry[j].status, !.token = registry[j].token]
          /\ registry' = [registry EXCEPT ![j] = m]
    /\ request' = IF s = LAUNCHING THEN [request EXCEPT !.pc = "launched"] ELSE NoRequest
    /\ UNCHANGED <<statusFile, queue, poll, issued, grants, quiet, worlds, returns, history>>

\* ops_cleanup_queue: the entry of a job that does not wait is to be removed,
\* with force any entry.
PurgeRead(j, force) ==
    /\ request.pc = "idle"
    /\ j \in Waiting
    /\ force \/ ~Exists(j) \/ StatusNow(j) \notin {QUEUED, LAUNCHING}
    /\ request' = [NoRequest EXCEPT !.pc = "purge", !.job = j, !.force = force]
    /\ UNCHANGED vars

PurgeEntry ==
    /\ request.pc = "purge"
    /\ queue' = RemovedFrom(queue, request.job)
    /\ request' = NoRequest
    /\ UNCHANGED <<registry, statusFile, poll, issued, grants, quiet, worlds, returns, history>>

\* list_jobs has the records of all jobs, then takes one after the other.  Of an
\* ended job it has a finished_at ...
ListRead(j) ==
    /\ request.pc = "idle"
    /\ registry[j].status \in Terminal
    /\ request' = [NoRequest EXCEPT !.pc = "listing", !.job = j, !.meta = registry[j]]
    /\ UNCHANGED vars

\* ... which it drops if the status says by now that the job has not ended, and
\* saves the record it has.
ListRepair ==
    LET j == request.job
        s == StatusNow(j)
    IN
    /\ request.pc = "listing"
    /\ registry' = IF s \in Terminal THEN registry
                   ELSE [registry EXCEPT ![j] = [request.meta EXCEPT !.status = s]]
    /\ request' = NoRequest
    /\ UNCHANGED <<statusFile, queue, poll, issued, grants, quiet, worlds, returns, history>>

OpsStep ==
    \/ \E j \in Jobs, outcome \in {FAILED, CANCELED}, force \in OpsForces :
         OpsRead(j, outcome, force)
    \/ \E j \in Jobs, force \in OpsForces : PurgeRead(j, force)
    \/ PurgeEntry
    \/ \E j \in Jobs : ListRead(j)
    \/ ListRepair
    \/ \E j \in Jobs, host \in LaunchHosts : LaunchBegin(j, host)
    \/ LaunchEnqueue \/ LaunchPersist
    \/ OpsCheck \/ OpsDequeue \/ OpsPersist \/ OpsWrite \/ OpsSave

OpsInit == Init /\ request = NoRequest

\* What goes on meanwhile.  The launch of a key is repeated only after a crash.
Others ==
    \/ \E j \in Jobs : Launch(j) /\ ~Exists(j)
    \/ \E j \in Jobs : Operate(j) \/ Sweep(j)
    \/ \E w \in Workers : PollStep(w)
    \/ \E a \in issued, s \in AgentStatuses : Report(a, s)
    \/ World

OpsNext == OpsStep \/ (Others /\ UNCHANGED request)

OpsSpec == OpsInit /\ [][OpsNext]_opsVars

-----------------------------------------------------------------------------
(* Correctness. *)

\* The unlocked requests keep the shapes of the state.
OpsTypeOK == TypeOK /\ request \in Request

\* Without force an operator's request never replaces an outcome, although the
\* job may end after the request has checked that it had not; and a launch does
\* not bring back a job that was canceled under it.  A requeue reopens one, and,
\* in UnionRecovery, so does a recovery.
OutcomeNeedsForce ==
    [][\A j \in Jobs : (statusFile[j] \in Terminal /\ statusFile'[j] # statusFile[j])
          => \/ statusFile'[j] = QUEUED /\ owner'[j] = NoAttempt /\ request' = request
             \/ request.job = j /\ request.force /\ request.pc = "persisted"]_opsVars

\* "One JSON payload per queued job + claim files" (jobs.md): between requests and
\* launches, a queued job has an entry or a poll that is about to look at it.
QueuedAtRestIsTracked == request.pc = "idle" => QueuedIsTracked

\* "cleanup: removes queue entries with missing/invalid job metadata" (jobs.md):
\* without force, not the entry of a job that waits for a worker.
PurgeSparesQueued ==
    [][(request.pc = "purge" /\ ~request.force /\ request' = NoRequest)
          => StatusNow(request.job) \notin {QUEUED, LAUNCHING}]_opsVars

\* A listing is a GET: it does not change who may report for a job.
ListingKeepsFence ==
    [][(request.pc = "listing" /\ request' = NoRequest)
          => registry'[request.job].token = registry[request.job].token]_opsVars
=============================================================================
