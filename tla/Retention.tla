----------------------------- MODULE Retention ------------------------------
(***************************************************************************)
(* Which jobs the orchestrator still has: keyed submission, deletion, the  *)
(* cleanup of old jobs and personal organization, while jobs are worked    *)
(* on, requeued and end.                                                   *)
(*                                                                         *)
(* delete_job and ops_cleanup_jobs hold no lock of a job: they decide from *)
(* what they read first and then remove directories, records, queue        *)
(* entries and organization one after the other, so each removal is an     *)
(* action.  A requeue holds the state lock of its job, which they do not   *)
(* take, so its read and its write are two actions as well.  Submissions,  *)
(* deletions and organization run on the one event loop of the server and  *)
(* await nothing in between: they never overlap each other (LoopFree), but *)
(* requests of operators and workers, which run in threads, overlap them.  *)
(* Of the life of a job (JobLifecycle) only the statuses these operations  *)
(* tell apart are kept.                                                    *)
(***************************************************************************)
EXTENDS Organization, Submission

CONSTANTS
    Submitter,    \* job -> its owner
    Keep,         \* jobs a cleanup is told to keep
    SqlStore,     \* JOB_DATABASE_URL is set
    MaxCrashes,   \* bound: how often the server is killed
    MaxRequeues   \* bound: how often jobs are requeued

ASSUME RetentionConstants ==
    /\ Submitter \in [Jobs -> Owners]
    /\ Keep \subseteq Jobs
    /\ SqlStore \in BOOLEAN

VARIABLES
    registry,     \* the status in the registry record of a job
    statusFile,   \* the status in the directory of a job
    waiting,      \* jobs with an entry in the queue
    requeue,      \* the job an operator's requeue has read
    deletion,     \* the deletion in progress
    cleaner,      \* the cleanup in progress
    settled,      \* history: jobs archived since before the cleanup began
    crashes, requeues

stores == <<registry, statusFile, waiting>>
requests == <<requeue, deletion, cleaner>>
bounds == <<crashes, requeues>>
vars == <<organizationVars, submissionVars, stores, requests, settled, bounds>>

NoDeletion == [pc |-> "idle", job |-> Nothing]
NoCleanup == [pc |-> "idle", keep |-> {}, removed |-> {}, todo |-> {}]

Known == {j \in Jobs : registry[j] # Absent}
Launching == {j \in Jobs : registry[j] = LAUNCHING}
StatusNow(j) == IF statusFile[j] # Absent THEN statusFile[j] ELSE registry[j]

\* No submission or deletion is running on the event loop.
LoopFree == deletion.pc = "idle" /\ \A k \in Keys : submit[k] = "idle"

SetStatus(j, s) ==
    /\ registry' = [registry EXCEPT ![j] = s]
    /\ statusFile' = [statusFile EXCEPT ![j] = s]

-----------------------------------------------------------------------------
(* Submissions with a key. *)

Submit(k) ==
    /\ \/ LoopFree /\ \E params \in Params : Record(k, params)
       \/ RefuseDeleted(k, Known)
       \/ FindLaunched(k, Known, Launching)
       \/ Answer(k)
    /\ UNCHANGED <<organizationVars, stores, requests, settled, bounds>>

\* _launch_simulation under the lock of the job.
Launch(k) ==
    LET j == records[k].job IN
    /\ LaunchFor(k, Known, Launching)
    /\ Writable(statusFile[j], LAUNCHING)
    /\ SetStatus(j, QUEUED)
    /\ waiting' = waiting \cup {j}
    /\ UNCHANGED <<organizationVars, requests, settled, bounds>>

\* An old status.json refuses launching after the record was stored.
LaunchRefused(k) ==
    LET j == records[k].job IN
    /\ MayLaunch(k, Known, Launching)
    /\ ~Writable(statusFile[j], LAUNCHING)
    /\ Abandon({k}, {k})
    /\ registry' = [registry EXCEPT ![j] = LAUNCHING]
    /\ UNCHANGED <<statusFile, waiting, organizationVars, requests, settled, bounds>>

-----------------------------------------------------------------------------
(* The life of a job. *)

\* A worker takes the entry of a job that is still known.
Take(j) ==
    /\ j \in waiting
    /\ waiting' = waiting \ {j}
    /\ IF j \in Known /\ StatusNow(j) \in {QUEUED, LAUNCHING} THEN SetStatus(j, DISPATCHED)
       ELSE UNCHANGED <<registry, statusFile>>
    /\ UNCHANGED <<organizationVars, submissionVars, requests, settled, bounds>>

\* Its worker reports the end; a report for an unknown job is refused.
End(j) ==
    /\ j \in Known
    /\ StatusNow(j) = DISPATCHED
    /\ SetStatus(j, FINISHED)
    /\ UNCHANGED <<waiting, organizationVars, submissionVars, requests, settled, bounds>>

\* An operator's forced requeue: the record is read ...
RequeueRead(j) ==
    /\ requeue = Nothing
    /\ requeues < MaxRequeues
    /\ j \in Known
    /\ requeue' = j
    /\ requeues' = requeues + 1
    /\ UNCHANGED <<organizationVars, submissionVars, stores, deletion, cleaner, settled, crashes>>

\* ... and entry, status and record are written.
RequeueWrite ==
    /\ requeue # Nothing
    /\ waiting' = waiting \cup {requeue}
    /\ SetStatus(requeue, QUEUED)
    /\ requeue' = Nothing
    /\ UNCHANGED <<organizationVars, submissionVars, deletion, cleaner, settled, bounds>>

-----------------------------------------------------------------------------
(* delete_job: the status is checked, then the directory, the record, the   *)
(* queue entry and the organization of the job are removed.                *)

DeleteCheck(j) ==
    /\ LoopFree
    /\ j \in Known
    /\ StatusNow(j) \in Terminal
    /\ deletion' = [pc |-> "directory", job |-> j]
    /\ UNCHANGED <<organizationVars, submissionVars, stores, requeue, cleaner, settled, bounds>>

DeleteDirectory ==
    /\ deletion.pc = "directory"
    /\ statusFile' = [statusFile EXCEPT ![deletion.job] = Absent]
    /\ deletion' = [deletion EXCEPT !.pc = "record"]
    /\ UNCHANGED <<registry, waiting, organizationVars, submissionVars, requeue, cleaner, settled, bounds>>

\* With SQL the queue row goes in the same transaction.
DeleteRecord ==
    /\ deletion.pc = "record"
    /\ registry' = [registry EXCEPT ![deletion.job] = Absent]
    /\ waiting' = IF SqlStore THEN waiting \ {deletion.job} ELSE waiting
    /\ deletion' = [deletion EXCEPT !.pc = "entry"]
    /\ UNCHANGED <<statusFile, organizationVars, submissionVars, requeue, cleaner, settled, bounds>>

DeleteEntry ==
    /\ deletion.pc = "entry"
    /\ waiting' = waiting \ {deletion.job}
    /\ deletion' = [deletion EXCEPT !.pc = "organization"]
    /\ UNCHANGED <<registry, statusFile, organizationVars, submissionVars, requeue, cleaner, settled, bounds>>

DeleteOrganization ==
    /\ deletion.pc = "organization"
    /\ remove_jobs({deletion.job})
    /\ settled' = settled \ {deletion.job}
    /\ deletion' = NoDeletion
    /\ UNCHANGED <<submissionVars, stores, requeue, cleaner, bounds>>

Delete ==
    \/ \E j \in Jobs : DeleteCheck(j)
    \/ DeleteDirectory \/ DeleteRecord \/ DeleteEntry \/ DeleteOrganization

-----------------------------------------------------------------------------
(* ops_cleanup_jobs: what to keep is read first, then everything else goes. *)

\* Mutant: archived jobs are not looked up.
KeepUnarchived == Keep

\* The default jobs, the ones named in the request, and the archived ones.
Kept == Keep \cup archived_job_ids

CleanupBegin ==
    /\ cleaner.pc = "idle"
    /\ cleaner' = [NoCleanup EXCEPT !.pc = "select", !.keep = Kept]
    /\ settled' = archived_job_ids
    /\ UNCHANGED <<organizationVars, submissionVars, stores, requeue, deletion, bounds>>

\* Active jobs are kept as well; the other known ones are to be removed.
CleanupSelect ==
    LET keep == cleaner.keep \cup {j \in Known : StatusNow(j) \in Active}
        removed == Known \ keep
    IN
    /\ cleaner.pc = "select"
    /\ cleaner' = [pc |-> IF removed = {} THEN "protect" ELSE "directories",
                   keep |-> keep, removed |-> removed, todo |-> removed]
    /\ UNCHANGED <<organizationVars, submissionVars, stores, requeue, deletion, settled, bounds>>

CleanupDirectory(j) ==
    /\ cleaner.pc = "directories"
    /\ j \in cleaner.todo
    /\ statusFile' = [statusFile EXCEPT ![j] = Absent]
    /\ cleaner' = [cleaner EXCEPT !.todo = @ \ {j}]
    /\ UNCHANGED <<registry, waiting, organizationVars, submissionVars, requeue, deletion, settled, bounds>>

\* prune_jobs drops every record that is not kept, new ones included.
CleanupRecords ==
    /\ cleaner.pc = "directories"
    /\ cleaner.todo = {}
    /\ registry' = [j \in Jobs |-> IF j \in cleaner.keep THEN registry[j] ELSE Absent]
    /\ waiting' = IF SqlStore THEN waiting \ (Known \ cleaner.keep) ELSE waiting
    /\ cleaner' = [cleaner EXCEPT !.pc = "entries"]
    /\ UNCHANGED <<statusFile, organizationVars, submissionVars, requeue, deletion, settled, bounds>>

CleanupEntries ==
    /\ cleaner.pc = "entries"
    /\ waiting' = waiting \ cleaner.removed
    /\ cleaner' = [cleaner EXCEPT !.pc = "organization"]
    /\ UNCHANGED <<registry, statusFile, organizationVars, submissionVars, requeue, deletion, settled, bounds>>

CleanupOrganization ==
    /\ cleaner.pc = "organization"
    /\ remove_jobs(cleaner.removed)
    /\ cleaner' = [cleaner EXCEPT !.pc = "protect"]
    /\ UNCHANGED <<submissionVars, stores, requeue, deletion, settled, bounds>>

\* Directories of jobs that are neither known nor kept are orphans.
CleanupProtect ==
    /\ cleaner.pc = "protect"
    /\ cleaner' = [cleaner EXCEPT !.pc = "orphans",
                                  !.todo = Jobs \ (Known \cup cleaner.keep)]
    /\ UNCHANGED <<organizationVars, submissionVars, stores, requeue, deletion, settled, bounds>>

CleanupOrphan(j) ==
    /\ cleaner.pc = "orphans"
    /\ j \in cleaner.todo
    /\ statusFile' = IF statusFile[j] \in Active THEN statusFile
                     ELSE [statusFile EXCEPT ![j] = Absent]
    /\ cleaner' = [cleaner EXCEPT !.todo = @ \ {j}]
    /\ UNCHANGED <<registry, waiting, organizationVars, submissionVars, requeue, deletion, settled, bounds>>

CleanupEnd ==
    /\ cleaner.pc = "orphans"
    /\ cleaner.todo = {}
    /\ cleaner' = NoCleanup
    /\ settled' = {}
    /\ UNCHANGED <<organizationVars, submissionVars, stores, requeue, deletion, bounds>>

Cleanup ==
    \/ CleanupBegin \/ CleanupSelect \/ CleanupRecords \/ CleanupEntries
    \/ CleanupOrganization \/ CleanupProtect \/ CleanupEnd
    \/ \E j \in Jobs : CleanupDirectory(j) \/ CleanupOrphan(j)

-----------------------------------------------------------------------------
(* Personal organization of a job: only by its submitter. *)

\* _require_job_organization_owner.
MayOrganize(j, owner) == j \in Known /\ owner = Submitter[j]

move_job_to_folder(j, owner) ==
    /\ MayOrganize(j, owner)
    /\ \E f \in Folders \cup {Nothing} : set_job_folder(j, owner, f)
    /\ UNCHANGED <<submissionVars, stores, requests, settled, bounds>>

archive_job(j, owner) ==
    /\ MayOrganize(j, owner)
    /\ StatusNow(j) \in Terminal
    /\ set_job_archived(j, owner, TRUE)
    /\ UNCHANGED <<submissionVars, stores, requests, settled, bounds>>

restore_archived_job(j, owner) ==
    /\ MayOrganize(j, owner)
    /\ set_job_archived(j, owner, FALSE)
    /\ settled' = settled \ {j}
    /\ UNCHANGED <<submissionVars, stores, requests, bounds>>

Organize ==
    /\ LoopFree
    /\ \/ FolderStep /\ UNCHANGED <<submissionVars, stores, requests, settled, bounds>>
       \/ \E j \in Jobs, owner \in Owners :
            move_job_to_folder(j, owner) \/ archive_job(j, owner) \/ restore_archived_job(j, owner)

-----------------------------------------------------------------------------
(* The server is killed and restarted. *)

Restart ==
    /\ crashes < MaxCrashes
    /\ crashes' = crashes + 1
    /\ requeue' = Nothing
    /\ deletion' = NoDeletion
    /\ cleaner' = NoCleanup
    /\ settled' = {}

Crash ==
    /\ Restart
    /\ Abandon(Keys, {})
    /\ UNCHANGED <<organizationVars, stores, requeues>>

\* A launch is cut short: the record says launching, status.json perhaps too.
CrashLaunch(k) ==
    LET j == records[k].job IN
    /\ MayLaunch(k, Known, Launching)
    /\ Writable(statusFile[j], LAUNCHING)
    /\ Restart
    /\ Abandon(Keys, {k})
    /\ registry' = [registry EXCEPT ![j] = LAUNCHING]
    /\ statusFile' \in {statusFile, [statusFile EXCEPT ![j] = LAUNCHING]}
    /\ UNCHANGED <<organizationVars, waiting, requeues>>

-----------------------------------------------------------------------------
Init ==
    /\ OrganizationInit
    /\ SubmissionInit
    /\ registry = [j \in Jobs |-> Absent]
    /\ statusFile = [j \in Jobs |-> Absent]
    /\ waiting = {}
    /\ requeue = Nothing
    /\ deletion = NoDeletion
    /\ cleaner = NoCleanup
    /\ settled = {}
    /\ crashes = 0
    /\ requeues = 0

Next ==
    \/ \E k \in Keys : Submit(k) \/ Launch(k) \/ LaunchRefused(k) \/ CrashLaunch(k)
    \/ \E j \in Jobs : Take(j) \/ End(j) \/ RequeueRead(j)
    \/ RequeueWrite \/ Delete \/ Cleanup \/ Organize \/ Crash

Spec == Init /\ [][Next]_vars

-----------------------------------------------------------------------------
(* Correctness. *)

\* The stored jobs, submissions and organization keep their shapes.
RetentionTypeOK ==
    /\ OrganizationTypeOK
    /\ SubmissionTypeOK
    /\ registry \in [Jobs -> Status \cup {Absent}]
    /\ statusFile \in [Jobs -> Status \cup {Absent}]
    /\ waiting \subseteq Jobs
    /\ requeue \in Jobs \cup {Nothing}

\* Nobody gets a job run twice by retrying: a key launches its job once, and
\* once more at most for each time the server died before the answer was stored.
RetriesDoNotRerun == \A k \in Keys : launches[k] <= 1 + crashes

\* A job that was archived when a cleanup began, and stays archived, loses
\* neither its record nor its directory to it, whatever happens meanwhile.
ArchivedSurviveCleanup ==
    [][cleaner' # cleaner =>
         \A j \in settled \cap settled' :
             registry'[j] = registry[j] /\ statusFile'[j] = statusFile[j]]_vars

\* "Never remove active jobs" (ops_cleanup_jobs): the record a cleanup drops is
\* not that of a job that was handed to a worker after the cleanup looked.
ActiveSurviveCleanup ==
    [][\A j \in Known : (cleaner' # cleaner /\ registry'[j] = Absent)
          => StatusNow(j) \notin Active]_vars

\* "Durable submission identities; retained after job deletion to prevent
\* replay" (submission_store.py): a job that was launched and then removed is
\* not launched again by its key.
NoReplay ==
    [][\A k \in Keys : (launches[k] > 0 /\ records[k].job \notin Known /\ submit[k] = "recorded")
          => submit'[k] # "launched"]_vars
=============================================================================
