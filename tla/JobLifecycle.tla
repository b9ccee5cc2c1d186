---------------------------- MODULE JobLifecycle ----------------------------
(***************************************************************************)
(* The life of a job between the orchestrator, its queue and the workers:  *)
(* launch, claim, dispatch, worker reports, stop, requeue and the sweep    *)
(* for stale jobs (app/services/job_service.py), over either queue store   *)
(* (app/utils/job_utils.py for files, app/utils/sql_store.py for SQL).     *)
(*                                                                         *)
(* These are the operations that hold the state lock of the job while they *)
(* read and write it (_job_state_lock), so each is one action here.  A     *)
(* poll is the exception: it claims an entry before it takes the lock and, *)
(* with the SQL store, removes the entry after it has released it, so a    *)
(* poll is three actions and everything else can happen in between.        *)
(*                                                                         *)
(* Time is not a clock: a status ages (Age), a heartbeat lapses (Lapse)    *)
(* and a claim lapses (ExpireClaim) whenever they like.  Workers are not   *)
(* part of the repository: a worker that was handed an attempt may report  *)
(* any status for it, at any later moment and any number of times, which   *)
(* covers delayed, repeated and reordered reports.                         *)
(***************************************************************************)
EXTENDS JobStatus, Naturals, FiniteSets

CONSTANTS
    Jobs,             \* job identifiers
    Workers,          \* AVAILABLE_HOSTS
    None,             \* no worker / no host
    FencingWorkers,   \* workers that may poll with attempt_fencing_v1
    LegacyWorkers,    \* workers that may poll without it
    DurableHosts,     \* PERSISTENT_RECOVERY_WORKER_HOSTS
    Deucalion,        \* the worker whose slots the server limits
    Profile,          \* job -> "cpu" or "gpu", the slot it takes on Deucalion
    SlotLimit,        \* profile -> DEUCALION_MAX_ACTIVE_*_JOBS
    Runnable,         \* worker -> jobs whose image and hardware needs it meets
    LaunchHosts,      \* hosts (or None) a submission may name
    RequeueHosts,     \* hosts (or None) an operator may name in a requeue
    RequeueModes,     \* values of require_host in a requeue
    Forces,           \* values of force in a requeue
    AgentStatuses,    \* statuses workers report
    Losable,          \* jobs whose registered inputs may disappear
    Raising,          \* jobs whose dispatch may raise an exception
    SqlStore,         \* JOB_DATABASE_URL is set
    MaxReturns        \* bound: how often jobs go back to the queue

Profiles == {"cpu", "gpu"}
Hosts == Workers \cup {None}

ASSUME NoneIsNoWorker == None \notin Workers /\ None \notin Jobs
ASSUME WorkerKinds ==
    /\ FencingWorkers \subseteq Workers
    /\ LegacyWorkers \subseteq Workers
    /\ DurableHosts \subseteq Workers
ASSUME SlotTypes ==
    /\ Profile \in [Jobs -> Profiles]
    /\ SlotLimit \in [Profiles -> Nat]
    /\ Runnable \in [Workers -> SUBSET Jobs]
ASSUME RequestTypes ==
    /\ LaunchHosts \subseteq Hosts
    /\ RequeueHosts \subseteq Hosts
    /\ RequeueModes \subseteq {"keep", "require", "any"}
    /\ Forces \subseteq BOOLEAN
    /\ AgentStatuses \subseteq Status
    /\ Losable \subseteq Jobs
    /\ Raising \subseteq Jobs
    /\ SqlStore \in BOOLEAN
    /\ MaxReturns \in Nat

VARIABLES
    registry,    \* job_track.json / orchestrator_jobs: what is known of each job
    statusFile,  \* jobs/<id>/status.json: the authoritative status
    queue,       \* queue/<id>.json / orchestrator_queue
    poll,        \* the request each worker's poll is executing
    issued,      \* every attempt ever created for a worker
    grants,      \* how many attempts were created; the next token is fresh
    quiet,       \* the last status write is older than its TTL
    heartbeat,   \* host_heartbeats
    pending,     \* host with an unacknowledged .worker/union.json for the job
    lost,        \* jobs whose registered inputs no longer verify
    returns,     \* bounds the model: returns to the queue so far
    owner,       \* history: the attempt of the last dispatch, until revoked
    writer       \* history: the attempt whose report wrote the status

stores  == <<registry, statusFile, queue>>
worlds  == <<heartbeat, pending, lost>>
history == <<owner, writer>>
vars == <<registry, statusFile, queue, poll, issued, grants, quiet, heartbeat,
          pending, lost, returns, owner, writer>>

-----------------------------------------------------------------------------
(* Shapes of the data. *)

\* The fields of a registry record the control depends on.  token is the
\* attempt whose hash is in attempt_token_hash, 0 when the field is absent.
Record == [status : Status \cup {Absent}, target : Hosts, preferred : Hosts,
           require : BOOLEAN, attempt : Nat, fenced : BOOLEAN, token : Nat]

NoRecord == [status |-> Absent, target |-> None, preferred |-> None,
             require |-> FALSE, attempt |-> 0, fenced |-> FALSE, token |-> 0]

\* ahead: the jobs whose entries were enqueued earlier and are still there.
Entry == [job : Jobs, preferred : Hosts, require : BOOLEAN, claim : Hosts,
          ahead : SUBSET Jobs]

\* What a worker must echo: the number and, when it fences, the secret.
Attempt == [job : Jobs, worker : Workers, number : Nat \ {0}, token : Nat]

NoAttempt == [job |-> None, worker |-> None, number |-> 0, token |-> 0]

Idle == [pc |-> "idle", job |-> None, fencing |-> FALSE, reply |-> NoAttempt]

Poll == {Idle} \cup [pc : {"claimed", "done", "raised"}, job : Jobs,
                     fencing : BOOLEAN, reply : Attempt \cup {NoAttempt}]

Beat == [seen : {"never", "fresh", "old"}, active : SUBSET Jobs]

-----------------------------------------------------------------------------
(* The queue. *)

Waiting == {e.job : e \in queue}

\* Removing j's entry also takes it from in front of the others.
RemovedFrom(q, j) == {[e EXCEPT !.ahead = @ \ {j}] : e \in {f \in q : f.job # j}}

\* Mutant: the old entry is removed after the new one was added.
EnqueuedThenRemoved(q, j, preferred, require) == RemovedFrom(q, j)

\* Enqueueing replaces j's entry, drops any claim on it and puts it last.
EnqueuedIn(q, j, preferred, require) ==
    LET rest == RemovedFrom(q, j)
    IN  rest \cup {[job |-> j, preferred |-> preferred, require |-> require,
                    claim |-> None, ahead |-> {e.job : e \in rest}]}

-----------------------------------------------------------------------------
(* Writing a status. *)

\* Mutant: only the first dispatch starts an attempt.
WrittenFirstDispatch(m, prev, s) ==
    [m EXCEPT !.status  = s,
              !.attempt = IF s = DISPATCHED /\ @ = 0 THEN 1 ELSE @,
              !.token   = IF s = QUEUED /\ prev # QUEUED /\ m.fenced THEN 0 ELSE @]

\* Mutant: a return to the queue leaves the fence as it is.
WrittenUnrevoked(m, prev, s) ==
    [m EXCEPT !.status  = s,
              !.attempt = IF s = DISPATCHED /\ m.status # DISPATCHED THEN @ + 1 ELSE @]

\* The record m of a job once status s is written over the stored status prev:
\* a dispatch starts an attempt, a return to the queue revokes its fence.
Written(m, prev, s) ==
    [m EXCEPT !.status  = s,
              !.attempt = IF s = DISPATCHED /\ m.status # DISPATCHED THEN @ + 1 ELSE @,
              !.token   = IF s = QUEUED /\ prev # QUEUED /\ m.fenced THEN 0 ELSE @]

Exists(j) == registry[j].status # Absent

\* The status file decides; the registry only speaks for a job without one.
StatusNow(j) == IF statusFile[j] # Absent THEN statusFile[j] ELSE registry[j].status

\* The file is replaced, then the registry record m is saved with the status.
SaveStatus(j, m, s) ==
    /\ statusFile' = [statusFile EXCEPT ![j] = s]
    /\ registry' = [registry EXCEPT ![j] = Written(m, statusFile[j], s)]
    /\ quiet' = [quiet EXCEPT ![j] = FALSE]

\* The same, where the record that is saved is one of records.
SaveOneOf(j, s, records) ==
    /\ statusFile' = [statusFile EXCEPT ![j] = s]
    /\ \E m \in records : registry' = [registry EXCEPT ![j] = m]
    /\ quiet' = [quiet EXCEPT ![j] = FALSE]

\* History: the orchestrator itself, or attempt a, wrote the status of j.
ByOrchestrator(j) == writer' = [writer EXCEPT ![j] = NoAttempt]
Revoke(j) == owner' = [owner EXCEPT ![j] = NoAttempt]

-----------------------------------------------------------------------------
(* Submission with an idempotency key: the whole launch holds the lock.  A  *)
(* retry launches again only while the record still says launching.        *)

LaunchRecord(host) ==
    [NoRecord EXCEPT !.status = LAUNCHING, !.target = host, !.preferred = host,
                     !.require = (host # None)]

Launchable(j) ==
    /\ registry[j].status \in {Absent, LAUNCHING}
    /\ Writable(statusFile[j], LAUNCHING)

Launch(j) ==
    /\ Launchable(j)
    /\ \E host \in LaunchHosts :
         /\ SaveStatus(j, LaunchRecord(host), QUEUED)
         /\ queue' = EnqueuedIn(queue, j, host, host # None)
    /\ UNCHANGED <<poll, issued, grants, worlds, returns, history>>

-----------------------------------------------------------------------------
(* A worker polls for a job: claim, dispatch under the lock, clean up. *)

HostOf(m) == IF m.target # None THEN m.target ELSE m.preferred

DeucalionActive(profile) ==
    {j \in Jobs : /\ HostOf(registry[j]) = Deucalion
                  /\ registry[j].status \in Active
                  /\ StatusNow(j) \in Active
                  /\ Profile[j] = profile}

\* Mutant: off by one.
SlotFreeOneMore(profile) == Cardinality(DeucalionActive(profile)) <= SlotLimit[profile]

SlotFree(profile) == Cardinality(DeucalionActive(profile)) < SlotLimit[profile]

\* _can_dispatch_to_worker: w, polling with fencing or without, may take j.
CanDispatchTo(w, fencing, j) ==
    /\ registry[j].fenced => fencing
    /\ pending[j] \in {None, w}
    /\ j \in Runnable[w]
    /\ w = Deucalion => SlotFree(Profile[j])

Accepts(w, fencing, e) ==
    /\ e.claim = None
    /\ w = Deucalion => (e.preferred = w /\ e.require)
    /\ (e.preferred # None /\ e.require) => e.preferred = w
    /\ CanDispatchTo(w, fencing, e.job)

PollKinds(w) == (IF w \in FencingWorkers THEN {TRUE} ELSE {})
                \cup (IF w \in LegacyWorkers THEN {FALSE} ELSE {})

\* The oldest entry w accepts is popped (files) or marked as claimed (SQL).
Claim(w) ==
    /\ poll[w].pc = "idle"
    /\ \E fencing \in PollKinds(w), e \in queue :
         /\ Accepts(w, fencing, e)
         /\ \A f \in queue : f.job \in e.ahead => ~Accepts(w, fencing, f)
         /\ queue' = IF SqlStore THEN (queue \ {e}) \cup {[e EXCEPT !.claim = w]}
                     ELSE RemovedFrom(queue, e.job)
         /\ poll' = [poll EXCEPT ![w] = [pc |-> "claimed", job |-> e.job,
                                         fencing |-> fencing, reply |-> NoAttempt]]
    /\ UNCHANGED <<registry, statusFile, issued, grants, quiet, worlds, returns, history>>

\* With files nothing is left to do after the lock is released.
AfterDispatch(w, pc, reply) ==
    poll' = [poll EXCEPT ![w] = IF SqlStore THEN [@ EXCEPT !.pc = pc, !.reply = reply]
                                ELSE Idle]

\* The status a claimed job is moved to: inputs are verified before dispatch.
DispatchOutcome(j) == IF j \in lost THEN FAILED ELSE DISPATCHED

\* Mutant: anything that has not ended is dispatched.
DispatchableUnlessEnded(j) == Exists(j) /\ StatusNow(j) \notin Terminal

\* Mutant: a job that was dispatched before is taken for a stale entry.
DispatchableOnce(j) ==
    Exists(j) /\ StatusNow(j) \in {QUEUED, LAUNCHING} /\ registry[j].attempt = 0

\* Only a job that is still waiting is dispatched; a stale entry is dropped.
Dispatchable(j) == Exists(j) /\ StatusNow(j) \in {QUEUED, LAUNCHING}

SkipDispatch(w) ==
    /\ poll[w].pc = "claimed"
    /\ ~Dispatchable(poll[w].job)
    /\ AfterDispatch(w, "done", NoAttempt)
    /\ UNCHANGED <<stores, issued, grants, quiet, worlds, returns, history>>

\* An exception leaves the poll before the status is written: _write_status
\* refuses it, or a file cannot be read or written, no image is frozen for the
\* worker, the artifacts of the attempt cannot be prepared.  A popped entry is
\* not put back.
FailDispatch(w) ==
    LET j == poll[w].job IN
    /\ poll[w].pc = "claimed"
    /\ Dispatchable(j)
    /\ ~Writable(statusFile[j], DispatchOutcome(j)) \/ j \in Raising
    /\ AfterDispatch(w, "raised", NoAttempt)
    /\ UNCHANGED <<stores, issued, grants, quiet, worlds, returns, history>>

\* Mutant: the job keeps the host it had.
GrantedWhereItWas(m, w, fencing) ==
    [m EXCEPT !.fenced = @ \/ fencing,
              !.token  = IF fencing THEN grants + 1 ELSE @]

\* The record of a job handed to w; only a fencing poll touches the fence.
Granted(m, w, fencing) ==
    [m EXCEPT !.target = w,
              !.fenced = @ \/ fencing,
              !.token  = IF fencing THEN grants + 1 ELSE @]

\* The last write, of job_info.json, may raise as well; the worker then waits
\* in vain for an answer, as one that never reports.
Dispatch(w) ==
    LET j == poll[w].job
        fencing == poll[w].fencing
        a == [job |-> j, worker |-> w, number |-> registry[j].attempt + 1,
              token |-> IF fencing THEN grants + 1 ELSE 0]
    IN
    /\ poll[w].pc = "claimed"
    /\ Dispatchable(j)
    /\ DispatchOutcome(j) = DISPATCHED
    /\ Writable(statusFile[j], DISPATCHED)
    /\ SaveStatus(j, Granted(registry[j], w, fencing), DISPATCHED)
    /\ grants' = grants + 1
    /\ issued' = issued \cup {a}
    /\ owner' = [owner EXCEPT ![j] = a]
    /\ ByOrchestrator(j)
    /\ \/ AfterDispatch(w, "done", a)
       \/ j \in Raising /\ AfterDispatch(w, "raised", a)
    /\ UNCHANGED <<queue, worlds, returns>>

\* SQL, after the lock: remove_queue deletes the row of the job, whoever wrote it.
RemoveClaimed(w) ==
    /\ poll[w].pc = "done"
    /\ queue' = RemovedFrom(queue, poll[w].job)
    /\ poll' = [poll EXCEPT ![w] = Idle]
    /\ UNCHANGED <<registry, statusFile, issued, grants, quiet, worlds, returns, history>>

\* SQL, after an exception: release clears the claim.
ReleaseClaimed(w) ==
    /\ poll[w].pc = "raised"
    /\ queue' = {IF e.job = poll[w].job THEN [e EXCEPT !.claim = None] ELSE e : e \in queue}
    /\ poll' = [poll EXCEPT ![w] = Idle]
    /\ UNCHANGED <<registry, statusFile, issued, grants, quiet, worlds, returns, history>>

\* SQL: a claim older than QUEUE_CLAIM_TTL no longer protects the row.
ExpireClaim(e) ==
    /\ e.claim # None
    /\ queue' = (queue \ {e}) \cup {[e EXCEPT !.claim = None]}
    /\ UNCHANGED <<registry, statusFile, poll, issued, grants, quiet, worlds, returns, history>>

-----------------------------------------------------------------------------
(* A worker reports a status. *)

\* Mutant: the attempt number is checked, the token is not.
ValidatesNumber(m, a) == ~m.fenced \/ a.number = m.attempt

\* _validate_agent_attempt: does the report of attempt a pass the fence of m?
Validates(m, a) ==
    \/ ~m.fenced
    \/ /\ m.token # 0
       /\ a.token = m.token
       /\ a.number = m.attempt
       /\ a.worker = m.target

\* While a stop is requested, reports of activity only acknowledge it.
Reported(j, s) ==
    IF StatusNow(j) = STOP_REQUESTED /\ s \in Active THEN STOP_REQUESTED ELSE s

\* A report records the worker that sent it as the host of the job.
HeldBy(m, w) == [m EXCEPT !.target = w]

\* The number a report carries overwrites the one in the record.  Every worker
\* is told its number, but only reports on fenced jobs must name it, and only
\* there has it been compared.
ReportedRecords(m, prev, a, s) ==
    LET written == Written(HeldBy(m, a.worker), prev, s)
    IN  {[written EXCEPT !.attempt = a.number]} \cup (IF m.fenced THEN {} ELSE {written})

Report(a, status) ==
    LET j == a.job
        s == Reported(j, status)
    IN
    /\ \A w \in Workers : poll[w].reply # a
    /\ Exists(j)
    /\ Validates(registry[j], a)
    /\ Writable(statusFile[j], s)
    /\ SaveOneOf(j, s, ReportedRecords(registry[j], statusFile[j], a, s))
    /\ heartbeat' = [heartbeat EXCEPT ![a.worker].seen = "fresh"]
    /\ \/ /\ s # QUEUED
          /\ queue' = RemovedFrom(queue, j)
          /\ writer' = [writer EXCEPT ![j] = a]
          /\ UNCHANGED <<returns, owner>>
       \/ /\ s = QUEUED
          /\ returns < MaxReturns
          /\ returns' = returns + 1
          /\ ByOrchestrator(j)
          /\ Revoke(j)
          /\ UNCHANGED queue
    /\ UNCHANGED <<poll, issued, grants, pending, lost>>

-----------------------------------------------------------------------------
(* Operators: stop and requeue. *)

StopOutcome(s) ==
    CASE s \in {LAUNCHING, QUEUED} -> CANCELED
      [] s \in {DISPATCHED, SETUP, RUNNING, RECOVERING} -> STOP_REQUESTED
      [] OTHER -> s

\* A stop always takes the entry out of the queue; a job that is already
\* stopping or finished is otherwise left alone.
Stop(j) ==
    LET s == StopOutcome(StatusNow(j)) IN
    /\ Exists(j)
    /\ queue' = RemovedFrom(queue, j)
    /\ \/ /\ s # StatusNow(j)
          /\ SaveStatus(j, registry[j], s)
          /\ ByOrchestrator(j)
       \/ /\ s = StatusNow(j)
          /\ UNCHANGED <<statusFile, registry, quiet, writer>>
    /\ UNCHANGED <<poll, issued, grants, worlds, returns, owner>>

\* The record of a job sent back to the queue.
Returned(m, preferred, require) ==
    [m EXCEPT !.preferred = preferred,
              !.require   = require,
              !.target    = IF require THEN preferred ELSE None]

\* Without force only jobs that no worker is busy with, or merely dispatched
\* ones, may be requeued.
RequeueAllowed(s, force) ==
    force \/ s \notin {FINISHED, SETUP, RUNNING, RECOVERING, STOP_REQUESTED}

PreferredOf(m) == IF m.preferred # None THEN m.preferred ELSE m.target

\* Mutant: without a host the mode is stored in its place.
RequeueHostFromMode(m, host, mode) == IF host # None THEN host ELSE mode

RequeueHost(m, host, mode) ==
    CASE host # None -> host
      [] mode = "any" /\ host = None -> None
      [] OTHER -> PreferredOf(m)

RequeueRequire(m, mode) == IF mode = "keep" THEN m.require ELSE mode = "require"

\* Forced requeues, and requeues of ended jobs, skip the transition check.
RequeueAccepted(j, force) ==
    force \/ StatusNow(j) \in Terminal \/ Writable(statusFile[j], QUEUED)

\* The entry is replaced before the status is written: when the write is
\* refused the entry stays and the job keeps its status.
Requeue(j, force, host, mode) ==
    LET m == registry[j]
        preferred == RequeueHost(m, host, mode)
        require == RequeueRequire(m, mode)
    IN
    /\ Exists(j)
    /\ RequeueAllowed(StatusNow(j), force)
    /\ returns < MaxReturns
    /\ returns' = returns + 1
    /\ queue' = EnqueuedIn(queue, j, preferred, require)
    /\ \/ /\ RequeueAccepted(j, force)
          /\ SaveStatus(j, Returned(m, preferred, require), QUEUED)
          /\ ByOrchestrator(j)
          /\ Revoke(j)
       \/ /\ ~RequeueAccepted(j, force)
          /\ UNCHANGED <<statusFile, registry, quiet, history>>
    /\ UNCHANGED <<poll, issued, grants, worlds>>

-----------------------------------------------------------------------------
(* The sweep for stale jobs (every poll and report, and every 15 seconds). *)

\* The host's heartbeat is recent and names the job among its active ones.
Vouched(j) ==
    LET h == HostOf(registry[j])
    IN  h # None /\ heartbeat[h].seen = "fresh" /\ j \in heartbeat[h].active

HostOffline(j) ==
    LET h == registry[j].target
    IN  h # None /\ heartbeat[h].seen = "old"

\* Mutant: recovering jobs are swept like the others.
SweepableRecovering(j) ==
    /\ registry[j].status \in Active
    /\ StatusNow(j) \in Active
    /\ pending[j] = None

\* Mutant: stopping jobs are left to their worker as well.
SweepableUnlessStopping(j) ==
    /\ registry[j].status \in Active
    /\ StatusNow(j) \in Active \ {RECOVERING, STOP_REQUESTED}
    /\ pending[j] = None

\* Jobs the sweep looks at: recovering ones and ones whose durable execution
\* is not acknowledged are left to their worker.
Sweepable(j) ==
    /\ registry[j].status \in Active
    /\ StatusNow(j) \in Active \ {RECOVERING}
    /\ pending[j] = None

Stale(j) == Sweepable(j) /\ ((quiet[j] /\ ~Vouched(j)) \/ HostOffline(j))

\* A job that has not started goes back to the queue, pinned as it was or
\* else preferring the host it came from.
SweepRequeue(j) ==
    LET m == registry[j]
        preferred == PreferredOf(m)
    IN
    /\ Stale(j)
    /\ StatusNow(j) \in {DISPATCHED, SETUP}
    /\ returns < MaxReturns
    /\ returns' = returns + 1
    /\ queue' = EnqueuedIn(queue, j, preferred, m.require)
    /\ SaveStatus(j, Returned(m, preferred, m.require), QUEUED)
    /\ ByOrchestrator(j)
    /\ Revoke(j)
    /\ UNCHANGED <<poll, issued, grants, worlds>>

\* A job that runs, or was told to stop, has failed.
SweepFail(j) ==
    /\ Stale(j)
    /\ StatusNow(j) \notin {DISPATCHED, SETUP}
    /\ SaveStatus(j, registry[j], FAILED)
    /\ ByOrchestrator(j)
    /\ UNCHANGED <<queue, poll, issued, grants, worlds, returns, owner>>

-----------------------------------------------------------------------------
(* Time, and what workers do on their own. *)

Age(j) ==
    /\ statusFile[j] \in Active
    /\ ~quiet[j]
    /\ quiet' = [quiet EXCEPT ![j] = TRUE]
    /\ UNCHANGED <<stores, poll, issued, grants, worlds, returns, history>>

Lapse(w) ==
    /\ heartbeat[w].seen = "fresh"
    /\ heartbeat' = [heartbeat EXCEPT ![w].seen = "old"]
    /\ UNCHANGED <<stores, poll, issued, grants, quiet, pending, lost, returns, history>>

\* The attempts w has received.
ReceivedBy(w) == {a \in issued : a.worker = w /\ poll[w].reply # a}

\* record_host_heartbeat: w names some of the jobs it was handed as active.
Heartbeat(w) ==
    /\ \E active \in SUBSET {a.job : a \in ReceivedBy(w)} :
         heartbeat' = [heartbeat EXCEPT ![w] = [seen |-> "fresh", active |-> active]]
    /\ UNCHANGED <<stores, poll, issued, grants, quiet, pending, lost, returns, history>>

\* A durable worker writes .worker/union.json for an attempt it holds ...
Persist(a) ==
    /\ a.worker \in DurableHosts
    /\ a \in ReceivedBy(a.worker)
    /\ pending[a.job] = None
    /\ pending' = [pending EXCEPT ![a.job] = a.worker]
    /\ UNCHANGED <<stores, poll, issued, grants, quiet, heartbeat, lost, returns, history>>

\* ... and notes in it that its final status was acknowledged.
Acknowledge(j) ==
    /\ pending[j] # None
    /\ statusFile[j] \in Terminal
    /\ pending' = [pending EXCEPT ![j] = None]
    /\ UNCHANGED <<stores, poll, issued, grants, quiet, heartbeat, lost, returns, history>>

\* A registered input snapshot disappears from shared storage.
LoseInputs(j) ==
    /\ j \in Losable \ lost
    /\ lost' = lost \cup {j}
    /\ UNCHANGED <<stores, poll, issued, grants, quiet, heartbeat, pending, returns, history>>

-----------------------------------------------------------------------------
Init ==
    /\ registry = [j \in Jobs |-> NoRecord]
    /\ statusFile = [j \in Jobs |-> Absent]
    /\ queue = {}
    /\ poll = [w \in Workers |-> Idle]
    /\ issued = {}
    /\ grants = 0
    /\ quiet = [j \in Jobs |-> FALSE]
    /\ heartbeat = [w \in Workers |-> [seen |-> "never", active |-> {}]]
    /\ pending = [j \in Jobs |-> None]
    /\ lost = {}
    /\ returns = 0
    /\ owner = [j \in Jobs |-> NoAttempt]
    /\ writer = [j \in Jobs |-> NoAttempt]

PollStep(w) ==
    Claim(w) \/ SkipDispatch(w) \/ FailDispatch(w) \/ Dispatch(w)
    \/ RemoveClaimed(w) \/ ReleaseClaimed(w)

Sweep(j) == SweepRequeue(j) \/ SweepFail(j)

Operate(j) ==
    \/ Stop(j)
    \/ \E force \in Forces, host \in RequeueHosts, mode \in RequeueModes :
         Requeue(j, force, host, mode)

World ==
    \/ \E j \in Jobs : Age(j) \/ Acknowledge(j) \/ LoseInputs(j)
    \/ \E w \in Workers : Lapse(w) \/ Heartbeat(w)
    \/ \E a \in issued : Persist(a)
    \/ \E e \in queue : ExpireClaim(e)

Next ==
    \/ \E j \in Jobs : Launch(j) \/ Operate(j) \/ Sweep(j)
    \/ \E w \in Workers : PollStep(w)
    \/ \E a \in issued, s \in AgentStatuses : Report(a, s)
    \/ World

Spec == Init /\ [][Next]_vars

\* Workers keep polling and a request that started runs to its end; the
\* reconcile task sweeps for ever; time passes.  Nothing is assumed of what
\* operators do or of what workers report.
Fairness ==
    /\ \A w \in Workers : WF_vars(PollStep(w))
    /\ \A j \in Jobs : WF_vars(Sweep(j)) /\ WF_vars(Age(j))

FairSpec == Spec /\ Fairness

-----------------------------------------------------------------------------
(* Correctness. *)

\* The state of the orchestrator is always of the shapes described above.
TypeOK ==
    /\ registry \in [Jobs -> Record]
    /\ statusFile \in [Jobs -> Status \cup {Absent}]
    /\ queue \in SUBSET Entry
    /\ poll \in [Workers -> Poll]
    /\ issued \in SUBSET Attempt
    /\ grants \in Nat
    /\ quiet \in [Jobs -> BOOLEAN]
    /\ heartbeat \in [Workers -> Beat]
    /\ pending \in [Jobs -> Hosts]
    /\ lost \in SUBSET Jobs
    /\ returns \in Nat
    /\ owner \in [Jobs -> Attempt \cup {NoAttempt}]
    /\ writer \in [Jobs -> Attempt \cup {NoAttempt}]

\* Fencing: once a job is fenced, the only attempt whose reports pass
\* _validate_agent_attempt is the one of its last dispatch, and none does after
\* a requeue, a sweep or a hand-back until the next dispatch (worker_agent.md).
OnlyOwnerValidates ==
    \A j \in Jobs : registry[j].fenced =>
        \A a \in issued : (a.job = j /\ Validates(registry[j], a)) => a = owner[j]

\* Fencing, seen from the status: whatever reports were delayed, repeated or
\* reordered, the status of a fenced job was never written by a revoked attempt.
FencedWriter ==
    \A j \in Jobs : registry[j].fenced => writer[j] \in {NoAttempt, owner[j]}

\* No two attempts of a fenced job may report at the same time, even after a
\* requeue, dispatch or report that was cut short, or an operator's request that
\* saved an old copy of the record (_validate_agent_attempt).
OneValidAttempt ==
    \A j \in Jobs : registry[j].fenced =>
        \A a, b \in issued :
            (/\ a.job = j /\ Validates(registry[j], a)
             /\ b.job = j /\ Validates(registry[j], b)) => a = b

\* The attempt of the last dispatch is not locked out: until it is revoked its
\* reports pass the fence, whatever the orchestrator did to the record since.
\* An attempt without a token cannot pass the fence of a job that has one.
OwnerValidates ==
    \A j \in Jobs : (owner[j] # NoAttempt /\ (registry[j].fenced => owner[j].token # 0))
        => Validates(registry[j], owner[j])

\* Attempt numbers identify the attempts of workers that fence: no two of their
\* dispatches of a job share one, although late reports on a job that is not
\* fenced yet set the number back (artifact directories are named by it).
FencedNumbersDistinct ==
    \A a, b \in issued :
        (a.job = b.job /\ a.number = b.number /\ a.token # 0 /\ b.token # 0) => a = b

\* Not kept: the same for every attempt.  A late report on a job that is not
\* fenced lowers the number, and a later dispatch uses one again.
AttemptNumbersDistinct ==
    \A a, b \in issued : (a.job = b.job /\ a.number = b.number) => a = b

\* "Once a job has used attempt fencing, it ... is no longer eligible for
\* dispatch to a legacy worker" (worker_agent.md): no fenced job is owned by an
\* attempt that carries no token.
FencedNeverLegacy ==
    \A j \in Jobs : (registry[j].fenced /\ owner[j] # NoAttempt) => owner[j].token # 0

\* A queued job has an entry in the queue, or some poll has claimed it and has
\* yet to look at its status (agent_next_job).
Tracked(j) ==
    statusFile[j] = QUEUED =>
        \/ j \in Waiting
        \/ \E w \in Workers : poll[w].pc = "claimed" /\ poll[w].job = j

\* Not kept by the file store: no queued job is ever forgotten.
QueuedIsTracked == \A j \in Jobs : Tracked(j)

\* With the file store a queued job is forgotten in two ways only: an exception
\* during its dispatch, after its entry was popped, or a worker that hands it
\* back, for which no entry is written.  Polls of other workers, stale entries,
\* stops, requeues, sweeps and every other report leave it where a poll finds it.
ForgottenOnlyByError ==
    [][\A j \in Jobs : (Tracked(j) /\ ~Tracked(j)') =>
          \/ \E w \in Workers : poll[w].job = j /\ FailDispatch(w)
          \/ \E a \in issued : a.job = j /\ Report(a, QUEUED)]_vars

\* Never more jobs active on Deucalion than the slots of their profile, although
\* the slots are counted when a job is claimed and it takes its slot later.
DeucalionWithinSlots ==
    \A p \in Profiles : Cardinality(DeucalionActive(p)) <= SlotLimit[p]

\* An outcome stands: once a job is finished, failed, stopped or canceled, no
\* poll, late report, sweep, stop or repeated launch changes that, if no worker
\* reports "unknown" or "not_found", which may follow anything.  What does is
\* an operator's decision: a requeue, and, outside this module, a recovery
\* (UnionRecovery) and a forced ops_fail_job or ops_cancel_job (JobOps).
OutcomeStands ==
    [][(\/ \E w \in Workers : PollStep(w)
        \/ \E j \in Jobs : Launch(j) \/ Stop(j) \/ Sweep(j)
        \/ \E a \in issued, s \in AgentStatuses : Report(a, s))
       => \A j \in Jobs : statusFile[j] \in Terminal => statusFile'[j] = statusFile[j]]_vars

\* A requested stop is not undone by reports already on their way or by the
\* sweep: the job stays stop_requested until it has ended, unless an operator
\* forces it back into the queue.
StopIsKept ==
    [][\A j \in Jobs : statusFile[j] = STOP_REQUESTED =>
          \/ statusFile'[j] \in Terminal \cup {STOP_REQUESTED}
          \/ TRUE \in Forces /\ statusFile'[j] = QUEUED /\ owner'[j] = NoAttempt]_vars

\* A recovering job is left alone by the sweep: it leaves that status through a
\* report, an operator's stop, or an operator's forced requeue (jobs.md).  An
\* ops_fail_job or ops_cancel_job, which takes no force here, is in JobOps.
RecoveringIsPreserved ==
    [][\A j \in Jobs : (statusFile[j] = RECOVERING /\ statusFile'[j] # RECOVERING)
          => \/ writer'[j] # NoAttempt
             \/ statusFile'[j] = STOP_REQUESTED
             \/ statusFile'[j] = QUEUED /\ TRUE \in Forces]_vars

\* A job is moved to a worker only while it was waiting: it never becomes
\* dispatched from under a worker that already reports on it.
DispatchOnlyFromQueue ==
    [][\A j \in Jobs : (owner'[j] # owner[j] /\ owner'[j] # NoAttempt)
          => statusFile[j] = QUEUED /\ owner[j] = NoAttempt]_vars

\* A job that is queued is taken in the end, in whatever order others are
\* requeued, stopped or lost to an exception meanwhile; jobs whose inputs may
\* vanish or whose dispatch may raise are excepted.
SoundJobsAreTaken ==
    \A j \in Jobs \ (Losable \cup Raising) : (statusFile[j] = QUEUED) ~> (statusFile[j] # QUEUED)

WorkersGone == \A w \in Workers : heartbeat[w].seen # "fresh"

\* When the workers are gone for good, no job keeps running or stopping for
\* ever: the sweep ends it, by its status age or its host's heartbeat.
SilentJobsEnd ==
    <>[]WorkersGone =>
        \A j \in Jobs : (statusFile[j] \in {RUNNING, STOP_REQUESTED})
                            ~> (statusFile[j] \in Terminal \cup {QUEUED})

-----------------------------------------------------------------------------
(* Why fencing works: the inductive invariant behind OnlyOwnerValidates,    *)
(* FencedWriter and FencedNumbersDistinct.                                 *)

\* Every status write reaches the registry with the file, a live token is the
\* owner's, and a waiting job has none.
FenceOf(j) ==
    LET m == registry[j] IN
    /\ m.status = statusFile[j]
    /\ statusFile[j] # LAUNCHING
    /\ m.token <= grants
    /\ (~m.fenced \/ statusFile[j] = QUEUED) => m.token = 0
    /\ m.token # 0 => owner[j].token = m.token
    /\ owner[j] # NoAttempt => owner[j] \in issued /\ owner[j].job = j
    /\ m.fenced => writer[j] \in {NoAttempt, owner[j]}

\* The record remembers every attempt that carries a token: it fenced the job
\* for good, and from then on its number is never set back.
Recorded(a) ==
    /\ statusFile[a.job] # Absent
    /\ a.token <= grants
    /\ a.token # 0 => /\ registry[a.job].fenced
                      /\ a.number <= registry[a.job].attempt

TokensDistinct ==
    \A a, b \in issued : (a.token # 0 /\ a.token = b.token) => a = b

\* The record of a job and its attempts agree, in every state between two
\* locked operations (_write_status, _force_status, _dispatch_claimed_job).
FenceInv ==
    /\ \A j \in Jobs : FenceOf(j)
    /\ \A a \in issued : Recorded(a)
    /\ TokensDistinct
    /\ FencedNumbersDistinct

-----------------------------------------------------------------------------
(* JobLifecycle implements AttemptFencing: the live token of a job is the   *)
(* one its registry record holds the hash of.                              *)

liveToken == [j \in Jobs |-> registry[j].token]
lastAuthor == [j \in Jobs |-> writer[j].token]

Fencing == INSTANCE AttemptFencing
               WITH token <- liveToken, last <- grants, author <- lastAuthor

\* Every step of the orchestrator is a step of the fencing protocol or leaves
\* it alone (refinement).
ImplementsFencing == Fencing!FencingSpec
=============================================================================
