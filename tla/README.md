# Verification of the job orchestrator

TLA+ models of the job orchestrator (`app/`, a FastAPI server that queues
simulation jobs and hands them to polling workers), model-checked with TLC on
small instances, with theorems about them proved with TLAPS for every value of
the constants.

Line numbers below refer to `app/services/job_service.py` unless a file is named.

## 1. The system

A client submits a job; the orchestrator stores it, puts an entry in a queue and
hands it to a worker that polls for work. The worker reports statuses until the
job ends. Operators may stop, requeue, fail, cancel or delete jobs, and a
background task looks every few seconds for jobs whose worker fell silent. There
is no push to workers and no transaction over the stores: everything rests on the
order of a few writes, a lock per job, and a fence per attempt.

### Components

| Component | State | Operations | What makes it correct |
|---|---|---|---|
| Status vocabulary (`status.py`) | none | `can_transition` over `ALLOWED_TRANSITIONS` | an ended job stays ended |
| Job lifecycle (`job_service.py`) | registry record and `status.json` of each job, in-memory copies `jobs`, `host_heartbeats`, `worker_commands` | `launch_simulation`, `agent_next_job`, `agent_update_status`, `stop_job`, `ops_requeue_job`, `ops_fail_job`, `ops_cancel_job`, `ops_recover_job`, `delete_job`, `ops_cleanup_*` | no job forgotten in the queue, one valid attempt at a time, outcomes and stops stand |
| Attempt fencing | `attempt_number`, `attempt_token_hash`, `attempt_fencing_enabled` in the record | granted in `_dispatch_claimed_job`, checked in `_validate_agent_attempt`, revoked in `_invalidate_attempt_fence` | a superseded attempt never changes a job |
| Queue (`job_utils.py` files / `sql_store.py`) | one entry per job, claim files or claim columns | enqueue, claim the oldest acceptable entry, remove, release, claim expiry | every queued job can be claimed; one dispatch per entry |
| Sweep (`_mark_stale_jobs`, `main.py` reconcile task) | none of its own | requeue or fail a stale job | jobs of dead workers end, jobs of slow workers are not lost |
| Heartbeats and capacity | `host_heartbeats` | `record_host_heartbeat`, host listings | a job its worker vouches for is left alone |
| Deucalion slots | none (counts active jobs) | check at the claim | never more active jobs than slots |
| Unlocked operator actions | none of their own | `ops_fail_job`, `ops_cancel_job`, `ops_cleanup_queue`, `delete_job`, `ops_cleanup_jobs` | a stale copy never undoes what others wrote since |
| Union recovery and worker commands | `worker_commands` deque, `.worker/` files | `ops_recover_job`, command polls | a recovering job keeps its request and an attempt that may report |
| Idempotent submission (`submission_store.py`) | one record per client and key, kept for ever | `launch_simulation` with a key | one job per key, launched once |
| Artifact isolation (`attempt_artifacts.py`) | per-attempt directories, links, kept originals | `prepare` | a revoked writer reaches only its own directory; nothing is erased |
| Organization (`job_organization_service.py`) | folders; owner, folder and archive flag of a job | create, rename and delete folders; move, archive, restore | a job is only ever in a folder its owner has |
| Execution inputs and images, clients | content-addressed snapshots | register, verify | what was verified is what runs |
| Times and mails (`job_service.py`, `email_notification_service.py`) | the times of a record, the history of mails in the record and in `status.json` | every status write, requeue, listing; notify on a status of `JOB_EMAIL_NOTIFY_STATUSES` | the start shown is the current attempt's, durations fit together, no mail is missing |
| Store migration, database transfer | both stores | offline copy | nothing lost between stores |

`PROJECT.json` lists every component with its sources and what is modelled of it.

### How they interact

`agent_next_job` and `agent_update_status` first run the sweep, then do their own
work. A poll claims a queue entry, takes the job's state lock
(`_job_state_lock`), dispatches, releases the lock and only then (SQL) deletes the
entry. A status write replaces `status.json` first and saves the registry record
second (`_write_status`, `_force_status`). The file decides wherever both are
read; the registry decides which jobs the sweep and the Deucalion count look at.

### What is hard

* a poll is not atomic: a requeue, a stop or the sweep of the same job can fall
  between its claim, its dispatch and its removal of the entry;
* reports are delayed, repeated and reordered by the network and by workers that
  were given up on but are alive;
* a crash leaves a prefix of the writes of an operation;
* legacy workers without fencing share jobs with fencing ones;
* slots are counted at one moment and used at another;
* some operator actions hold no lock: they decide from what they read first and
  write step by step;
* clients retry, also after the server died half-way through their request;
* files are copied, moved and linked while others write them;
* `jobs` is one dictionary for all request threads: a refresh or a listing of one
  thread displaces the record another is working on;
* queue files are renamed by polls of several workers at once, and a killed server
  leaves claims nobody works on.

The hazards, each with its line and the properties aimed at it, are in
`PROJECT.json`.

## 2. Modules

| Module | What it is |
|---|---|
| `JobStatus` | `status.py`: the statuses, the transition table, `can_transition`, and the check `_write_status` makes of it |
| `JobLifecycle` | the lifecycle of jobs over either queue store: launch, poll, report, stop, requeue, sweep; their properties; the refinement mapping to `AttemptFencing` |
| `JobCrash` | `JobLifecycle` with an orchestrator that is killed between two writes and restarted, or whose record is displaced between them |
| `AttemptFencing` | the abstract fencing protocol: what fencing promises, without queue, statuses or time |
| `JobOps` | `JobLifecycle` with what holds no lock, step by step: `ops_fail_job`, `ops_cancel_job`, `ops_cleanup_queue`, the launch without a key, and listings |
| `UnionRecovery` | `JobLifecycle` with `ops_recover_job` step by step, its request file, the commands in memory, `union.json` of the worker, and restarts |
| `EntryQueue` | what a queue promises: an entry is current until it is replaced or taken, and taken at most once |
| `FileQueue` | the file store (`job_utils.py`) at the level of renames, reads and removals, with kills; implements `EntryQueue` |
| `JobTimes` | the times and the mails of one job, with a clock: what each write, repair and listing makes of them and what is shown of them |
| `JobIds` | the set of jobs, shared by the next three |
| `Organization` | folders and the placement of jobs |
| `Submission` | the submission records of keys and the steps of a keyed request |
| `Retention` | which jobs the orchestrator still has: `Submission` and `Organization` with launch, requeue, `delete_job`, `ops_cleanup_jobs` and crashes |
| `ArtifactIsolation` | `prepare` and the attempts that write while it moves and links |
| `InputRegistry` | the registration of execution inputs while their source changes |
| `MCJobLifecycle`, `MCJobCrash`, `MCJobOps`, `MCRetention`, `MCUnionRecovery` | constants for TLC |
| `JobLifecycleProofs`, `AttemptFencingProofs`, `FileQueueProofs`, `JobTimesProofs`, `RetentionProofs`, `ArtifactProofs`, `InputRegistryProofs` | the theorems about the module each is named for (`ArtifactProofs`: `ArtifactIsolation`) |
| `AttemptProofs` | the theorems about `JobCrash`, `JobOps` and `UnionRecovery` |

`JobCrash`, `JobOps` and `UnionRecovery` extend `JobLifecycle`, whose operators they
reuse. `JobLifecycle` instantiates `AttemptFencing`, `FileQueue` instantiates
`EntryQueue`. `Retention` extends `Organization` and
`Submission`: their actions say what a step does to their own variables, and
`Retention` adds what it does to the registry, the status files and the queue.
`ArtifactIsolation`, `InputRegistry`, `FileQueue` and `JobTimes` have constants a
configuration can write and are checked directly.

### State of `JobLifecycle`

| Variable | Code |
|---|---|
| `registry[j]` | the record in `job_track.json` / `orchestrator_jobs`, reduced to the fields decisions read: `status`, `target_host`, `preferred_host`, `require_host`, `attempt_number`, `attempt_fencing_enabled` (`fenced`), `attempt_token_hash` (`token`, 0 when absent) |
| `statusFile[j]` | the `status` in `jobs/<id>/status.json` |
| `queue` | `queue/<id>.json` or the rows of `orchestrator_queue`. `ahead` replaces `enqueued_at`: the jobs whose entries are older |
| `poll[w]` | where the poll of worker `w` is: idle, holding a claimed entry, after the dispatch (`done`), after an exception (`raised`); and the reply it will get |
| `issued`, `grants` | every attempt handed out; a fresh token for each |
| `quiet[j]` | the status is older than its TTL (`_status_stale_ttl`) |
| `heartbeat[w]` | `host_heartbeats`: never seen, fresh or older than its TTL, and the active jobs it names (its Slurm and Union lists folded into one) |
| `pending[j]` | the host with an unacknowledged `.worker/union.json` for the job |
| `lost` | jobs whose registered inputs no longer verify |
| `owner[j]`, `writer[j]` | history variables, read by properties only: the attempt of the last dispatch until it is revoked, and the attempt whose report wrote the status |

### Actions of `JobLifecycle`

| Action | Code |
|---|---|
| `Launch` | `_launch_simulation` under the lock of a keyed submission |
| `Claim`, then `Dispatch` / `SkipDispatch` / `FailDispatch`, then (SQL) `RemoveClaimed` / `ReleaseClaimed` | `agent_next_job` |
| `ExpireClaim` | a claim older than `QUEUE_CLAIM_TTL` |
| `Report` | `agent_update_status`, with the rule that activity reported after a stop only acknowledges it |
| `Stop`, `Requeue` | `_stop_job_locked`, `_ops_requeue_job_locked` |
| `SweepRequeue`, `SweepFail` | `_mark_stale_job_locked` |
| `Age`, `Lapse` | time: a status or a heartbeat passes its TTL |
| `Heartbeat`, `Persist`, `Acknowledge`, `LoseInputs` | what workers and storage do: not code of the repository, modelled from what the code reads of them |

An operation that holds the state lock of the job while it reads and writes is
one action; all the writes it makes are in it. A report or a poll also runs the
sweep first; the sweep takes one job's lock at a time and releases it in between,
so it is an action per job that may happen at any time.

### The other modules

`JobOps` has one `request`, the operator request in progress, with the copy of the
record it read. `ops_fail_job` and `ops_cancel_job` are `OpsRead`, `OpsCheck`,
`OpsDequeue`, `OpsPersist` (the copy is saved), `OpsWrite` (status file) and
`OpsSave`; `ops_cleanup_queue` is `PurgeRead` and `PurgeEntry` per entry. When the
late write is refused the request fails, but the copy stays saved: the registry
then says failed or canceled where the file has the outcome of the job.
A launch without a key is `LaunchBegin` (the record), `LaunchEnqueue` (the entry can
be taken from here on) and `LaunchPersist` (the status). A listing is `ListRead`,
which copies the record, and `ListRepair`: `list_jobs` sets the copy's status to
that of now and saves it if it then needs a repair.

`JobCrash` has two kinds of faults, counted by `faults`. A `Crash...` action is an
operation of which only a proper prefix of the writes is made, after which the server
restarts. A `Displaced...` action is an operation into which another thread's
`_refresh_jobs` falls (281-292): that loads the store, clears `jobs` and refills it, one
after the other, so the operation may read, change or save the record on disk, no
record, or an older one that a stalled refresh had loaded. `snapshot` is what the
stalled refresh has loaded (`LoadJobs`); the stores may change as often as they like
before it is used. The record read and the one saved are chosen independently, and any
part of the changes may go to the one that is gone (`Left`).

`UnionRecovery`: `run` is the worker's own file `.worker/union.json` (its attempt and
phase), which it writes when it likes; `requestFile` the request file, `requested` the
request named in `status.json`, `commands` the deque, and `recovery` the
`ops_recover_job` in progress: `RecoverBegin` (status and evidence), `RecoverRequest`
(the file), `RecoverStatus`, `RecoverCommand`. The request holds the state lock of its
job (`Locked`). `begun` is what the worker has begun, `ids` the request ids drawn, and
`accepted` is history. A restart empties the deque.

`FileQueue`: `file[j]` is the entry in `queue/<id>.json`, `claim[j][w]` the one in the
claim file of a worker; an entry is the number of the write that made it (`written`),
with `pin[n]` the host it is for, `partial` the entries still being written and `old`
those older than `QUEUE_CLAIM_TTL`. `poll[w]` is how far a poll is: it restores stale
claims, lists the directory, renames, reads, removes or puts back. Polls of one worker
exclude each other (`_dispatch_lock` is per worker, 356-367); polls of two do not.
`op[<<j, lane>>]` is the operation that writes or removes the entry of `j`. The lane
`"locked"` is whoever holds the state lock of the job: requeue, sweep, stop, report.
Every member of `Unlocked` is a request without it: a launch (3154), `ops_fail_job` and
`ops_cancel_job` (4010, 4044), `delete_job` (3599), `ops_cleanup_queue` (4098-4122, the
action `Purge`) and `ops_cleanup_jobs` (4166). `launched` keeps a job from being enqueued
before it was launched; `taken` and `due` are history: the entries handed out, and the
jobs whose entry was written and neither removed nor dispatched.

`JobTimes`: `rec` is the record reduced to its times, attempt number, requeues and
mails; `file` is `status.json`; `sending` is the mail an operation is sending under
the lock of the job; `listing` the copy a listing has read; `attempt` is what is
true of the attempt, whether or not it was reported. `Write` is `_write_status` and
`_force_status`: lifecycle, details, repair, in this order.

`Submission`: `records[k]` is the stored record of a key (parameters, job, whether
answered), `submit[k]` the request that holds its lock, `launched` and `launches` are
history. `Record` stores the intent, `RefuseDeleted`, `FindLaunched` and `LaunchFor`
are the three ways on, `Answer` stores the answer, `Abandon` ends requests without
one. `Organization`: `folders` and `placed`, one action per function, as each holds
the lock of the whole store.

`Retention`: `registry`, `statusFile` and `waiting` are the three places a job is
in. `delete_job` and `ops_cleanup_jobs` are an action per removal (`Delete...`,
`Cleanup...`), with `deletion` and `cleaner` saying how far they are. A requeue is
two actions, because these two do not take the lock it holds. `settled` is a
history variable: the jobs that were archived when the cleanup began and still are.

`ArtifactIsolation` is about one job. `view[a]` is what path `a` of the job is: missing,
its own, or a link to an attempt. `prepare` is `Begin`, `Copy`, `Move` and `Link` per
path, `Finish`, and `Fail` between any two; a `Fail` during the copy leaves `submitted`
`"partial"` or, if what is there does not parse, `"torn"`, on which every later
preparation ends with `Raise`. `Write` is an attempt that writes, through the path of
the job or in its own directory; `Claim`, `DispatchPlain`, `Skip` and `Requeue` are what
is left of the lifecycle.

`InputRegistry`: `source` is a client's directory, which changes at any time,
`datasets` what was published, `request` the registrations in progress with what
they have read. `register` is `Register` (lock, look for the name), `ReadFile` per
file, `Compare`, `ReadFile` again for the copy, `CompareCopy`, `Publish`, `Verify`.

### Abstractions

* Time is not a clock, except in `JobTimes`. Each timeout may pass whenever it can,
  so every order of a timeout and a late answer is covered. In `JobTimes` the worker
  and the server share a clock, several things may happen at one time, and a mail
  has the time of the write it is about.
* A worker may send any report for an attempt it received, at any later time and
  any number of times. That is the network as well: delay, repetition, order and
  loss. Every worker is told its attempt number (4333) and may report it; a report on a
  job that is not fenced yet is not compared (1458-1459), and the number it carries
  replaces the one in the record (1525). A report with no number leaves it. A worker
  that reports a number it was never given is left out.
* In `JobLifecycle` a file claim (rename, read, unlink) is one atomic pop; `FileQueue`
  takes it apart and shows that it is one as far as entries are concerned. One poll
  per worker runs at a time, because `_dispatch_lock` (and the advisory lock), of which
  there is one for each worker, serialises them. A queue entry in `FileQueue` is its
  number: the content of an entry decides only which worker may take it. `os.remove` may
  raise there when a poll renamed the file; the operation fails and the entry is the
  poll's.
* The slot count and the eligibility of an entry are read in the same action as the
  claim. Only polls of `deucalion` read the slots and take them for new jobs, and its
  dispatch lock keeps those apart; a dispatch holds that lock of its worker and the state
  lock of its job, so reports, requeues and sweeps come between claim and dispatch.
* An exception during a dispatch is `FailDispatch` before the status is written and
  a `Dispatch` that ends `raised` after it. Besides a refused status write, which is
  modelled, files that cannot be read or written (4304, 4394, 4403-4423), a missing frozen
  image (4325) and a failure of `prepare` (4358) raise: the jobs this may happen to are
  `Raising`.
* Two requests that write the file of one queue entry at the same moment are left out of
  `FileQueue`: what the file then holds depends on how the writes interleave.
* Image digests, pinned images, GPU and CPU needs and artifact capabilities are
  `Runnable[w]`, the jobs a worker can take. A missing configuration, like a lost
  input, makes the dispatch write `failed`; both are `lost`.
* In `JobLifecycle` the record an operation read stays in the shared `jobs`
  dictionary until it is saved. Where another thread's `_refresh_jobs` breaks this,
  `JobCrash` has the displaced operations, and where a listing does, `JobOps` and
  `JobTimes`. Launches, which save a record of their own, and the count of the slots are
  not displaced, nor is the mail history in `JobTimes`: a stalled refresh during the
  sending of a mail loses mails as a listing does.
* `JobTimes` has one job whose reports pass the fence. Progress files and the
  estimated end are not part of it.
* `Retention` keeps of the life of a job only queued, dispatched and finished, since
  deletion and cleanup tell apart no more than waiting, active and ended. It has
  one worker request, one requeue, one deletion and one cleanup at a time.
* `launch_simulation`, `delete_job` and the organization endpoints are `async` and
  await nothing before they return: the event loop runs them one at a time
  (`LoopFree`). The `ops` and agent endpoints are plain functions, which FastAPI
  runs in threads, so they come between any two steps of the others.
* A digest is the content it is the digest of: no collisions.
* `prepare` moves and links each path in one step (`os.replace`). A link to a file
  that does not exist yet is a link.
* A definition with the comment `Mutant:` is a plausible wrong version of the
  definition that follows it. No behaviour uses it: it is there to test that the
  properties notice that error (`mutants` in `PROJECT.json`).

## 3. What TLC checks

| Run | Instance | Question |
|---|---|---|
| `files` | 1 job, 2 workers, one of which fences always and one sometimes, one durable, files, dispatches that may raise, jobs handed back, 2 returns | Does only the last dispatch of a fenced job report, is it never locked out, do attempts with tokens get distinct numbers? Is a queued job forgotten otherwise than by a dispatch that raised or a hand-back? Do outcomes and recovery stand? Does the model implement `AttemptFencing`? |
| `sql_deucalion` | 2 jobs, Deucalion with one slot and another worker, SQL, claim expiry, lost inputs | Is the slot limit kept, is a job dispatched only from the queue? |
| `liveness` | 2 jobs, 1 worker, fairness | Is a queued job taken, and does a job of a silent worker end? |
| `crash_sql` | 1 job, 2 workers, SQL, one fault (a kill, or a refresh with records of now or of any time before), 1 return | May two attempts ever report, is a stop ever undone, after a fault between any two writes? |
| `ops` | 1 job, 2 interchangeable workers, files, 1 return, requests with and without force, launches without a key, listings | Can a stale copy give two attempts the right to report, or replace an outcome unasked? |
| `retention` | 1 key, 2 identifiers, 2 owners, 2 folders, 2 names, SQL, 1 crash, 1 requeue | Does a key launch one job, and again only when an answer was lost? Do archived jobs survive a cleanup, and is a job ever in a folder that is gone or another's? |
| `artifacts` | 3 paths, two of which a launch leaves, 3 attempts, 2 failures, workers that isolate and that do not | Is anything erased, does a retry of `prepare` meet a path in its way, is the view current? |
| `union` | 1 job, 2 workers, of which one recovers, two requests, one crash, 1 return | Does a recovery request outlive a restart, does a command follow the status it is about, may the attempt of a recovering job still report, is an outcome reopened but on purpose? |
| `file_queue` | 1 job, 2 workers, a lane with the lock and one without, 2 entries, 1 kill, fairness | Is an entry taken twice or after it was replaced, does anything but a kill lose one, does an orphaned claim come back? |
| `times` | 1 job, 3 units of time, 1 return, a history of 2, mails about queued and running | Is a start shown that is of another attempt, do durations fit together, is a mail missing from the history? |
| `inputs` | 1 client, 2 registrations, 2 files of 2 values, any changes | Does what is published have its digest, and is it published once? |

The properties are defined, each with its meaning, at the end of the module they
are about.

### Bounds

`MaxReturns` bounds how often jobs go back to the queue (requeue, sweep and
hand-back together), `MaxFaults` how often a save is displaced or the server killed
(`MaxCrashes`, `MaxKills` in the other modules). Everything else
is finite without a bound: tokens and attempt numbers grow with dispatches, and
each dispatch needs a return. One job is enough for the fence, as no action reads
the fence of another job; the two-job runs are the ones where jobs meet: in the
order of the queue and in the slots. Two workers give a superseded attempt on the
same and on another worker than its successor. Two returns give three attempts,
so that an attempt two generations old may report; one crash suffices for each
cut-short operation to be followed by every other operation. The records a stalled
refresh has loaded may be of any time before the fault. In `crash_sql`
one return is enough for three attempts, since a crash causes dispatches of its
own; `ops` has two attempts, the one whose record the request copied and the next.

Requests of different keys share nothing but identifiers, and each job's fate in a
deletion or a cleanup depends on no other job, so `retention` has one key; the second
identifier shows whether another one is drawn. Requests with other parameters are
refused by one comparison, so one set of parameters is enough. Two folders, two names
and two owners give every clash of names and every wrong owner. In `artifacts` one path
is missing at first and two are the job's own, so that one move may be done and one not;
three attempts and two failures give a failed retry. In `inputs` a mix of two contents
needs two files of two values. In `file_queue` two entries are an old one and the one
that replaces it, and two polls are enough for one to restore what the other is looking
at; jobs share nothing but the directory. Its entries are for any worker: a poll refuses
those it finds incomplete, and a poll that refuses one for another host takes the same
steps. Requests without the lock remove, requests with it write: a removal with the lock
takes the same steps, at fewer moments. `Pins`, `Removers` and `Unlocked` are any sets
in the theorems. In `times` one return gives two attempts, three units of time tell
before, at and after apart, and a history of two is exceeded by the mails of two
attempts. Symmetry (`Permutations`) is used where the permuted values are not named by
the configuration, and only with safety properties. Deadlock is not checked in any run:
with the bounds reached, ended jobs and silent workers, a model may stop, and so may the
system.

### Fairness

Only `liveness` and `file_queue` use it. In `liveness`, `WF(PollStep(w))`: workers poll for
ever, and a request in progress runs to its end. `WF(Sweep(j))`: the reconcile
task of `main.py` (lines 16-30) calls the sweep in an endless loop, and catches its
exceptions. `WF(Age(j))`: time passes. Nothing is assumed of operators, heartbeats
or reports. In particular no worker has to report, so the run shows what the
server does on its own. Weak fairness is enough, because only the poller itself
removes a waiting entry, except for a stop or a requeue, which the property allows.

In `file_queue`, every poll is repeated for ever and runs to its end (`WF` of its
steps and of `Kill`'s aftermath, the aging of claims), since workers poll in a loop
and the code has no step that waits. `EntriesAreTaken` speaks of behaviours in which
from some time on at most one poll is in progress (`<>[]Alone`): two pollers may
hinder each other for ever, each restoring or renaming what the other has listed,
and no fairness the code has excludes it. A job whose entry is there and due is then
taken or its entry removed, unless a kill lost the entry or left a torn one; operations
and kills go on meanwhile, as far as the bounds allow.

### Violations found

This run checks one property that documentation states of the program and that the
code does not keep; the counterexample is what the code does.

| Run | What happens |
|---|---|
| `ops_revival` | `ops_fail_job` reads the record, the sweep requeues the job and revokes its token, and `ops_fail_job` saves the copy with the token (4013). The superseded attempt passes the fence again. |

While modelling, TLC found more statements of this kind. They are defined in the
modules next to the other properties, but no run of the project checks them; the
last column says which configuration shows the counterexample when the property is
added to it.

| Property | What happens | Shown by |
|---|---|---|
| `QueuedIsTracked` over SQL | A poll deletes the entry by job id after it has released the lock (4259). A requeue in between has added a new entry, which is lost: the job is queued and no worker will get it. | `sql_deucalion` |
| `QueuedIsTracked` over files | An exception of a dispatch (refused status write, corrupt `job_info.json`, no frozen image, a failure of `prepare`) finds the entry popped, and nothing puts it back (4262-4265). | `files` with `AgentStatuses` without `"queued"` |
| `QueuedAtRestIsTracked` | A launch without a key puts its entry into the queue before the status says queued (3160). A poll takes the entry and has its dispatch refused, as `launching` may not become `dispatched`; the launch then writes `queued`, and the job has no entry. | `ops` |
| `SoundJobsAreTaken` | The inputs of a queued job disappear. The dispatch tries to write `failed` over `queued`, which the transition table refuses, and the poll ends with 500. With SQL the claim is released and the entry is first again: jobs behind it wait for ever. With files the popped entry is gone and the job stays queued without one. | `liveness` with the first job in `Losable` and `SqlStore = TRUE` |
| `ListingKeepsFence`, `OnlyOwnerValidates` | A listing has copied the record of an ended job, the job is requeued, and the listing repairs the copy and saves it (3445): the revoked token is back. | `ops` with `Forces = {TRUE}` or without operator requests |
| `OwnerValidates`, `OnlyOwnerValidates` | Another thread's `_refresh_jobs` replaces the record during a dispatch, which saves the old one: the attempt it hands out is locked out. During a requeue the same keeps the revoked token. | `crash_sql` |
| `FencedWriter` under faults | A refresh that stalled after it had loaded the store puts a record of an earlier attempt back between the lookup of a report (4438) and its check (4446): the revoked attempt passes the fence and writes the status, although another owns the job. With two faults records on disk suffice: a displaced requeue keeps the revoked token, and a displaced dispatch does not store the new one. | `crash_sql` |
| `RecordOfAttempt` | A listing that read the record before a dispatch saves it after: the attempt number and the times of the dispatch are gone. | `times` |
| `HistoryKept` without `~displaced` | A listing saves an old record while a mail is sent; the history is then read from it (1402), and the mails in between are lost. A stalled `_refresh_jobs` (284-287) does the same and is not modelled. | `times` |
| `RecoversOwnRun` | `union.json` is not tied to an attempt: the evidence of success of an attempt that was requeued makes the next one recoverable, and what is recovered is the other's result. | `union` |
| `NothingTorn` | A queue entry is written in place (228). After a kill before it is complete the file stays, cannot be read, and is neither taken nor removed. | `file_queue` |
| `NothingLost` | A kill loses what is in hand: the entry a poll has removed (`job_utils.py` 300) before the dispatch wrote the status, and the one a requeue has removed before it wrote another (3956). The job stays queued, and nothing enqueues it again. | `file_queue` |
| `NewestIsTaken` | A poll still looking at an old entry puts it back over, or commits it beside, a newer one that a requeue wrote (246). The job is dispatched for the host it was requeued from. | `file_queue` |
| `FencedNeverLegacy` | A legacy worker claims a job that is not fenced yet. While its poll waits, the entry is enqueued again, a fencing worker is given the job, and it is requeued. The poll goes on, finds the job queued, and dispatches a fenced job to a legacy worker, whose reports are then all refused with 409. The capability is checked at the claim only (1933). | `files` |
| `QueuedIsTracked` with hand-backs | A worker reports `queued` for a dispatched job. This is accepted (4465), but nothing enqueues the job. | `files` with `Raising = {}` |
| `DeucalionWithinSlots` | A late report of an unfenced attempt moves a job that went back to the queue onto Deucalion again, next to the job that took its slot. | `sql_deucalion` with files, both workers in `LegacyWorkers` only, forced requeues and `"running"` reports |
| `DispatchedIsSwept` | A crash between the two writes of a dispatch leaves `dispatched` in the file and `queued` in the registry. The sweep selects by the registry and never sees the job. | `crash_sql` |
| `AttemptNumbersDistinct` | A late report on a job that is not fenced yet is accepted with the number it carries, which replaces the one in the record (1525); the dispatches after it hand out numbers again that were in use. For attempts with a token this does not happen (`FencedNumbersDistinct`), as the first of them fences the job. | `files` |
| `FencedNumbersDistinct` under faults | A refresh during a dispatch, or a crash between its two writes or those of a requeue, leaves the record with a status or a number of before. The dispatch after it reads the old number and hands it out again. | `crash_sql` |
| `PurgeSparesQueued` | `ops_cleanup_queue` finds the entry of an ended job; the job is requeued; the new entry is removed (4121) and the job stays queued for ever. The removals without a lock by `ops_fail_job`, `ops_cancel_job`, `delete_job` and `ops_cleanup_jobs` may fall between the two halves of a requeue in the same way. | `ops` with `MaxReturns = 2` |
| `NoReplay` | The server dies between a launch and the write of its answer; the job is worked on, ends and is deleted. The retry of the key finds a record without an answer and launches the job a second time (3017). | `retention` |
| `ActiveSurviveCleanup` | A queued job is chosen for removal; a poll dispatches it; its directory and record are removed while its worker runs it (4164). | `retention` |
| `OwnDirectoryOnly` | A worker that cannot isolate claims the entry of a job that is not isolated yet. The job is requeued and isolated by another worker's dispatch, and requeued again; the first poll goes on, is handed the job and writes through the links into the isolated attempt's directory (1929). | `artifacts` |
| `ConfigIsWhole` | The server is killed while it copies `config.submitted.yaml`; later attempts find that the file exists and are given the part. | `artifacts` |
| `RetryPossible` | The same, where the part is no YAML or empty: the copy is skipped because the file exists, loading it raises, and so does every later `prepare` of the job (`attempt_artifacts.py` 25-29). | `artifacts` |

`SqlStore`, the kinds of workers and the statuses they report explain why a
property can hold in one run and fail in another: `DeucalionWithinSlots` holds when all
workers fence. What remains of `QueuedIsTracked` over files is `ForgottenOnlyByError`,
and of `NothingLost`, `OnlyKillsLose`: the two say which steps lose an entry, and that
no other does.

## 4. What is proved

Every invariant and action property that a run checks is also the statement of a
theorem, for every value of the constants; what stays with TLC is listed at the end.

### Assumptions

| Theorems about | hold for any | from |
|---|---|---|
| `JobLifecycle!Spec`, `JobCrash!CrashSpec`, `JobOps!OpsSpec`, `UnionRecovery!RecoverySpec` | jobs, workers, profiles, limits, bounds, request values | `NoneIsNoWorker`, `WorkerKinds`, `SlotTypes`, `RequestTypes` and the like, in the modules |
| `FileQueue!Spec` | jobs, workers, pins, entries, kills | the assumptions of `FileQueue` |
| `JobTimes!Spec` | statuses reported and notified of, history limits, clocks, returns | `StatusSets`, `Limits` |
| `Retention!Spec` | keys, jobs, owners, folders, crashes, requeues | `AbsentIsNoJob`, `NothingIsNothing`, `RetentionConstants` |
| `ArtifactIsolation!Spec` | artifacts, attempts, failures | `ArtifactConstants` |
| `InputRegistry!Spec` | clients, files, values, registrations | `MissingIsNoTree` |

Three conditions on constants are hypotheses of the theorems that need them. Without
them TLC finds counterexamples, but for `AllFence` in `RecoveringReports` and
`OutcomesReopenedOnPurpose`, whose proofs rest on it and to which it found none on the
instances tried:

* `~SqlStore`: the file store, for `QueuedJobsTracked`. With SQL a poll deletes the entry
  of a job after it has released the lock.
* `DefiniteReports`: no worker reports `unknown` or `not_found`. The table lets these
  follow and precede anything, so an ended job could run again.
* `AllFence`: every worker fences its attempts (`LegacyWorkers = {}`). A late report of
  an unfenced attempt may move a job to a host with no slot; for a recovering job, the
  condition ties the record to the token of its owner.

### Theorems

| Theorem | Establishes |
|---|---|
| `TypeCorrect` | `[]TypeOK` |
| `FenceInvariant` | `[]FenceInv`, the inductive invariant of fencing |
| `OnlyOwners`, `NoRevokedWriter`, `NumbersDistinct` | `[]OnlyOwnerValidates`, `[]FencedWriter`, `[]FencedNumbersDistinct` |
| `OwnersAdmitted` | `[]OwnerValidates`: the fence keeps out no one it should let in |
| `FencingImplemented` | `Spec => Fencing!FencingSpec`: every step is a step of `AttemptFencing` or a stutter |
| `LiveAuthors`, `NoRevival` | what `AttemptFencing` promises of its own |
| `QueuedJobsTracked` | `ForgottenOnlyByError` with the file store |
| `OutcomesStand`, `StopsStand` | `OutcomeStands` and `StopIsKept` under `DefiniteReports` |
| `RecoveringKept`, `DispatchesFromQueue` | `RecoveringIsPreserved` and `DispatchOnlyFromQueue` |
| `SlotsSuffice` | `[]DeucalionWithinSlots` under `AllFence` |
| `OneAttemptDespiteFaults`, `OneAttemptDespiteCopies` | `CrashSpec => []OneValidAttempt` and `OpsSpec => []OneValidAttempt` |
| `FaultsKeepTypes`, `OpsKeepTypes` | `CrashSpec => []CrashTypeOK` and `OpsSpec => []OpsTypeOK` |
| `StopsStandDespiteFaults` | `CrashSpec => StopIsKept` under `DefiniteReports` |
| `OutcomesNeedForce` | `OpsSpec => OutcomeNeedsForce` under `DefiniteReports` |
| `RequestsSurvive`, `CommandsFollow` | `RecoverySpec => []RequestSurvives` and `[]CommandsFollowStatus` |
| `RecoveringReports` | `RecoverySpec => []RecoveringCanReport` under `AllFence` |
| `OutcomesReopenedOnPurpose` | `RecoverySpec => ReopenedOnPurpose` under `AllFence` and `DefiniteReports` |
| `QueueTypes`, `LostByKillsOnly` | `[]QueueTypeOK` and `OnlyKillsLose` of `FileQueue` |
| `FilesAreAQueue` | `Spec => ImplementsEntryQueue`: every rename, read and removal of the file store is a step of `EntryQueue` or a stutter |
| `TimesTypes`, `StartsInAttempt`, `DurationsAdd`, `HistoryStands` | `[]TimesTypeOK`, `[]StartInAttempt`, `[]DurationsAddUp`, `[]HistoryKept` |
| `Preserved`, `NeverInTheWay`, `ShowsCurrent` | `[]NothingErased`, `[]NothingInTheWay`, `[]ViewIsCurrent` |
| `InputsMatch`, `InputsRenamedOnce` | `[]PublishedMatches` and `[]RenamedOnce` |
| `RetentionTypes` | `[]RetentionTypeOK` |
| `OneJobEach`, `RerunsPaid` | `[]OneJobPerKey` and `[]RetriesDoNotRerun` |
| `FilingKept`, `NamesKept` | `[]FiledInOwnFolder` and `[]FolderNamesDistinct` |
| `ArchivedKept` | `ArchivedSurviveCleanup` |

### The arguments

**Fencing.** `OnlyOwnerValidates` is not inductive: that the token in a record is the
owner's says nothing about older attempts, which might carry the same token or number.
`FenceInv` adds what rules that out. Per job (`FenceOf`): the registry and the file
agree between operations; a live token is the owner's; a job that waits has none;
tokens do not exceed `grants`. Per attempt (`Recorded`): its token does not exceed
`grants`, and if it has one, the job is fenced for good and the record has reached its
number. And no two attempts share a token, and no two with tokens a number. Of the
attempts without a token nothing can be said: their reports set the number back
(`ReportedRecords`). Each action is one step of the proof, and inside it the
parts it can disturb: a dispatch uses the bounds (a fresh token and number), the
returns to the queue use that they clear the token, and a report uses the check it
passed. The two action properties and the refinement follow from the same
invariant. `OwnerValidates` is the converse, and needs `OwnerInv`: number, token and
host in the record stay those of the owner, whichever of the many writes comes
between. `ForgottenOnlyByError` is about steps: with files, each step but the two it names
leaves a job that was tracked tracked (`TrackStep`), given `FenceInv` and that a poll ends
with its dispatch (`PollsEnd`). `OutcomesStand` and `StopsStand` rest on a table lemma
about `can_transition`. `RecoveringIsPreserved` follows from `FenceInv` alone, and
`DispatchOnlyFromQueue` from `QueuedIsFree`, that a job that waits has no owner.

**Slots.** Behind `DeucalionWithinSlots` is `SlotInv`: while a poll of Deucalion holds a
claimed entry there is still room for its job. The check is at the claim and the
dispatch comes later; what keeps the room is that only one poll of Deucalion runs at
a time and that with `AllFence` no report moves a job onto it.

**Faults and copies.** Of `FenceInv` nothing survives a fault or an old copy but the
tokens: `TokenInv` says that no token is granted twice, and that is all
`OneValidAttempt` needs, whatever record has been saved. `StopIsKept` and
`OutcomeNeedsForce` are about steps, so the types and the table suffice, but for
every write that a kill may cut off and every step of an operator's request.

**Recovery.** Request numbers only grow, so `RequestInv` and `ProgressInv` compare the
numbers on disk, in the command queue and in the record, and say how far the request
in progress is. `RecoveringCanReport` cannot use `FenceInv`: a kill removes replies that
were never delivered from `issued`, and the owner of a job need not be an attempt
anybody has. `FencesInv` therefore takes the record for the witness: token, number and
host in it are the owner's, and only a job that waits, or was canceled, has none.
`ReopenedOnPurpose` needs that the job of a request in progress is still failed or
recovering when the status is written
(`RecoverableInv`), which is what the state lock is held for.

**The file queue.** `Distinct` says that no entry is in two files. What a poll does is then
judged by what it holds (`Knows`): an entry it has read is the one in its claim file
or is nowhere. `ImplementsEntryQueue` maps the entries in files, and not yet handed
out, to `live`; restoring a claim or renaming a file leaves that set alone or, if
another file is replaced, drops an entry, and only the successful removal of a claim
is a `Take`. `OnlyKillsLose` is about steps, so the same invariant (`QueueInv`) is enough:
a step of an operation or a poll that empties the places of a job either has its entry in
hand afterwards or was to remove it (`OpKeeps`, `PollKeeps`), and a kill takes only
what was in hand (`StepLoses`).

**Times.** A listing may save a record it read long before, so whatever is to hold of the
record must hold of the copy (`Sound`, `Fits`), for the status of then and of now.
`Fits` is about records with the number of the attempt at work: their start is not
from before its dispatch and, once it runs, no later than the first running report.
A copy from before the dispatch has a smaller number, and that is what makes the old
starts in it harmless. A start repaired from the mails is bounded by `Dated`: a mail
that says running is no later than that report. `DurationsAddUp` then is arithmetic.
`HistoryKept` needs `Mailed`, what the two stores hold while a mail is on its way, and
that cutting the history before a mail is added changes nothing (`LastOfAppend`).

**Artifacts.** Between the first dispatch and the end of its preparation nobody writes
(`Negotiated`), so no path that was moved aside can come back as the job's own; that
is `NothingInTheWay`. `Progress` says which paths are linked already, and with it the view
is of one attempt until the next preparation links its first path.

**Inputs.** `PublishedMatches` and `RenamedOnce` need each other's causes: that what is
renamed was compared (`ComparedFirst`), and that no two registrations in progress have
the same name (`NamesLocked`), for otherwise one could publish while the other is
between its look and its rename. `RegistryInv` is their conjunction with the types;
each step of `register` is a step of the proof.

**Submissions and cleanup.** `OneJobPerKey` and `RetriesDoNotRerun` follow from
`Submitted`. Per key (`KeyInv`): what
it has launched is the job its record names; a key that was served (its request has
launched, or its record is answered) has a job that is not launching, so no request
for it launches again as long as the job is known; and the launches are at most the
crashes, and one more once served. That no two records name the same job is what
keeps one key's launch from disturbing another key's. `FiledInOwnFolder` needs that
the owner in an entry is the submitter of the job (`Organized`), which is what
`_require_job_organization_owner` is for: `setdefault` and the assignment of the owner
would otherwise leave a job of one owner in the folder of another. `ArchivedSurviveCleanup`
needs that the list of what is to be removed and the list of what to keep stay
disjoint while the cleanup works on them, and that both were made after the archived
jobs were read (`Spares`).

### Only model-checked

* `SoundJobsAreTaken`, `SilentJobsEnd` and `EntriesAreTaken`: liveness under fairness is
  out of reach of TLAPS.
No module uses recursion. The least start among the mails exists because the natural
numbers are well-founded (`LeastOf`), not by induction of our own.

## 5. Not modelled, and the plan

Left out for good: HTTP routing and validation, formatting of results, logs and
estimates, file downloads, the delivery of email, configuration parsing. They
change no state that decisions depend on.

Also left out: `job_info.json`, a copy for the user interface; progress files, the
estimated end and the start estimates of queued jobs, which are shown and never
decide; the choice of image, profile and walltime at a launch; the registry of
execution clients; image pins, a lookup in a remote registry; and the offline tools
that copy a stopped service's stores.

Possible next: the start estimates (`_queued_start_estimates`) against the slots of
`JobLifecycle`; the following of logs; the walltime arithmetic and the transfer
between stores as operators checked against reference definitions.
