---------------------------- MODULE UnionRecovery ----------------------------
(***************************************************************************)
(* ops_recover_job: an operator asks the Union worker to install, once     *)
(* more, the result of a remote run that has succeeded.  The request goes  *)
(* to disk (.worker/union-recovery-request.json), the job becomes          *)
(* recovering, and a command is put into the worker's queue in memory      *)
(* (worker_commands), which a restart forgets.  The whole request holds    *)
(* the state lock of the job, but nothing locks the worker's own file      *)
(* .worker/union.json, which says how its run stands, nor the command      *)
(* polls.  All this happens within the life of the job (JobLifecycle); of  *)
(* the faults of JobCrash only the restart between two steps is used.      *)
(***************************************************************************)
EXTENDS JobCrash, Sequences, SequencesExt

CONSTANTS
    Union,         \* the worker that runs jobs remotely
    MaxRequests    \* bound: recovery requests and authentication commands

ASSUME UnionIsDurable == Union \in DurableHosts
ASSUME RequestBound == MaxRequests \in Nat

VARIABLES
    run,           \* .worker/union.json of each job
    begun,         \* attempts whose worker has written union.json or reported
    requestFile,   \* the request in union-recovery-request.json, 0 without
    requested,     \* recovery_request_id in status.json, 0 without
    recovery,      \* the ops_recover_job in progress
    commands,      \* worker_commands of the Union worker
    ids,           \* request ids drawn so far (uuid4)
    accepted       \* history: the last request whose status was written

recoveryVars == <<crashVars, run, begun, requestFile, requested, recovery, commands,
                  ids, accepted>>
lifeVars     == <<crashVars, begun, requested>>
requestVars  == <<requestFile, recovery, commands, ids, accepted>>

NoRun == [attempt |-> NoAttempt, phase |-> "none", result |-> "none", closed |-> "open"]

\* closed: terminal, then orchestrator_ack as well.
Run == {NoRun} \cup
    [attempt : Attempt, phase : {"running", "succeeded", "failed"},
     result : {"none", "remote", "installed", "deleted"}, closed : {"open", "terminal", "acked"}]

NoRecovery == [pc |-> "idle", job |-> None, id |-> 0]

Command == [job : Jobs \cup {None}, id : Nat \ {0}]

\* Mutant: the request is made without the lock.
LockedNever(j) == FALSE

\* Mutant: the lock is taken when the status is written.
LockedToWrite(j) == recovery.pc = "recorded" /\ recovery.job = j

Locked(j) == recovery.pc # "idle" /\ recovery.job = j

-----------------------------------------------------------------------------
(* The request, under the lock of the job. *)

Recoverable(u) ==
    /\ u.phase = "succeeded"
    /\ u.result \in {"remote", "installed"}

RecoverBegin(j) ==
    /\ recovery.pc = "idle"
    /\ HostOf(registry[j]) = Union
    /\ StatusNow(j) \in {FAILED, RECOVERING}
    /\ Recoverable(run[j])
    /\ ids < MaxRequests
    /\ ids' = ids + 1
    /\ recovery' = [pc |-> "checked", job |-> j, id |-> ids + 1]
    /\ UNCHANGED <<lifeVars, run, requestFile, commands, accepted>>

\* Mutant: the request is written last, when the worker has its command.
WriteNothingYet == UNCHANGED requestFile

\* _write_union_recovery_request replaces the file.
WriteRequest == requestFile' = [requestFile EXCEPT ![recovery.job] = recovery.id]

RecoverRequest ==
    /\ recovery.pc = "checked"
    /\ WriteRequest
    /\ recovery' = [recovery EXCEPT !.pc = "requested"]
    /\ UNCHANGED <<lifeVars, run, commands, ids, accepted>>

\* Mutant: the forced write takes the fence from the attempt.
KeptUnfenced(m) == [Written(m, FAILED, RECOVERING) EXCEPT !.token = 0]

\* The attempt keeps its fence: its worker is to report on the recovery.
Kept(m) == Written(m, FAILED, RECOVERING)

RecoverStatus ==
    LET j == recovery.job IN
    /\ recovery.pc = "requested"
    /\ statusFile' = [statusFile EXCEPT ![j] = RECOVERING]
    /\ registry' = [registry EXCEPT ![j] = Kept(registry[j])]
    /\ quiet' = [quiet EXCEPT ![j] = FALSE]
    /\ ByOrchestrator(j)
    /\ requested' = [requested EXCEPT ![j] = recovery.id]
    /\ accepted' = [accepted EXCEPT ![j] = recovery.id]
    /\ recovery' = [recovery EXCEPT !.pc = "recorded"]
    /\ UNCHANGED <<queue, poll, issued, grants, worlds, returns, owner, snapshot, faults,
                   run, begun, requestFile, commands, ids>>

\* Mutant: the command does not wait for the status.
ReadyAtOnce == recovery.pc \in {"requested", "recorded"}

\* The command is the last step: a refused or interrupted request sends none.
Ready == recovery.pc = "recorded"

RecoverCommand ==
    /\ Ready
    /\ commands' = Append(commands, [job |-> recovery.job, id |-> recovery.id])
    /\ recovery' = NoRecovery
    /\ UNCHANGED <<lifeVars, run, requestFile, ids, accepted>>

\* request_worker_authentication: a command about no job.
Authenticate ==
    /\ ids < MaxRequests
    /\ ids' = ids + 1
    /\ commands' = Append(commands, [job |-> None, id |-> ids + 1])
    /\ UNCHANGED <<lifeVars, run, requestFile, recovery, accepted>>

\* take_worker_command; the response may be lost.
TakeCommand ==
    /\ commands # <<>>
    /\ commands' = Tail(commands)
    /\ UNCHANGED <<lifeVars, run, requestFile, recovery, ids, accepted>>

-----------------------------------------------------------------------------
(* The worker's file.  It is written when a run starts, if the worker gets  *)
(* that far, and changes with the run; pending is what the sweep makes of   *)
(* it (_pending_persistent_worker_recovery_host).                           *)

Unacknowledged(u) == IF u = NoRun \/ u.closed = "acked" THEN None ELSE Union

Update(j, u) ==
    /\ run' = [run EXCEPT ![j] = u]
    /\ pending' = [pending EXCEPT ![j] = Unacknowledged(u)]
    /\ UNCHANGED <<stores, poll, issued, grants, quiet, heartbeat, lost, returns, history,
                   snapshot, faults, requested, requestVars>>

StartRun(a) ==
    /\ a \in ReceivedBy(Union)
    /\ \A b \in begun : b.job = a.job => b.number < a.number
    /\ Update(a.job, [attempt |-> a, phase |-> "running", result |-> "none",
                      closed |-> "open"])
    /\ begun' = begun \cup {a}

\* The remote run ends; its result is installed, or removed; the worker is done
\* with it, and notes that the orchestrator has the final status.
RunStep(j) ==
    LET u == run[j] IN
    /\ \/ u.phase = "running" /\ Update(j, [u EXCEPT !.phase = "succeeded", !.result = "remote"])
       \/ u.phase = "running" /\ Update(j, [u EXCEPT !.phase = "failed"])
       \/ u.result = "remote" /\ Update(j, [u EXCEPT !.result = "installed"])
       \/ u.result = "remote" /\ Update(j, [u EXCEPT !.result = "deleted"])
       \/ u.phase \in {"succeeded", "failed"} /\ u.closed = "open"
          /\ Update(j, [u EXCEPT !.closed = "terminal"])
       \/ u.closed = "terminal" /\ statusFile[j] \in Terminal
          /\ Update(j, [u EXCEPT !.closed = "acked"])
    /\ UNCHANGED begun

-----------------------------------------------------------------------------
(* Everything else that happens to the job.  That heartbeats may name it as *)
(* active is left out: it only keeps the sweep from acting, which is free   *)
(* not to act.                                                             *)

\* A status written by anyone else carries no request id.
RequestForgotten ==
    requested' = [j \in Jobs |-> IF statusFile'[j] = RECOVERING /\ writer'[j] = NoAttempt
                                 THEN requested[j] ELSE 0]

LifeStep ==
    \/ \E j \in Jobs : ~Locked(j) /\ (Launch(j) \/ Operate(j) \/ Sweep(j)) /\ UNCHANGED begun
    \/ \E w \in Workers : /\ \/ Claim(w) \/ RemoveClaimed(w) \/ ReleaseClaimed(w)
                             \/ ~Locked(poll[w].job)
                                /\ (SkipDispatch(w) \/ FailDispatch(w) \/ Dispatch(w))
                          /\ UNCHANGED begun
    \/ \E a \in issued, s \in AgentStatuses :
         ~Locked(a.job) /\ Report(a, s) /\ begun' = begun \cup {a}
    \/ \E j \in Jobs : Age(j) /\ UNCHANGED begun
    \/ \E w \in Workers : Lapse(w) /\ UNCHANGED begun

Killed ==
    /\ Crash
    /\ recovery' = NoRecovery
    /\ commands' = <<>>
    /\ UNCHANGED <<run, begun, requestFile, requested, ids, accepted>>

RecoveryInit ==
    /\ CrashInit
    /\ run = [j \in Jobs |-> NoRun]
    /\ begun = {}
    /\ requestFile = [j \in Jobs |-> 0]
    /\ requested = [j \in Jobs |-> 0]
    /\ recovery = NoRecovery
    /\ commands = <<>>
    /\ ids = 0
    /\ accepted = [j \in Jobs |-> 0]

RecoveryNext ==
    \/ \E j \in Jobs : RecoverBegin(j) \/ RunStep(j)
    \/ RecoverRequest \/ RecoverStatus \/ RecoverCommand
    \/ Authenticate \/ TakeCommand \/ Killed
    \/ \E a \in issued : StartRun(a)
    \/ LifeStep /\ RequestForgotten /\ UNCHANGED <<snapshot, faults, run, requestVars>>

RecoverySpec == RecoveryInit /\ [][RecoveryNext]_recoveryVars

-----------------------------------------------------------------------------
(* Correctness. *)

\* The requests and the worker's file are of the shapes described above.
RecoveryTypeOK ==
    /\ CrashTypeOK
    /\ run \in [Jobs -> Run]
    /\ begun \subseteq issued
    /\ requestFile \in [Jobs -> 0 .. ids]
    /\ requested \in [Jobs -> 0 .. ids]
    /\ recovery \in [pc : {"idle", "checked", "requested", "recorded"},
                     job : Jobs \cup {None}, id : 0 .. MaxRequests]
    /\ commands \in Seq(Command)
    /\ accepted \in [Jobs -> 0 .. ids]

\* "The request is also persisted ... so it survives an orchestrator restart before
\* command delivery" (worker_agent.md): a job that an operator's request made
\* recovering has that request on disk, or a newer one.
RequestSurvives == \A j \in Jobs : requestFile[j] >= requested[j]

\* A worker is told to recover a job only after the job says so: a report it makes
\* at once is not refused for coming from failed (_queue_worker_command is last).
CommandsFollowStatus ==
    \A c \in ToSet(commands) : c.job # None => c.id <= accepted[c.job]

\* The attempt that is to report on a recovery passes the fence, whatever failed
\* the job before: the worker, the sweep after a stop, or an earlier recovery.
RecoveringCanReport ==
    \A j \in Jobs : statusFile[j] = RECOVERING =>
        owner[j] # NoAttempt /\ Validates(registry[j], owner[j])

\* An outcome is reopened on purpose only: by a requeue, which takes the job from
\* its attempt, or, if the job failed, by the recovery that looked at its status
\* before it wrote the request.  Late reports, sweeps, stops, dispatches of other
\* polls and kills in between do not, where workers report the statuses of a run
\* (ops_recover_job, _force_status).
ReopenedOnPurpose ==
    [][\A j \in Jobs : (statusFile[j] \in Terminal /\ statusFile'[j] # statusFile[j]) =>
          \/ statusFile'[j] = QUEUED /\ owner'[j] = NoAttempt
          \/ /\ statusFile[j] = FAILED /\ statusFile'[j] = RECOVERING
             /\ recovery.job = j /\ recovery.pc = "requested"]_recoveryVars

\* "Requires persisted evidence that remote compute succeeded" (jobs.md): of the
\* attempt that is recovering.
RecoversOwnRun ==
    \A j \in Jobs : requested[j] # 0 =>
        run[j].phase = "succeeded" /\ run[j].attempt = owner[j]
=============================================================================
