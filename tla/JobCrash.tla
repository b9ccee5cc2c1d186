------------------------------ MODULE JobCrash ------------------------------
(***************************************************************************)
(* JobLifecycle with an orchestrator that may be killed and restarted at   *)
(* any point.  An operation writes the queue, status.json and the registry *)
(* one after the other, with no transaction around them; a crash leaves    *)
(* the writes made so far.  Each Crash action below is an operation of     *)
(* JobLifecycle cut short: it performs a proper prefix of its writes, in   *)
(* the order of the code.  A restart forgets what was only in memory: the  *)
(* polls being served, their undelivered replies, and all heartbeats.      *)
(*                                                                         *)
(* The second fault is a displaced record.  jobs is one dictionary for all *)
(* threads, and _refresh_jobs of a request for another job, which holds    *)
(* another lock, loads the store, clears jobs and refills it, one after    *)
(* the other.  When that falls into an operation, the operation reads or   *)
(* saves the record on disk, the older one that a stalled refresh has      *)
(* loaded, or, between the clear and the refill, none.                     *)
(***************************************************************************)
EXTENDS JobLifecycle

CONSTANT MaxFaults   \* bound: how often the orchestrator is killed or a save displaced

ASSUME FaultBound == MaxFaults \in Nat

VARIABLES
    snapshot,    \* the records a stalled refresh of another thread has loaded
    faults       \* bounds the model: faults so far

crashVars == <<vars, snapshot, faults>>

NothingLoaded == [j \in Jobs |-> NoRecord]

\* A kill, or the stalled refresh goes on: what it had loaded is used up.
Fault ==
    /\ faults < MaxFaults
    /\ faults' = faults + 1
    /\ snapshot' = NothingLoaded

\* A refresh has loaded the store and is delayed before it refills jobs.
LoadJobs ==
    /\ faults < MaxFaults
    /\ snapshot' = registry
    /\ UNCHANGED <<vars, faults>>

Restart ==
    /\ Fault
    /\ poll' = [w \in Workers |-> Idle]
    /\ issued' = issued \ {poll[w].reply : w \in Workers}
    /\ heartbeat' = [w \in Workers |-> [seen |-> "never", active |-> {}]]
    /\ UNCHANGED <<pending, lost>>

\* status.json is replaced; the registry record is not saved any more.
FileOnly(j, s) ==
    /\ statusFile' = [statusFile EXCEPT ![j] = s]
    /\ quiet' = [quiet EXCEPT ![j] = FALSE]
    /\ UNCHANGED registry

\* History: the report of attempt a wrote s, or gave the job back.
ReportedBy(a, s) ==
    IF s = QUEUED THEN ByOrchestrator(a.job) /\ Revoke(a.job)
    ELSE writer' = [writer EXCEPT ![a.job] = a] /\ UNCHANGED owner

NothingWritten == UNCHANGED <<statusFile, registry, quiet>>

\* Between operations, or before the first write of one.
Crash ==
    /\ Restart
    /\ UNCHANGED <<stores, quiet, grants, returns, history>>

\* Registry, status.json, queue and registry again, before status.json says queued.
CrashLaunch(j) ==
    /\ Launchable(j)
    /\ Restart
    /\ \E host \in LaunchHosts :
         LET m == LaunchRecord(host) IN
         \/ /\ registry' = [registry EXCEPT ![j] = m]
            /\ UNCHANGED <<statusFile, queue, quiet>>
         \/ /\ SaveStatus(j, m, LAUNCHING)
            /\ queue' \in {queue, EnqueuedIn(queue, j, host, host # None)}
         \/ /\ statusFile' = [statusFile EXCEPT ![j] = LAUNCHING]
            /\ quiet' = [quiet EXCEPT ![j] = FALSE]
            /\ registry' = [registry EXCEPT ![j] = Written(m, LAUNCHING, QUEUED)]
            /\ queue' = EnqueuedIn(queue, j, host, host # None)
    /\ UNCHANGED <<grants, returns, history>>

\* The status says dispatched, but the record has neither token nor host.
CrashDispatch(w) ==
    LET j == poll[w].job IN
    /\ poll[w].pc = "claimed"
    /\ Dispatchable(j)
    /\ Writable(statusFile[j], DispatchOutcome(j))
    /\ Restart
    /\ FileOnly(j, DispatchOutcome(j))
    /\ UNCHANGED <<queue, grants, returns, history>>

\* The report is in status.json alone, or also in the registry, where the job
\* does not have the host of the report yet; its entry may still be in the queue.
CrashReport(a, status) ==
    LET j == a.job
        s == Reported(j, status)
        m == registry[j]
    IN
    /\ \A w \in Workers : poll[w].reply # a
    /\ Exists(j)
    /\ Validates(m, a)
    /\ Writable(statusFile[j], s)
    /\ Restart
    /\ \/ FileOnly(j, s) /\ UNCHANGED queue
       \/ /\ SaveOneOf(j, s, {[n EXCEPT !.target = m.target] :
                                n \in ReportedRecords(m, statusFile[j], a, s)})
          /\ queue' \in {queue, IF s = QUEUED THEN queue ELSE RemovedFrom(queue, j)}
    /\ ReportedBy(a, s)
    /\ UNCHANGED <<grants, returns>>

\* The entry is gone; the status may or may not have been written.
CrashStop(j) ==
    LET s == StopOutcome(StatusNow(j)) IN
    /\ Exists(j)
    /\ s # StatusNow(j)
    /\ Restart
    /\ queue' = RemovedFrom(queue, j)
    /\ \/ NothingWritten /\ UNCHANGED writer
       \/ FileOnly(j, s) /\ ByOrchestrator(j)
    /\ UNCHANGED <<grants, returns, owner>>

\* The old entry is removed, the new one added, the status written.
CrashRequeue(j, force, host, mode) ==
    LET m == registry[j]
        entered == EnqueuedIn(queue, j, RequeueHost(m, host, mode), RequeueRequire(m, mode))
    IN
    /\ Exists(j)
    /\ RequeueAllowed(StatusNow(j), force)
    /\ Restart
    /\ \/ queue' \in {RemovedFrom(queue, j), entered} /\ NothingWritten /\ UNCHANGED history
       \/ /\ RequeueAccepted(j, force)
          /\ queue' = entered
          /\ FileOnly(j, QUEUED)
          /\ ByOrchestrator(j)
          /\ Revoke(j)
    /\ UNCHANGED <<grants, returns>>

\* The new entry is there before the status says queued; or a job is failed in
\* status.json alone.
CrashSweep(j) ==
    LET m == registry[j] IN
    /\ Stale(j)
    /\ Restart
    /\ \/ /\ StatusNow(j) \in {DISPATCHED, SETUP}
          /\ queue' = EnqueuedIn(queue, j, PreferredOf(m), m.require)
          /\ \/ NothingWritten /\ UNCHANGED history
             \/ FileOnly(j, QUEUED) /\ ByOrchestrator(j) /\ Revoke(j)
       \/ /\ StatusNow(j) \notin {DISPATCHED, SETUP}
          /\ FileOnly(j, FAILED)
          /\ ByOrchestrator(j)
          /\ UNCHANGED <<queue, owner>>
    /\ UNCHANGED <<grants, returns>>

-----------------------------------------------------------------------------
(* Displaced records.  Launches, which save a new record, are left out. *)

\* What a refresh may put into jobs as the record of j.
Loaded(j) == {registry[j], snapshot[j]} \ {NoRecord}

\* What a write of status s may leave of record m when a refresh falls into it:
\* any of its changes may go to a dictionary that is no longer there.
Left(m, prev, s) ==
    LET n == Written(m, prev, s)
    IN  {[n EXCEPT !.status = x, !.attempt = y, !.token = z] :
            x \in {m.status, s}, y \in {m.attempt, n.attempt}, z \in {m.token, n.token}}

LeftOf(j, s) == UNION {Left(m, statusFile[j], s) : m \in Loaded(j)}

\* jobs is empty when the claimed job is looked up: its entry is dropped.
DisplacedSkip(w) ==
    /\ poll[w].pc = "claimed"
    /\ Fault
    /\ AfterDispatch(w, "done", NoAttempt)
    /\ UNCHANGED <<stores, issued, grants, quiet, worlds, returns, history>>

\* The attempt has the number after the one that was read; its token, fence and
\* host are in the record that was read, or are lost.
DisplacedDispatch(w) ==
    LET j == poll[w].job IN
    /\ poll[w].pc = "claimed"
    /\ Dispatchable(j)
    /\ DispatchOutcome(j) = DISPATCHED
    /\ Writable(statusFile[j], DISPATCHED)
    /\ Fault
    /\ \E m \in Loaded(j) :
         LET a == [job |-> j, worker |-> w, number |-> m.attempt + 1,
                   token |-> IF poll[w].fencing THEN grants + 1 ELSE 0]
             g == Granted(m, w, poll[w].fencing)
         IN
         /\ SaveOneOf(j, DISPATCHED, {Written(g, statusFile[j], DISPATCHED)}
                                     \cup LeftOf(j, DISPATCHED))
         /\ issued' = issued \cup {a}
         /\ owner' = [owner EXCEPT ![j] = a]
         /\ AfterDispatch(w, "done", a)
    /\ grants' = grants + 1
    /\ ByOrchestrator(j)
    /\ UNCHANGED <<queue, worlds, returns>>

\* A report also writes its number and its host.
LeftOfReport(a, s) ==
    {[n EXCEPT !.attempt = x, !.target = y] :
        n \in LeftOf(a.job, s),
        x \in {m.attempt : m \in LeftOf(a.job, s)} \cup {a.number},
        y \in {m.target : m \in Loaded(a.job)} \cup {a.worker}}

\* Validated against the record that was read, a report changes the one it finds.
DisplacedReport(a, status) ==
    LET j == a.job
        s == Reported(j, status)
    IN
    /\ \A w \in Workers : poll[w].reply # a
    /\ Exists(j)
    /\ \E m \in Loaded(j) : Validates(m, a)
    /\ Writable(statusFile[j], s)
    /\ Fault
    /\ SaveOneOf(j, s, LeftOfReport(a, s))
    /\ heartbeat' = [heartbeat EXCEPT ![a.worker].seen = "fresh"]
    /\ queue' = IF s = QUEUED THEN queue ELSE RemovedFrom(queue, j)
    /\ ReportedBy(a, s)
    /\ UNCHANGED <<poll, issued, grants, pending, lost, returns>>

DisplacedStop(j) ==
    LET s == StopOutcome(StatusNow(j)) IN
    /\ Exists(j)
    /\ s # StatusNow(j)
    /\ Fault
    /\ queue' = RemovedFrom(queue, j)
    /\ SaveOneOf(j, s, LeftOf(j, s))
    /\ ByOrchestrator(j)
    /\ UNCHANGED <<poll, issued, grants, worlds, returns, owner>>

\* The record m that was read is returned, or of the one found at the save what
\* the status write changes, which is the preferred host as well.  A forced write
\* loads the record when jobs is empty, an unforced one saves none.
LeftOfReturn(j, m, preferred, require, forced) ==
    {Written(Returned(m, preferred, require), statusFile[j], QUEUED)}
    \cup {n \in LeftOf(j, QUEUED) : ~forced}
    \cup {[n EXCEPT !.preferred = preferred] :
             n \in {l \in LeftOf(j, QUEUED) : forced => l.status = QUEUED}}

DisplacedReturn(j, m, preferred, require, forced) ==
    /\ returns < MaxReturns
    /\ returns' = returns + 1
    /\ Fault
    /\ queue' = EnqueuedIn(queue, j, preferred, require)
    /\ SaveOneOf(j, QUEUED, LeftOfReturn(j, m, preferred, require, forced))
    /\ ByOrchestrator(j)
    /\ Revoke(j)
    /\ UNCHANGED <<poll, issued, grants, worlds>>

DisplacedRequeue(j, force, host, mode) ==
    /\ Exists(j)
    /\ RequeueAllowed(StatusNow(j), force)
    /\ RequeueAccepted(j, force)
    /\ \E m \in Loaded(j) :
         DisplacedReturn(j, m, RequeueHost(m, host, mode), RequeueRequire(m, mode),
                         force \/ StatusNow(j) \in Terminal)

\* Stale, by the record m that was read after the job was found in jobs.
StaleBy(j, m) ==
    /\ \E n \in Loaded(j) : n.status \in Active
    /\ StatusNow(j) \in Active \ {RECOVERING}
    /\ pending[j] = None
    /\ \/ /\ quiet[j]
          /\ \A h \in Workers \cap {HostOf(m)} :
               heartbeat[h].seen # "fresh" \/ j \notin heartbeat[h].active
       \/ \E h \in Workers \cap {m.target} : heartbeat[h].seen = "old"

\* A job that is failed keeps all of the record that was read: it is saved again.
DisplacedSweep(j) ==
    \E m \in Loaded(j) :
        /\ StaleBy(j, m)
        /\ \/ /\ StatusNow(j) \in {DISPATCHED, SETUP}
              /\ DisplacedReturn(j, m, PreferredOf(m), m.require, FALSE)
           \/ /\ StatusNow(j) \notin {DISPATCHED, SETUP}
              /\ Fault
              /\ SaveOneOf(j, FAILED, {Written(m, statusFile[j], FAILED)})
              /\ ByOrchestrator(j)
              /\ UNCHANGED <<queue, poll, issued, grants, worlds, returns, owner>>

-----------------------------------------------------------------------------
DisplacedStep ==
    \/ \E j \in Jobs : DisplacedStop(j) \/ DisplacedSweep(j)
    \/ \E w \in Workers : DisplacedSkip(w) \/ DisplacedDispatch(w)
    \/ \E a \in issued, s \in AgentStatuses : DisplacedReport(a, s)
    \/ \E j \in Jobs, force \in Forces, host \in RequeueHosts, mode \in RequeueModes :
         DisplacedRequeue(j, force, host, mode)

CrashStep ==
    \/ Crash
    \/ \E j \in Jobs : CrashLaunch(j) \/ CrashStop(j) \/ CrashSweep(j)
    \/ \E w \in Workers : CrashDispatch(w)
    \/ \E a \in issued, s \in AgentStatuses : CrashReport(a, s)
    \/ \E j \in Jobs, force \in Forces, host \in RequeueHosts, mode \in RequeueModes :
         CrashRequeue(j, force, host, mode)

CrashInit == Init /\ snapshot = NothingLoaded /\ faults = 0

CrashNext ==
    \/ CrashStep \/ DisplacedStep \/ LoadJobs
    \/ Next /\ UNCHANGED <<snapshot, faults>>

CrashSpec == CrashInit /\ [][CrashNext]_crashVars

-----------------------------------------------------------------------------
(* Correctness. *)

\* Faults leave the state of the orchestrator well-formed.
CrashTypeOK == TypeOK /\ snapshot \in [Jobs -> Record] /\ faults \in 0 .. MaxFaults

\* A job that says dispatched or setup is one the sweep looks at, so it can go
\* back to the queue when its worker stays silent (jobs.md, stale handling).
DispatchedIsSwept ==
    \A j \in Jobs : statusFile[j] \in {DISPATCHED, SETUP} => registry[j].status \in Active
=============================================================================
