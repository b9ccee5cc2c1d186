---------------------------- MODULE AttemptProofs ----------------------------
(***************************************************************************)
(* What holds when the record of a job is not to be relied on: operations  *)
(* are cut short, saves displaced (JobCrash), copies of records saved      *)
(* without a lock (JobOps).  Any token may then be in any record, but      *)
(* still no two attempts have the same token; requested stops and outcomes *)
(* stand, as they depend on status.json alone.  And what ops_recover_job   *)
(* promises when the orchestrator is killed on the way (UnionRecovery).    *)
(***************************************************************************)
EXTENDS UnionRecovery, JobOps, JobLifecycleProofs

\* Tokens are numbered by the grants, and never given out twice.
TokenInv ==
    /\ grants \in Nat
    /\ \A a \in issued : a.token \in 0 .. grants
    /\ TokensDistinct

\* What any step may do to the attempts: nothing new, or one with a new token.
GrantsAtMostOne ==
    \/ issued' \subseteq issued /\ grants' = grants
    \/ \E a : /\ a.token \in {0, grants + 1}
              /\ issued' = issued \cup {a}
              /\ grants' = grants + 1

LEMMA GrantsKeepTokens == TokenInv /\ GrantsAtMostOne => TokenInv'
<1> SUFFICES ASSUME TokenInv, GrantsAtMostOne PROVE TokenInv'
  OBVIOUS
<1>1. CASE issued' \subseteq issued /\ grants' = grants
  BY <1>1 DEF TokenInv, TokensDistinct
<1>2. ASSUME NEW a, a.token \in {0, grants + 1}, issued' = issued \cup {a},
             grants' = grants + 1
      PROVE  TokenInv'
  <2>1. \A b \in issued : b.token \in Nat /\ b.token <= grants
    BY DEF TokenInv
  <2>2. grants' \in Nat /\ \A b \in issued' : b.token \in 0 .. grants'
    BY <1>2, <2>1 DEF TokenInv
  <2>3. \A b \in issued : b.token # grants + 1
    BY <2>1 DEF TokenInv
  <2>4. TokensDistinct'
    BY <1>2, <2>3 DEF TokenInv, TokensDistinct
  <2> QED
    BY <2>2, <2>4 DEF TokenInv
<1> QED
  BY <1>1, <1>2 DEF GrantsAtMostOne

\* A fenced record passes the attempts with its token, and there is only one.
LEMMA TokensTellApart == TokenInv => OneValidAttempt
BY DEF TokenInv, TokensDistinct, OneValidAttempt, Validates

LEMMA DispatchGrantsOne == ASSUME NEW w \in Workers, Dispatch(w) PROVE GrantsAtMostOne
<1> DEFINE a == [job |-> poll[w].job, worker |-> w, number |-> registry[poll[w].job].attempt + 1,
                 token |-> IF poll[w].fencing THEN grants + 1 ELSE 0]
<1>1. issued' = issued \cup {a} /\ grants' = grants + 1
  BY DEF Dispatch
<1>2. a.token \in {0, grants + 1}
  OBVIOUS
<1> HIDE DEF a
<1> QED
  BY <1>1, <1>2 DEF GrantsAtMostOne

LEMMA PollStepGrants == ASSUME NEW w \in Workers, PollStep(w) PROVE GrantsAtMostOne
<1>1. CASE Dispatch(w)
  BY <1>1, DispatchGrantsOne
<1>2. CASE ~Dispatch(w)
  BY <1>2 DEF PollStep, Claim, SkipDispatch, FailDispatch, RemoveClaimed, ReleaseClaimed,
              GrantsAtMostOne
<1> QED
  BY <1>1, <1>2

LEMMA OthersGrant ==
    /\ \A j \in Jobs : Launch(j) \/ Operate(j) \/ Sweep(j) => UNCHANGED <<issued, grants>>
    /\ \A a \in issued, s \in AgentStatuses : Report(a, s) => UNCHANGED <<issued, grants>>
    /\ World => UNCHANGED <<issued, grants>>
BY DEF Launch, Operate, Stop, Requeue, Sweep, SweepRequeue, SweepFail, Report, World, Age,
       Lapse, Heartbeat, Persist, Acknowledge, LoseInputs, ExpireClaim

LEMMA NextGrants == Next => GrantsAtMostOne
BY PollStepGrants, OthersGrant DEF Next, GrantsAtMostOne

-----------------------------------------------------------------------------
(* Kills and displaced records. *)

LEMMA CrashGrants == CrashStep => GrantsAtMostOne
<1>1. Restart => issued' \subseteq issued
  BY DEF Restart
<1>2. CrashStep => Restart /\ grants' = grants
  BY DEF CrashStep, Crash, CrashLaunch, CrashStop, CrashSweep, CrashDispatch, CrashReport,
         CrashRequeue
<1> QED
  BY <1>1, <1>2 DEF GrantsAtMostOne

LEMMA DisplacedGrants == DisplacedStep => GrantsAtMostOne
<1>1. ASSUME NEW w \in Workers, DisplacedDispatch(w) PROVE GrantsAtMostOne
  <2>1. /\ grants' = grants + 1
        /\ \E m \in Loaded(poll[w].job) :
             issued' = issued \cup {[job |-> poll[w].job, worker |-> w, number |-> m.attempt + 1,
                                    token |-> IF poll[w].fencing THEN grants + 1 ELSE 0]}
    BY <1>1 DEF DisplacedDispatch
  <2> PICK m \in Loaded(poll[w].job) :
             issued' = issued \cup {[job |-> poll[w].job, worker |-> w, number |-> m.attempt + 1,
                                    token |-> IF poll[w].fencing THEN grants + 1 ELSE 0]}
    BY <2>1
  <2> DEFINE a == [job |-> poll[w].job, worker |-> w, number |-> m.attempt + 1,
                   token |-> IF poll[w].fencing THEN grants + 1 ELSE 0]
  <2>2. a.token \in {0, grants + 1} /\ issued' = issued \cup {a}
    OBVIOUS
  <2> HIDE DEF a
  <2> QED
    BY <2>1, <2>2 DEF GrantsAtMostOne
<1>2. ASSUME NEW w \in Workers, DisplacedSkip(w) PROVE UNCHANGED <<issued, grants>>
  BY <1>2 DEF DisplacedSkip
<1>3. ASSUME NEW j \in Jobs, DisplacedStop(j) \/ DisplacedSweep(j)
      PROVE  UNCHANGED <<issued, grants>>
  BY <1>3 DEF DisplacedStop, DisplacedSweep, DisplacedReturn
<1>4. ASSUME NEW a \in issued, NEW s \in AgentStatuses, DisplacedReport(a, s)
      PROVE  UNCHANGED <<issued, grants>>
  BY <1>4 DEF DisplacedReport
<1>5. ASSUME NEW j \in Jobs, NEW force \in Forces, NEW host \in RequeueHosts,
             NEW mode \in RequeueModes, DisplacedRequeue(j, force, host, mode)
      PROVE  UNCHANGED <<issued, grants>>
  BY <1>5 DEF DisplacedRequeue, DisplacedReturn
<1> QED
  BY <1>1, <1>2, <1>3, <1>4, <1>5 DEF DisplacedStep, GrantsAtMostOne

\* Whatever writes a kill cuts off, and whatever record is saved in place of
\* another, no two attempts of a fenced job may report (_validate_agent_attempt).
THEOREM OneAttemptDespiteFaults == CrashSpec => []OneValidAttempt
<1>1. CrashInit => TokenInv
  BY DEF CrashInit, Init, TokenInv, TokensDistinct
<1>2. TokenInv /\ [CrashNext]_crashVars => TokenInv'
  <2>1. UNCHANGED crashVars \/ LoadJobs => GrantsAtMostOne
    BY DEF crashVars, vars, LoadJobs, GrantsAtMostOne
  <2> QED
    BY <2>1, GrantsKeepTokens, NextGrants, CrashGrants, DisplacedGrants DEF CrashNext
<1> QED
  BY <1>1, <1>2, TokensTellApart, PTL DEF CrashSpec

-----------------------------------------------------------------------------
(* What faults leave of the shapes, and of a requested stop.                *)

\* Types of the parts of the state, to put TypeOK together from.
StoresTyped ==
    /\ registry \in [Jobs -> Record]
    /\ statusFile \in [Jobs -> Status \cup {Absent}]
    /\ queue \in SUBSET Entry
    /\ quiet \in [Jobs -> BOOLEAN]

OthersTyped ==
    /\ poll \in [Workers -> Poll]
    /\ issued \in SUBSET Attempt
    /\ grants \in Nat
    /\ heartbeat \in [Workers -> Beat]
    /\ pending \in [Jobs -> Hosts]
    /\ lost \in SUBSET Jobs
    /\ returns \in Nat

HistoryTyped ==
    /\ owner \in [Jobs -> Attempt \cup {NoAttempt}]
    /\ writer \in [Jobs -> Attempt \cup {NoAttempt}]

LEMMA TypeParts == StoresTyped' /\ OthersTyped' /\ HistoryTyped' => TypeOK'
BY DEF TypeOK, StoresTyped, OthersTyped, HistoryTyped

LEMMA RestartTypes ==
    ASSUME TypeOK, Restart, UNCHANGED <<grants, returns>>
    PROVE  OthersTyped'
BY DEF TypeOK, Restart, OthersTyped, Poll, Beat

LEMMA HistoryTypes ==
    ASSUME TypeOK, NEW j \in Jobs
    PROVE  /\ ByOrchestrator(j) /\ owner' = owner => HistoryTyped'
           /\ ByOrchestrator(j) /\ Revoke(j) => HistoryTyped'
           /\ UNCHANGED history => HistoryTyped'
BY HistoryType DEF TypeOK, HistoryTyped, history

LEMMA StatusNames == {LAUNCHING, QUEUED, DISPATCHED, FAILED} \subseteq Status
BY DEF Status

\* The file is written, the record may be, the queue keeps its shape.
LEMMA FileTypes ==
    ASSUME TypeOK, NEW j \in Jobs, NEW s \in Status, queue' \in SUBSET Entry
    PROVE  /\ FileOnly(j, s) => StoresTyped'
           /\ NothingWritten => StoresTyped'
           /\ \A m \in Record : SaveStatus(j, m, s) => StoresTyped'
           /\ \A ms \in SUBSET Record : SaveOneOf(j, s, ms) => StoresTyped'
<1>1. FileOnly(j, s) => StoresTyped'
  BY DEF FileOnly, TypeOK, StoresTyped
<1>2. NothingWritten => StoresTyped'
  BY DEF NothingWritten, TypeOK, StoresTyped
<1>3. \A m \in Record : SaveStatus(j, m, s) => StoresTyped'
  BY SaveStatusType DEF StoresTyped
<1>4. \A ms \in SUBSET Record : SaveOneOf(j, s, ms) => StoresTyped'
  BY DEF SaveOneOf, TypeOK, StoresTyped
<1> QED
  BY <1>1, <1>2, <1>3, <1>4

LEMMA ReportedTypes ==
    ASSUME NEW m \in Record, NEW prev, NEW a \in Attempt, NEW s \in Status
    PROVE  ReportedRecords(m, prev, a, s) \subseteq Record
<1> DEFINE n == Written(HeldBy(m, a.worker), prev, s)
<1>1. n \in Record /\ a.number \in Nat
  BY WrittenType, RecordTypes DEF Attempt
<1>2. ReportedRecords(m, prev, a, s) \subseteq {n, [n EXCEPT !.attempt = a.number]}
  BY DEF ReportedRecords
<1> HIDE DEF n
<1> QED
  BY <1>1, <1>2 DEF Record

LEMMA ReportedHistory ==
    ASSUME TypeOK, NEW a \in Attempt, NEW s, ReportedBy(a, s)
    PROVE  HistoryTyped'
<1>1. a.job \in Jobs
  BY DEF Attempt
<1> QED
  BY <1>1, HistoryTypes DEF ReportedBy, TypeOK, HistoryTyped

LEMMA CrashTypeStep == TypeOK /\ CrashStep => TypeOK'
<1> USE StatusNames, TypeParts DEF history
<1> SUFFICES ASSUME TypeOK, CrashStep PROVE TypeOK'
  OBVIOUS
<1>a. \A j \in Jobs : registry[j] \in Record
  BY DEF TypeOK
<1>1. ASSUME Crash PROVE TypeOK'
  <2>1. OthersTyped'
    BY <1>1, RestartTypes DEF Crash
  <2> QED
    BY <1>1, <2>1 DEF Crash, stores, StoresTyped, HistoryTyped, TypeOK
<1>2. ASSUME NEW j \in Jobs, CrashLaunch(j) PROVE TypeOK'
  <2> PICK host \in LaunchHosts :
         \/ /\ registry' = [registry EXCEPT ![j] = LaunchRecord(host)]
            /\ UNCHANGED <<statusFile, queue, quiet>>
         \/ /\ SaveStatus(j, LaunchRecord(host), LAUNCHING)
            /\ queue' \in {queue, EnqueuedIn(queue, j, host, host # None)}
         \/ /\ statusFile' = [statusFile EXCEPT ![j] = LAUNCHING]
            /\ quiet' = [quiet EXCEPT ![j] = FALSE]
            /\ registry' = [registry EXCEPT ![j] = Written(LaunchRecord(host), LAUNCHING, QUEUED)]
            /\ queue' = EnqueuedIn(queue, j, host, host # None)
    BY <1>2 DEF CrashLaunch
  <2>1. host \in Hosts /\ LaunchRecord(host) \in Record
    BY <1>a, RequestTypes, RecordTypes
  <2>2. EnqueuedIn(queue, j, host, host # None) \in SUBSET Entry
    BY <2>1, EnqueuedInType DEF TypeOK
  <2>3. Written(LaunchRecord(host), LAUNCHING, QUEUED) \in Record
    BY <2>1, WrittenType
  <2>4. OthersTyped' /\ HistoryTyped'
    BY <1>2, RestartTypes, HistoryTypes DEF CrashLaunch
  <2>5. queue' \in SUBSET Entry
    BY <2>2 DEF TypeOK
  <2>6. ASSUME SaveStatus(j, LaunchRecord(host), LAUNCHING) PROVE StoresTyped'
    BY <2>1, <2>5, <2>6, FileTypes
  <2>7. StoresTyped'
    BY <2>1, <2>3, <2>5, <2>6 DEF TypeOK, StoresTyped
  <2> QED
    BY <2>4, <2>7
<1>3. ASSUME NEW j \in Jobs, CrashStop(j) PROVE TypeOK'
  <2> DEFINE s == StopOutcome(StatusNow(j))
  <2>1. s \in Status
    BY <1>3, StopOutcomeType, StatusNowType DEF CrashStop
  <2>2. queue' \in SUBSET Entry
    BY <1>3, RemovedFromType DEF CrashStop, TypeOK
  <2>3. OthersTyped'
    BY <1>3, RestartTypes DEF CrashStop
  <2>4. StoresTyped'
    BY <1>3, <2>1, <2>2, FileTypes DEF CrashStop
  <2>5. HistoryTyped'
    BY <1>3, HistoryTypes DEF CrashStop
  <2> QED
    BY <2>3, <2>4, <2>5
<1>4. ASSUME NEW j \in Jobs, CrashSweep(j) PROVE TypeOK'
  <2> DEFINE entered == EnqueuedIn(queue, j, PreferredOf(registry[j]), registry[j].require)
  <2>1. PreferredOf(registry[j]) \in Hosts /\ registry[j].require \in BOOLEAN
    BY <1>a, RecordTypes DEF Record
  <2>2. entered \in SUBSET Entry
    BY <2>1, EnqueuedInType DEF TypeOK
  <2>3. OthersTyped'
    BY <1>4, RestartTypes DEF CrashSweep
  <2>4. queue' \in SUBSET Entry
    BY <1>4, <2>2 DEF CrashSweep, TypeOK
  <2>5. StoresTyped'
    BY <1>4, <2>4, FileTypes DEF CrashSweep
  <2>6. HistoryTyped'
    BY <1>4, HistoryTypes DEF CrashSweep
  <2> QED
    BY <2>3, <2>5, <2>6
<1>5. ASSUME NEW w \in Workers, CrashDispatch(w) PROVE TypeOK'
  <2> DEFINE j == poll[w].job
  <2>1. j \in Jobs /\ DispatchOutcome(j) \in Status
    BY <1>5, PollTypes DEF CrashDispatch, DispatchOutcome, TypeOK
  <2>2. queue' \in SUBSET Entry
    BY <1>5 DEF CrashDispatch, TypeOK
  <2>3. OthersTyped'
    BY <1>5, RestartTypes DEF CrashDispatch
  <2>4. StoresTyped'
    BY <1>5, <2>1, <2>2, FileTypes DEF CrashDispatch
  <2>5. HistoryTyped'
    BY <1>5, <2>1, HistoryTypes DEF CrashDispatch
  <2> QED
    BY <2>3, <2>4, <2>5
<1>6. ASSUME NEW a \in issued, NEW status \in AgentStatuses, CrashReport(a, status) PROVE TypeOK'
  <2> DEFINE j == a.job
             s == Reported(j, status)
             ms == {[n EXCEPT !.target = registry[j].target] :
                       n \in ReportedRecords(registry[j], statusFile[j], a, s)}
  <2>1. a \in Attempt /\ j \in Jobs /\ s \in Status
    BY RequestTypes DEF TypeOK, Attempt, Reported, Status
  <2>2. ms \in SUBSET Record
    <3>1. ReportedRecords(registry[j], statusFile[j], a, s) \subseteq Record
      BY <1>a, <2>1, ReportedTypes
    <3>2. registry[j].target \in Hosts
      BY <1>a, <2>1 DEF Record
    <3> HIDE DEF j, s
    <3> QED
      BY <3>1, <3>2 DEF Record
  <2>3. queue' \in SUBSET Entry
    BY <1>6, RemovedFromType DEF CrashReport, TypeOK
  <2>4. OthersTyped'
    BY <1>6, RestartTypes DEF CrashReport
  <2>5. FileOnly(j, s) \/ SaveOneOf(j, s, ms)
    BY <1>6 DEF CrashReport
  <2>6. HistoryTyped'
    BY <1>6, <2>1, ReportedHistory DEF CrashReport
  <2> HIDE DEF j, s, ms
  <2>7. StoresTyped'
    BY <2>1, <2>2, <2>3, <2>5, FileTypes
  <2> QED
    BY <2>4, <2>6, <2>7
<1>7. ASSUME NEW j \in Jobs, NEW force \in Forces, NEW host \in RequeueHosts,
             NEW mode \in RequeueModes, CrashRequeue(j, force, host, mode)
      PROVE  TypeOK'
  <2> DEFINE preferred == RequeueHost(registry[j], host, mode)
             require == RequeueRequire(registry[j], mode)
             entered == EnqueuedIn(queue, j, preferred, require)
  <2>1. preferred \in Hosts /\ require \in BOOLEAN
    BY <1>a, RequestTypes, RecordTypes
  <2>2. entered \in SUBSET Entry /\ RemovedFrom(queue, j) \in SUBSET Entry
    BY <2>1, EnqueuedInType, RemovedFromType DEF TypeOK
  <2>3. OthersTyped'
    BY <1>7, RestartTypes DEF CrashRequeue
  <2>4. queue' \in SUBSET Entry
    BY <1>7, <2>2 DEF CrashRequeue
  <2>5. StoresTyped'
    BY <1>7, <2>4, FileTypes DEF CrashRequeue
  <2>6. HistoryTyped'
    BY <1>7, HistoryTypes DEF CrashRequeue
  <2> QED
    BY <2>3, <2>5, <2>6
<1> QED
  BY <1>1, <1>2, <1>3, <1>4, <1>5, <1>6, <1>7 DEF CrashStep

\* The records a displaced operation may read, or leave.
SnapshotTyped == snapshot \in [Jobs -> Record]

LEMMA LoadedTypes ==
    ASSUME TypeOK, SnapshotTyped, NEW j \in Jobs
    PROVE  /\ Loaded(j) \subseteq Record
           /\ \A s \in Status : LeftOf(j, s) \subseteq Record
<1>1. Loaded(j) \subseteq Record
  BY DEF Loaded, TypeOK, SnapshotTyped
<1>2. ASSUME NEW s \in Status, NEW m \in Record
      PROVE  Left(m, statusFile[j], s) \subseteq Record
  <2> DEFINE n == Written(m, statusFile[j], s)
  <2>1. n \in Record
    BY <1>2, WrittenType
  <2> HIDE DEF n
  <2>2. /\ {m.status, s} \subseteq Status \cup {Absent}
        /\ {m.attempt, n.attempt} \subseteq Nat /\ {m.token, n.token} \subseteq Nat
    BY <1>2, <2>1 DEF Record
  <2>3. \A x \in Status \cup {Absent}, y \in Nat, z \in Nat :
          [n EXCEPT !.status = x, !.attempt = y, !.token = z] \in Record
    BY <2>1 DEF Record
  <2>4. Left(m, statusFile[j], s) =
          {[n EXCEPT !.status = x, !.attempt = y, !.token = z] :
              x \in {m.status, s}, y \in {m.attempt, n.attempt}, z \in {m.token, n.token}}
    BY DEF Left, n
  <2>5. ASSUME NEW l \in Left(m, statusFile[j], s) PROVE l \in Record
    <3> PICK x \in {m.status, s}, y \in {m.attempt, n.attempt}, z \in {m.token, n.token} :
           l = [n EXCEPT !.status = x, !.attempt = y, !.token = z]
      BY <2>4
    <3> QED
      BY <2>2, <2>3
  <2> QED
    BY <2>5
<1>3. \A s \in Status : LeftOf(j, s) \subseteq Record
  BY <1>1, <1>2 DEF LeftOf
<1> QED
  BY <1>1, <1>3

LEMMA ReportLeaves ==
    ASSUME NEW a \in Attempt, NEW s \in Status,
           LeftOf(a.job, s) \subseteq Record, Loaded(a.job) \subseteq Record
    PROVE  LeftOfReport(a, s) \subseteq Record
<1> DEFINE numbers == {m.attempt : m \in LeftOf(a.job, s)} \cup {a.number}
           hosts == {m.target : m \in Loaded(a.job)} \cup {a.worker}
           Set(n, x, y) == [n EXCEPT !.attempt = x, !.target = y]
<1>1. numbers \subseteq Nat /\ hosts \subseteq Hosts
  BY DEF Attempt, Record, Hosts
<1>2. \A n \in Record, x \in Nat, y \in Hosts : Set(n, x, y) \in Record
  BY DEF Record
<1>3. LeftOfReport(a, s) = {Set(n, x, y) : n \in LeftOf(a.job, s), x \in numbers, y \in hosts}
  BY DEF LeftOfReport
<1> HIDE DEF numbers, hosts, Set
<1> QED
  BY <1>1, <1>2, <1>3

LEMMA DisplacedReturnTypes ==
    ASSUME TypeOK, SnapshotTyped, NEW j \in Jobs, NEW m \in Record, NEW preferred \in Hosts,
           NEW require \in BOOLEAN, NEW forced,
           DisplacedReturn(j, m, preferred, require, forced)
    PROVE  TypeOK'
<1> DEFINE ms == LeftOfReturn(j, m, preferred, require, forced)
<1>1. ms \in SUBSET Record
  <2>1. Written(Returned(m, preferred, require), statusFile[j], QUEUED) \in Record
    BY StatusNames, RecordTypes, WrittenType
  <2>2. LeftOf(j, QUEUED) \subseteq Record
    BY StatusNames, LoadedTypes
  <2>3. \A n \in Record : [n EXCEPT !.preferred = preferred] \in Record
    BY DEF Record
  <2> QED
    <3>1. ASSUME NEW l \in ms PROVE l \in Record
      <4>1. \/ l = Written(Returned(m, preferred, require), statusFile[j], QUEUED)
            \/ l \in LeftOf(j, QUEUED)
            \/ \E n \in LeftOf(j, QUEUED) : l = [n EXCEPT !.preferred = preferred]
        BY <3>1 DEF LeftOfReturn
      <4> QED
        BY <2>1, <2>2, <2>3, <4>1
    <3> QED
      BY <3>1
<1>2. EnqueuedIn(queue, j, preferred, require) \in SUBSET Entry
  BY EnqueuedInType DEF TypeOK
<1>3. SaveOneOf(j, QUEUED, ms) /\ queue' \in SUBSET Entry
  BY <1>2 DEF DisplacedReturn
<1> HIDE DEF ms
<1>4. StoresTyped'
  BY <1>1, <1>3, StatusNames, FileTypes
<1>5. OthersTyped'
  BY DEF DisplacedReturn, TypeOK, OthersTyped, worlds
<1>6. HistoryTyped'
  BY HistoryTypes DEF DisplacedReturn
<1> QED
  BY <1>4, <1>5, <1>6, TypeParts

LEMMA DisplacedTypeStep == TypeOK /\ SnapshotTyped /\ DisplacedStep => TypeOK'
<1> USE StatusNames, TypeParts DEF history, worlds
<1> SUFFICES ASSUME TypeOK, SnapshotTyped, DisplacedStep PROVE TypeOK'
  OBVIOUS
<1>a. \A j \in Jobs : registry[j] \in Record
  BY DEF TypeOK
<1>1. ASSUME NEW w \in Workers, DisplacedSkip(w) PROVE TypeOK'
  BY <1>1, AfterDispatchType DEF DisplacedSkip, stores, TypeOK
<1>2. ASSUME NEW w \in Workers, DisplacedDispatch(w) PROVE TypeOK'
  <2> DEFINE j == poll[w].job
             Att(m) == [job |-> j, worker |-> w, number |-> m.attempt + 1,
                        token |-> IF poll[w].fencing THEN grants + 1 ELSE 0]
             Saved(m) == {Written(Granted(m, w, poll[w].fencing), statusFile[j], DISPATCHED)}
                         \cup LeftOf(j, DISPATCHED)
  <2>1. j \in Jobs /\ poll[w].fencing \in BOOLEAN
    BY <1>2, PollTypes DEF DisplacedDispatch, TypeOK
  <2>2. PICK m \in Loaded(j) :
           /\ SaveOneOf(j, DISPATCHED, Saved(m))
           /\ issued' = issued \cup {Att(m)}
           /\ owner' = [owner EXCEPT ![j] = Att(m)]
           /\ AfterDispatch(w, "done", Att(m))
    BY <1>2 DEF DisplacedDispatch
  <2>3. m \in Record
    BY <2>1, LoadedTypes
  <2>4. Att(m) \in Attempt
    <3>1. m.attempt + 1 \in Nat \ {0} /\ grants + 1 \in Nat
      BY <2>3 DEF Record, TypeOK
    <3> QED
      BY <2>1, <3>1 DEF Attempt
  <2>5. Saved(m) \in SUBSET Record
    <3>1. Granted(m, w, poll[w].fencing) \in Record
      BY <2>1, <2>3, GrantedType DEF TypeOK
    <3> QED
      BY <2>1, <3>1, WrittenType, LoadedTypes
  <2>6. /\ grants' = grants + 1
        /\ ByOrchestrator(j)
        /\ poll[w].pc = "claimed"
        /\ UNCHANGED <<queue, worlds, returns>>
    BY <1>2 DEF DisplacedDispatch
  <2> HIDE DEF j, Att, Saved
  <2>7. StoresTyped'
    BY <2>1, <2>2, <2>5, <2>6, FileTypes DEF TypeOK
  <2>8. OthersTyped'
    BY <2>2, <2>4, <2>6, AfterDispatchType DEF TypeOK, OthersTyped
  <2>9. HistoryTyped'
    BY <2>1, <2>2, <2>4, <2>6, HistoryType DEF TypeOK, HistoryTyped
  <2> QED
    BY <2>7, <2>8, <2>9
<1>3. ASSUME NEW a \in issued, NEW status \in AgentStatuses, DisplacedReport(a, status)
      PROVE  TypeOK'
  <2> DEFINE j == a.job
             s == Reported(j, status)
             ms == LeftOfReport(a, s)
  <2>1. a \in Attempt /\ j \in Jobs /\ a.worker \in Workers /\ a.number \in Nat /\ s \in Status
    BY RequestTypes DEF TypeOK, Attempt, Reported, Status
  <2>2. SaveOneOf(j, s, ms)
    BY <1>3 DEF DisplacedReport
  <2>3. LeftOf(j, s) \subseteq Record /\ Loaded(j) \subseteq Record
    BY <2>1, LoadedTypes
  <2>4. queue' \in SUBSET Entry
    BY <1>3, RemovedFromType DEF DisplacedReport, TypeOK
  <2>5. OthersTyped'
    BY <1>3, <2>1 DEF DisplacedReport, TypeOK, OthersTyped, Beat
  <2>6. HistoryTyped'
    BY <1>3, <2>1, ReportedHistory DEF DisplacedReport
  <2> HIDE DEF j, s
  <2>7. ms \in SUBSET Record
    BY <2>1, <2>3, ReportLeaves DEF j
  <2> HIDE DEF ms
  <2>8. StoresTyped'
    BY <2>1, <2>2, <2>4, <2>7, FileTypes
  <2> QED
    BY <2>5, <2>6, <2>8
<1>4. ASSUME NEW j \in Jobs, DisplacedStop(j) PROVE TypeOK'
  <2> DEFINE s == StopOutcome(StatusNow(j))
  <2>1. s \in Status
    BY <1>4, StopOutcomeType, StatusNowType DEF DisplacedStop
  <2>2. LeftOf(j, s) \in SUBSET Record
    BY <2>1, LoadedTypes
  <2>3. queue' \in SUBSET Entry /\ SaveOneOf(j, s, LeftOf(j, s))
    BY <1>4, RemovedFromType DEF DisplacedStop, TypeOK
  <2>4. OthersTyped' /\ HistoryTyped'
    BY <1>4, HistoryTypes DEF DisplacedStop, TypeOK, OthersTyped
  <2> HIDE DEF s
  <2>5. StoresTyped'
    BY <2>1, <2>2, <2>3, FileTypes
  <2> QED
    BY <2>4, <2>5
<1>5. ASSUME NEW j \in Jobs, DisplacedSweep(j) PROVE TypeOK'
  <2> PICK m \in Loaded(j) :
         \/ DisplacedReturn(j, m, PreferredOf(m), m.require, FALSE)
         \/ /\ Fault
            /\ SaveOneOf(j, FAILED, {Written(m, statusFile[j], FAILED)})
            /\ ByOrchestrator(j)
            /\ UNCHANGED <<queue, poll, issued, grants, worlds, returns, owner>>
    BY <1>5 DEF DisplacedSweep
  <2>1. m \in Record
    BY LoadedTypes
  <2>2. CASE DisplacedReturn(j, m, PreferredOf(m), m.require, FALSE)
    <3>1. PreferredOf(m) \in Hosts /\ m.require \in BOOLEAN
      BY <2>1, RecordTypes DEF Record
    <3> QED
      BY <2>1, <2>2, <3>1, DisplacedReturnTypes
  <2>3. CASE /\ SaveOneOf(j, FAILED, {Written(m, statusFile[j], FAILED)})
             /\ ByOrchestrator(j)
             /\ UNCHANGED <<queue, poll, issued, grants, worlds, returns, owner>>
    <3>1. {Written(m, statusFile[j], FAILED)} \in SUBSET Record
      BY <2>1, WrittenType
    <3>2. StoresTyped'
      BY <2>3, <3>1, FileTypes DEF TypeOK
    <3>3. OthersTyped' /\ HistoryTyped'
      BY <2>3, HistoryTypes DEF TypeOK, OthersTyped
    <3> QED
      BY <3>2, <3>3
  <2> QED
    BY <2>2, <2>3
<1>6. ASSUME NEW j \in Jobs, NEW force \in Forces, NEW host \in RequeueHosts,
             NEW mode \in RequeueModes, DisplacedRequeue(j, force, host, mode)
      PROVE  TypeOK'
  <2> PICK m \in Loaded(j) :
         DisplacedReturn(j, m, RequeueHost(m, host, mode), RequeueRequire(m, mode),
                         force \/ StatusNow(j) \in Terminal)
    BY <1>6 DEF DisplacedRequeue
  <2>1. m \in Record
    BY LoadedTypes
  <2>2. RequeueHost(m, host, mode) \in Hosts /\ RequeueRequire(m, mode) \in BOOLEAN
    BY <2>1, RequestTypes, RecordTypes
  <2> QED
    BY <2>1, <2>2, DisplacedReturnTypes
<1> QED
  BY <1>1, <1>2, <1>3, <1>4, <1>5, <1>6 DEF DisplacedStep

LEMMA FaultsAre ==
    CrashStep \/ DisplacedStep => Fault
<1>1. CrashStep => Fault
  BY DEF CrashStep, Crash, CrashLaunch, CrashStop, CrashSweep, CrashDispatch,
         CrashReport, CrashRequeue, Restart
<1>2. DisplacedStep => Fault
  BY DEF DisplacedStep, DisplacedStop, DisplacedSweep, DisplacedSkip,
         DisplacedDispatch, DisplacedReport, DisplacedRequeue, DisplacedReturn
<1> QED
  BY <1>1, <1>2

LEMMA FaultsBounded ==
    faults \in 0 .. MaxFaults /\ [CrashNext]_crashVars => faults' \in 0 .. MaxFaults
<1>1. faults \in 0 .. MaxFaults /\ Fault => faults' \in 0 .. MaxFaults
  BY FaultBound DEF Fault
<1> QED
  BY <1>1, FaultsAre DEF CrashNext, LoadJobs, crashVars

LEMMA SnapshotTypes ==
    TypeOK /\ SnapshotTyped /\ [CrashNext]_crashVars => SnapshotTyped'
<1>1. NoRecord \in Record
  BY DEF NoRecord, Record, Hosts
<1>2. Fault => SnapshotTyped'
  BY <1>1 DEF Fault, NothingLoaded, SnapshotTyped
<1>3. TypeOK /\ LoadJobs => SnapshotTyped'
  BY DEF LoadJobs, TypeOK, SnapshotTyped
<1> QED
  BY <1>2, <1>3, FaultsAre DEF CrashNext, crashVars, SnapshotTyped

LEMMA CrashTypesStep == CrashTypeOK /\ [CrashNext]_crashVars => CrashTypeOK'
<1>1. TypeOK /\ SnapshotTyped /\ [CrashNext]_crashVars => TypeOK'
  BY TypeStep, CrashTypeStep, DisplacedTypeStep DEF CrashNext, LoadJobs, crashVars
<1> QED
  BY <1>1, FaultsBounded, SnapshotTypes DEF CrashTypeOK, SnapshotTyped

\* However often the orchestrator is killed between two writes, or a record displaced,
\* what is in the stores is of the shapes every handler expects.
THEOREM FaultsKeepTypes == CrashSpec => []CrashTypeOK
<1>1. CrashInit => CrashTypeOK
  <2>1. NothingLoaded \in [Jobs -> Record]
    BY DEF NothingLoaded, NoRecord, Record, Hosts
  <2> QED
    BY <2>1, TypeInit, FaultBound DEF CrashInit, CrashTypeOK
<1> QED
  BY <1>1, CrashTypesStep, PTL DEF CrashSpec

\* A job that was told to stop: operations that were cut short or displaced either do
\* not touch it, end it, or are a forced requeue.
LEMMA FaultsStand ==
    ASSUME DefiniteReports, TypeOK, CrashStep \/ DisplacedStep,
           NEW k \in Jobs, statusFile[k] = STOP_REQUESTED
    PROVE  Stands(k)
<1> USE DEF Stands
<1>a. /\ StatusNow(k) = STOP_REQUESTED
      /\ ~Writable(STOP_REQUESTED, LAUNCHING) /\ ~Writable(STOP_REQUESTED, QUEUED)
      /\ STOP_REQUESTED \notin Terminal \cup {QUEUED, LAUNCHING, DISPATCHED, SETUP}
      /\ StopOutcome(STOP_REQUESTED) = STOP_REQUESTED
      /\ FAILED \in Terminal
  BY DEF StatusNow, StopOutcome, Writable, can_transition, AllowedFrom, Terminal, Absent,
         LAUNCHING, QUEUED, DISPATCHED, SETUP, RUNNING, RECOVERING, FINISHED, FAILED,
         STOP_REQUESTED, STOPPED, NOT_FOUND, UNKNOWN, CANCELED
<1>b. \A force \in Forces : RequeueAccepted(k, force) => TRUE \in Forces
  BY <1>a, RequestTypes DEF RequeueAccepted
<1>c. ASSUME NEW j \in Jobs, NEW s,
             statusFile' = [statusFile EXCEPT ![j] = s] \/ statusFile' = statusFile,
             k = j => s \in Terminal \cup {STOP_REQUESTED}
      PROVE  Stands(k)
  BY <1>c DEF TypeOK
<1>1. Crash => Stands(k)
  BY DEF Crash, stores
<1>2. ASSUME NEW j \in Jobs, CrashLaunch(j) PROVE Stands(k)
  <2>1. k # j
    BY <1>2, <1>a DEF CrashLaunch, Launchable
  <2> QED
    BY <1>2, <1>c, <2>1 DEF CrashLaunch, SaveStatus
<1>3. ASSUME NEW j \in Jobs, CrashStop(j) \/ DisplacedStop(j) PROVE Stands(k)
  <2>1. k # j
    BY <1>3, <1>a DEF CrashStop, DisplacedStop
  <2> QED
    BY <1>3, <1>c, <2>1 DEF CrashStop, DisplacedStop, NothingWritten, FileOnly, SaveOneOf
<1>4. ASSUME NEW j \in Jobs, CrashSweep(j) PROVE Stands(k)
  <2>1. CASE StatusNow(j) \in {DISPATCHED, SETUP}
    <3>1. k # j
      BY <1>a, <2>1
    <3> QED
      BY <1>4, <1>c, <2>1, <3>1 DEF CrashSweep, NothingWritten, FileOnly
  <2>2. CASE StatusNow(j) \notin {DISPATCHED, SETUP}
    BY <1>4, <1>a, <1>c, <2>2 DEF CrashSweep, FileOnly
  <2> QED
    BY <2>1, <2>2
<1>5. ASSUME NEW w \in Workers, CrashDispatch(w) \/ DisplacedDispatch(w) PROVE Stands(k)
  <2>1. k # poll[w].job
    BY <1>5, <1>a DEF CrashDispatch, DisplacedDispatch, Dispatchable
  <2> QED
    BY <1>5, <2>1 DEF CrashDispatch, DisplacedDispatch, FileOnly, SaveOneOf, TypeOK
<1>6. ASSUME NEW w \in Workers, DisplacedSkip(w) PROVE Stands(k)
  BY <1>6 DEF DisplacedSkip, stores
<1>7. ASSUME NEW a \in issued, NEW status \in AgentStatuses,
             CrashReport(a, status) \/ DisplacedReport(a, status)
      PROVE  Stands(k)
  <2> DEFINE j == a.job
             s == Reported(j, status)
  <2>1. Writable(statusFile[j], s) /\ statusFile' = [statusFile EXCEPT ![j] = s]
    BY <1>7 DEF CrashReport, DisplacedReport, FileOnly, SaveOneOf
  <2>2. j \in Jobs
    BY DEF TypeOK, Attempt
  <2>3. s \in Status \ {UNKNOWN, NOT_FOUND}
    <3>1. status \in Status \ {UNKNOWN, NOT_FOUND}
      BY RequestTypes DEF DefiniteReports
    <3> QED
      BY <3>1 DEF Reported, Status, STOP_REQUESTED, UNKNOWN, NOT_FOUND
  <2> HIDE DEF j, s
  <2>4. k = j => s \in Terminal \cup {STOP_REQUESTED}
    BY <2>1, <2>3, NoWayOut
  <2> QED
    BY <1>c, <2>1, <2>2, <2>4
<1>8. ASSUME NEW j \in Jobs, NEW force \in Forces, NEW host \in RequeueHosts,
             NEW mode \in RequeueModes,
             CrashRequeue(j, force, host, mode) \/ DisplacedRequeue(j, force, host, mode)
      PROVE  Stands(k)
  <2>1. \/ statusFile' = statusFile
        \/ /\ RequeueAccepted(j, force)
           /\ statusFile' = [statusFile EXCEPT ![j] = QUEUED]
           /\ owner' = [owner EXCEPT ![j] = NoAttempt]
    BY <1>8 DEF CrashRequeue, DisplacedRequeue, DisplacedReturn, NothingWritten, FileOnly,
                SaveOneOf, Revoke
  <2>2. CASE k = j
    BY <1>b, <2>1, <2>2 DEF TypeOK
  <2>3. CASE k # j
    BY <2>1, <2>3 DEF TypeOK
  <2> QED
    BY <2>2, <2>3
<1>9. ASSUME NEW j \in Jobs, DisplacedSweep(j) PROVE Stands(k)
  <2>1. CASE StatusNow(j) \in {DISPATCHED, SETUP}
    <3>1. k # j /\ statusFile' = [statusFile EXCEPT ![j] = QUEUED]
      BY <1>9, <1>a, <2>1 DEF DisplacedSweep, DisplacedReturn, SaveOneOf
    <3> QED
      BY <1>c, <3>1
  <2>2. CASE StatusNow(j) \notin {DISPATCHED, SETUP}
    <3>1. statusFile' = [statusFile EXCEPT ![j] = FAILED]
      BY <1>9, <2>2 DEF DisplacedSweep, SaveOneOf
    <3> QED
      BY <1>a, <1>c, <3>1
  <2> QED
    BY <2>1, <2>2
<1> QED
  BY <1>1, <1>2, <1>3, <1>4, <1>5, <1>6, <1>7, <1>8, <1>9 DEF CrashStep, DisplacedStep

\* A requested stop survives the faults: no request that is cut short and no save that is
\* displaced brings the job back to life (_write_status after each read of status.json).
THEOREM StopsStandDespiteFaults ==
    ASSUME DefiniteReports
    PROVE  CrashSpec => StopIsKept
<1>1. CrashTypeOK /\ [CrashNext]_crashVars =>
        [\A j \in Jobs : statusFile[j] = STOP_REQUESTED =>
            \/ statusFile'[j] \in Terminal \cup {STOP_REQUESTED}
            \/ TRUE \in Forces /\ statusFile'[j] = QUEUED /\ owner'[j] = NoAttempt]_vars
  <2> SUFFICES ASSUME CrashTypeOK, [CrashNext]_crashVars,
                      NEW j \in Jobs, statusFile[j] = STOP_REQUESTED
               PROVE  \/ statusFile'[j] \in Terminal \cup {STOP_REQUESTED}
                      \/ TRUE \in Forces /\ statusFile'[j] = QUEUED /\ owner'[j] = NoAttempt
    OBVIOUS
  <2>1. TypeOK
    BY DEF CrashTypeOK
  <2>2. Stands(j)
    <3>1. [Next]_vars \/ CrashStep \/ DisplacedStep
      BY DEF CrashNext, LoadJobs, crashVars
    <3> QED
      BY <2>1, <3>1, StandsStep, FaultsStand
  <2> QED
    BY <2>2 DEF Stands
<1> QED
  BY <1>1, FaultsKeepTypes, PTL DEF CrashSpec, StopIsKept

-----------------------------------------------------------------------------
(* Requests without a lock. *)

LEMMA OpsGrant == OpsStep => UNCHANGED <<issued, grants>>
BY DEF OpsStep, OpsRead, OpsCheck, OpsDequeue, OpsPersist, OpsWrite, OpsSave, PurgeRead,
       PurgeEntry, ListRead, ListRepair, LaunchBegin, LaunchEnqueue, LaunchPersist, vars

\* An old copy of the record, saved by an operator's request, a launch or a
\* listing, may bring a token back, but never lets two attempts report.
THEOREM OneAttemptDespiteCopies == OpsSpec => []OneValidAttempt
<1>1. OpsInit => TokenInv
  BY DEF OpsInit, Init, TokenInv, TokensDistinct
<1>2. TokenInv /\ [OpsNext]_opsVars => TokenInv'
  <2>1. UNCHANGED opsVars => GrantsAtMostOne
    BY DEF opsVars, vars, GrantsAtMostOne
  <2>2. Others => GrantsAtMostOne
    BY PollStepGrants, OthersGrant DEF Others, GrantsAtMostOne
  <2>3. OpsStep => GrantsAtMostOne
    BY OpsGrant DEF GrantsAtMostOne
  <2> QED
    BY <2>1, <2>2, <2>3, GrantsKeepTokens DEF OpsNext
<1> QED
  BY <1>1, <1>2, TokensTellApart, PTL DEF OpsSpec

\* What the requests hold and save has the shapes of the rest.
LEMMA OpsTypeStep == OpsTypeOK /\ [OpsNext]_opsVars => OpsTypeOK'
<1> USE StatusNames, TypeParts DEF history, worlds
<1> SUFFICES ASSUME OpsTypeOK, [OpsNext]_opsVars PROVE OpsTypeOK'
  OBVIOUS
<1>a. /\ TypeOK /\ request \in Request
      /\ \A j \in Jobs : registry[j] \in Record
      /\ NoRequest \in Request
  BY DEF OpsTypeOK, TypeOK, Request
<1>b. NoRecord \in Record
  BY DEF NoRecord, Record, Hosts
<1>c. UNCHANGED vars => TypeOK'
  BY <1>a, TypeStep
<1>d. request.pc # "idle" =>
        /\ request.job \in Jobs /\ request.meta \in Record
        /\ request.outcome \in {FAILED, CANCELED, LAUNCHING, QUEUED}
        /\ request.force \in BOOLEAN
        /\ \A pc \in {"checked", "dequeued", "persisted", "written", "launched", "enqueued"} :
             [request EXCEPT !.pc = pc] \in Request
  BY <1>a DEF Request, NoRequest
<1>e. {FAILED, CANCELED, LAUNCHING, QUEUED} \subseteq Status
  BY DEF Status
<1>f. \A m \in Record, s \in Status : [m EXCEPT !.status = s] \in Record
  BY DEF Record
<1>g. request.pc # "idle" =>
        /\ [request EXCEPT !.pc = "persisted", !.outcome = QUEUED] \in Request
        /\ \A m \in Record : [request EXCEPT !.pc = "written", !.meta = m] \in Request
  <2> SUFFICES ASSUME request.pc # "idle"
               PROVE  /\ [request EXCEPT !.pc = "persisted", !.outcome = QUEUED] \in Request
                      /\ \A m \in Record : [request EXCEPT !.pc = "written", !.meta = m] \in Request
    OBVIOUS
  <2> DEFINE Pending ==
        [pc : {"read", "checked", "dequeued", "persisted", "written", "purge", "launched",
               "enqueued", "listing"},
         job : Jobs, outcome : {FAILED, CANCELED, LAUNCHING, QUEUED}, force : BOOLEAN,
         meta : Record]
  <2>1. request \in Pending
    BY <1>a DEF Request, NoRequest
  <2>2. [request EXCEPT !.pc = "persisted", !.outcome = QUEUED] \in Pending
    BY <2>1
  <2>3. \A m \in Record : [request EXCEPT !.pc = "written", !.meta = m] \in Pending
    BY <2>1
  <2>4. Pending \subseteq Request
    BY DEF Request
  <2> HIDE DEF Pending
  <2> QED
    BY <2>2, <2>3, <2>4
<1>1. ASSUME NEW j \in Jobs, NEW outcome \in {FAILED, CANCELED}, NEW force \in OpsForces,
             OpsRead(j, outcome, force)
      PROVE  OpsTypeOK'
  BY <1>1, <1>a, <1>c, OpsForceType DEF OpsRead, OpsTypeOK, Request
<1>2. ASSUME OpsCheck PROVE OpsTypeOK'
  BY <1>2, <1>a, <1>c, <1>d DEF OpsCheck, OpsTypeOK
<1>3. ASSUME OpsDequeue PROVE OpsTypeOK'
  <2>1. request' \in Request
    BY <1>3, <1>d DEF OpsDequeue
  <2>2. queue' \in SUBSET Entry
    BY <1>3, <1>a, RemovedFromType DEF OpsDequeue, TypeOK
  <2> QED
    BY <1>3, <1>a, <2>1, <2>2 DEF OpsDequeue, OpsTypeOK, TypeOK
<1>4. ASSUME OpsPersist PROVE OpsTypeOK'
  <2>1. request' \in Request
    BY <1>4, <1>d DEF OpsPersist
  <2>2. [request.meta EXCEPT !.status = request.outcome] \in Record
    BY <1>4, <1>d, <1>e, <1>f DEF OpsPersist
  <2> QED
    BY <1>4, <1>a, <2>1, <2>2 DEF OpsPersist, OpsTypeOK, TypeOK
<1>5. ASSUME NEW j \in Jobs, NEW host \in LaunchHosts, LaunchBegin(j, host) PROVE OpsTypeOK'
  <2>1. LaunchRecord(host) \in Record
    BY <1>a, RequestTypes, RecordTypes
  <2>2. request' \in Request
    BY <1>5, <2>1 DEF LaunchBegin, Request
  <2> QED
    BY <1>5, <1>a, <2>1, <2>2 DEF LaunchBegin, OpsTypeOK, TypeOK
<1>6. ASSUME LaunchEnqueue PROVE OpsTypeOK'
  <2> DEFINE host == request.meta.preferred
  <2>1. host \in Hosts /\ request.job \in Jobs /\ request' \in Request
    BY <1>6, <1>d DEF LaunchEnqueue, Record
  <2>2. EnqueuedIn(queue, request.job, host, host # None) \in SUBSET Entry
    BY <1>a, <2>1, EnqueuedInType DEF TypeOK
  <2> QED
    BY <1>6, <1>a, <2>1, <2>2 DEF LaunchEnqueue, OpsTypeOK, TypeOK
<1>7. ASSUME LaunchPersist PROVE OpsTypeOK'
  <2>1. [request EXCEPT !.pc = "persisted", !.outcome = QUEUED] \in Request
    BY <1>7, <1>d, <1>g DEF LaunchPersist
  <2>2. [request.meta EXCEPT !.status = QUEUED] \in Record
    BY <1>7, <1>d, <1>f DEF LaunchPersist
  <2> QED
    BY <1>7, <1>a, <2>1, <2>2 DEF LaunchPersist, OpsTypeOK, TypeOK
<1>8. ASSUME OpsWrite PROVE OpsTypeOK'
  <2> DEFINE j == request.job
             s == request.outcome
             m == IF s = QUEUED THEN Written(registry[j], statusFile[j], s) ELSE request.meta
  <2>1. j \in Jobs /\ s \in Status /\ request.pc = "persisted"
    BY <1>8, <1>d, <1>e DEF OpsWrite
  <2>2. m \in Record
    BY <1>a, <1>d, <2>1, WrittenType
  <2>3. [request EXCEPT !.pc = "written", !.meta = m] \in Request
    <3> HIDE DEF m
    <3> QED
      BY <1>g, <2>1, <2>2
  <2>4. CASE /\ statusFile' = [statusFile EXCEPT ![j] = s]
             /\ quiet' = [quiet EXCEPT ![j] = FALSE]
             /\ ByOrchestrator(j)
             /\ owner' = IF s = QUEUED THEN [owner EXCEPT ![j] = NoAttempt] ELSE owner
             /\ request' = [request EXCEPT !.pc = "written", !.meta = m]
    <3>1. HistoryTyped'
      BY <1>a, <2>1, <2>4, HistoryTypes DEF Revoke
    <3>2. StoresTyped' /\ OthersTyped'
      BY <1>8, <1>a, <2>1, <2>4 DEF OpsWrite, TypeOK, StoresTyped, OthersTyped
    <3> QED
      BY <2>3, <2>4, <3>1, <3>2 DEF OpsTypeOK
  <2>5. CASE UNCHANGED <<statusFile, quiet, history>> /\ request' = NoRequest
    BY <1>8, <1>a, <2>5 DEF OpsWrite, OpsTypeOK, TypeOK
  <2> QED
    BY <1>8, <2>4, <2>5 DEF OpsWrite
<1>9. ASSUME OpsSave PROVE OpsTypeOK'
  <2> DEFINE j == request.job
             s == request.outcome
  <2>1. j \in Jobs /\ s \in Status /\ request.meta \in Record
    BY <1>9, <1>d, <1>e DEF OpsSave
  <2>2. request' \in Request
    BY <1>9, <1>a, <1>d DEF OpsSave
  <2>3. registry' = [registry EXCEPT ![j] = [registry[j] EXCEPT !.status = s]]
        \/ registry' = [registry EXCEPT ![j] = request.meta]
    BY <1>9 DEF OpsSave
  <2>4. [registry[j] EXCEPT !.status = s] \in Record
    BY <1>a, <1>f, <2>1
  <2>5. registry' \in [Jobs -> Record]
    BY <1>a, <2>1, <2>3, <2>4 DEF TypeOK
  <2> QED
    BY <1>9, <1>a, <2>2, <2>5 DEF OpsSave, OpsTypeOK, TypeOK
<1>10. ASSUME NEW j \in Jobs, NEW force \in OpsForces, PurgeRead(j, force) PROVE OpsTypeOK'
  <2>1. request' = [NoRequest EXCEPT !.pc = "purge", !.job = j, !.force = force]
    BY <1>10 DEF PurgeRead
  <2>2. request' \in Request
    BY <1>b, <2>1, OpsForceType DEF NoRequest, Request
  <2> QED
    BY <1>10, <1>c, <2>2 DEF PurgeRead, OpsTypeOK
<1>11. ASSUME PurgeEntry PROVE OpsTypeOK'
  <2>1. queue' \in SUBSET Entry
    BY <1>11, <1>a, RemovedFromType DEF PurgeEntry, TypeOK
  <2> QED
    BY <1>11, <1>a, <2>1 DEF PurgeEntry, OpsTypeOK, TypeOK
<1>12. ASSUME NEW j \in Jobs, ListRead(j) PROVE OpsTypeOK'
  <2>1. request' = [NoRequest EXCEPT !.pc = "listing", !.job = j, !.meta = registry[j]]
    BY <1>12 DEF ListRead
  <2>2. request' \in Request
    BY <1>a, <2>1 DEF NoRequest, Request
  <2> QED
    BY <1>12, <1>c, <2>2 DEF ListRead, OpsTypeOK
<1>13. ASSUME ListRepair PROVE OpsTypeOK'
  <2> DEFINE j == request.job
             s == StatusNow(j)
  <2>1. j \in Jobs /\ request.meta \in Record
    BY <1>13, <1>d DEF ListRepair
  <2>2. [request.meta EXCEPT !.status = s] \in Record
    <3>1. s \in Status \cup {Absent}
      BY <1>a, <2>1 DEF StatusNow, TypeOK, Record
    <3> HIDE DEF s
    <3> QED
      BY <2>1, <3>1 DEF Record
  <2>3. registry' \in [Jobs -> Record]
    BY <1>13, <1>a, <2>1, <2>2 DEF ListRepair, TypeOK
  <2> QED
    BY <1>13, <1>a, <2>3 DEF ListRepair, OpsTypeOK, TypeOK
<1>14. ASSUME Others, UNCHANGED request PROVE OpsTypeOK'
  <2>1. Next
    BY <1>14 DEF Others, Next
  <2> QED
    BY <1>14, <1>a, <2>1, TypeStep DEF OpsTypeOK
<1>15. CASE UNCHANGED opsVars
  BY <1>15, <1>a, <1>c DEF opsVars, OpsTypeOK
<1> QED
  BY <1>1, <1>2, <1>3, <1>4, <1>5, <1>6, <1>7, <1>8, <1>9, <1>10, <1>11, <1>12, <1>13, <1>14,
     <1>15 DEF OpsNext, OpsStep

\* Copies of records saved without a lock are still records (ops_fail_job,
\* ops_cancel_job, ops_cleanup_queue, list_jobs, launch_simulation).
THEOREM OpsKeepTypes == OpsSpec => []OpsTypeOK
<1>1. OpsInit => OpsTypeOK
  BY TypeInit DEF OpsInit, OpsTypeOK, Request
<1> QED
  BY <1>1, OpsTypeStep, PTL DEF OpsSpec

\* A request without force checks again when it writes, and the table leads from no
\* outcome to another.
LEMMA OnlyForceOverwrites ==
    ASSUME OpsTypeOK, OpsStep, NEW j \in Jobs, statusFile[j] \in Terminal,
           statusFile'[j] # statusFile[j]
    PROVE  request.job = j /\ request.force /\ request.pc = "persisted"
<1>1. OpsWrite
  BY DEF OpsStep, OpsRead, OpsCheck, OpsDequeue, OpsPersist, OpsSave, PurgeRead, PurgeEntry,
         ListRead, ListRepair, LaunchBegin, LaunchEnqueue, LaunchPersist, vars
<1>2. request.job = j /\ request.pc = "persisted" /\ statusFile'[j] = request.outcome
      /\ (Overwrites \/ Writable(statusFile[j], request.outcome))
  BY <1>1 DEF OpsWrite, OpsTypeOK, TypeOK
<1>3. request.outcome \in {FAILED, CANCELED, LAUNCHING, QUEUED}
  BY DEF OpsTypeOK, Request, NoRequest
<1>4. {FAILED, CANCELED, QUEUED} \subseteq Status \ {UNKNOWN, NOT_FOUND, LAUNCHING}
  BY DEF Status, LAUNCHING, QUEUED, FAILED, NOT_FOUND, UNKNOWN, CANCELED
<1>5. ~Writable(statusFile[j], request.outcome)
  BY <1>2, <1>3, <1>4, NoWayOut
<1> QED
  BY <1>2, <1>5 DEF Overwrites

\* An outcome gives way to a requeue, or to an operator's request with force, and to
\* nothing else: not to a request that found the job running and writes when it has
\* ended, nor to a launch that goes on after its job was canceled (ops_fail_job,
\* ops_cancel_job and the launch, through _write_status).
THEOREM OutcomesNeedForce ==
    ASSUME DefiniteReports
    PROVE  OpsSpec => OutcomeNeedsForce
<1>1. OpsTypeOK /\ [OpsNext]_opsVars =>
        [\A j \in Jobs : (statusFile[j] \in Terminal /\ statusFile'[j] # statusFile[j])
          => \/ statusFile'[j] = QUEUED /\ owner'[j] = NoAttempt /\ request' = request
             \/ request.job = j /\ request.force /\ request.pc = "persisted"]_opsVars
  <2> SUFFICES ASSUME OpsTypeOK, OpsNext, NEW j \in Jobs, statusFile[j] \in Terminal,
                      statusFile'[j] # statusFile[j]
               PROVE  \/ statusFile'[j] = QUEUED /\ owner'[j] = NoAttempt /\ request' = request
                      \/ request.job = j /\ request.force /\ request.pc = "persisted"
    OBVIOUS
  <2>1. CASE OpsStep
    BY <2>1, OnlyForceOverwrites
  <2>2. CASE Others /\ UNCHANGED request
    <3>1. Next /\ TypeOK
      BY <2>2 DEF Others, Next, OpsTypeOK
    <3>2. Stands(j)
      BY <3>1, StandsStep
    <3>3. STOP_REQUESTED \notin Terminal
      BY DEF Terminal, STOP_REQUESTED, FINISHED, FAILED, STOPPED, CANCELED
    <3> QED
      BY <2>2, <3>2, <3>3 DEF Stands
  <2> QED
    BY <2>1, <2>2 DEF OpsNext
<1> QED
  BY <1>1, OpsKeepTypes, PTL DEF OpsSpec, OutcomeNeedsForce

-----------------------------------------------------------------------------
(* Recovery requests (UnionRecovery).                                       *)

\* The numbers of the requests only grow: what is on disk is at least the request the
\* status was written for, and no command is ahead of that.
RequestInv ==
    /\ ids \in Nat
    /\ requestFile \in [Jobs -> Nat]
    /\ requested \in [Jobs -> Nat]
    /\ accepted \in [Jobs -> Nat]
    /\ commands \in Seq(Command)
    /\ recovery \in [pc : {"idle", "checked", "requested", "recorded"},
                     job : Jobs \cup {None}, id : Nat]
    /\ \A j \in Jobs : requested[j] <= requestFile[j] /\ requestFile[j] <= ids
                      /\ accepted[j] <= ids
    /\ \A i \in DOMAIN commands :
         commands[i].job # None => commands[i].id <= accepted[commands[i].job]

\* Where the request in progress stands.
ProgressInv ==
    /\ recovery.pc # "idle" => recovery.job \in Jobs /\ 0 < recovery.id /\ recovery.id <= ids
    /\ recovery.pc \in {"checked", "requested"} =>
         /\ requested[recovery.job] <= recovery.id
         /\ accepted[recovery.job] <= recovery.id
    /\ recovery.pc = "requested" => requestFile[recovery.job] = recovery.id
    /\ recovery.pc = "recorded" => accepted[recovery.job] = recovery.id

\* Steps that leave the requests alone, or forget one.
RequestsKept ==
    /\ UNCHANGED requestVars
    /\ \/ requested' = requested
       \/ /\ requested' \in [Jobs -> Nat]
          /\ \A j \in Jobs : requested'[j] <= requested[j]

LEMMA RequestsStand == RequestInv /\ ProgressInv /\ RequestsKept => RequestInv' /\ ProgressInv'
<1> SUFFICES ASSUME RequestInv, ProgressInv, RequestsKept PROVE RequestInv' /\ ProgressInv'
  OBVIOUS
<1>1. UNCHANGED <<ids, requestFile, accepted, commands, recovery>>
  BY DEF RequestsKept, requestVars
<1>2. requested' \in [Jobs -> Nat] /\ \A j \in Jobs : requested'[j] <= requested[j]
  BY DEF RequestsKept, RequestInv
<1>3. \A j \in Jobs : requested'[j] <= requestFile[j]
  BY <1>2 DEF RequestInv
<1>4. RequestInv'
  BY <1>1, <1>2, <1>3 DEF RequestInv
<1>5. \A j \in Jobs : requested[j] <= recovery.id => requested'[j] <= recovery.id
  BY <1>2 DEF RequestInv
<1>6. ProgressInv'
  BY <1>1, <1>5 DEF ProgressInv
<1> QED
  BY <1>4, <1>6

\* A command added behind the others, or the first one taken.
LEMMA CommandAdded ==
    ASSUME commands \in Seq(Command), NEW c \in Command, commands' = Append(commands, c)
    PROVE  /\ commands' \in Seq(Command)
           /\ \A i \in DOMAIN commands' : \/ commands'[i] = c
                                           \/ \E k \in DOMAIN commands : commands'[i] = commands[k]
OBVIOUS

LEMMA CommandTaken ==
    ASSUME commands \in Seq(Command), commands # <<>>, commands' = Tail(commands)
    PROVE  /\ commands' \in Seq(Command)
           /\ \A i \in DOMAIN commands' : \E k \in DOMAIN commands : commands'[i] = commands[k]
<1>1. commands' \in Seq(Command)
  OBVIOUS
<1>2. ASSUME NEW i \in DOMAIN commands'
      PROVE  i + 1 \in DOMAIN commands /\ commands'[i] = commands[i + 1]
  OBVIOUS
<1> QED
  BY <1>1, <1>2

LEMMA RequestStep ==
    RequestInv /\ ProgressInv /\ [RecoveryNext]_recoveryVars => RequestInv' /\ ProgressInv'
<1> SUFFICES ASSUME RequestInv, ProgressInv, [RecoveryNext]_recoveryVars
             PROVE  RequestInv' /\ ProgressInv'
  OBVIOUS
<1> USE DEF lifeVars
<1>a. /\ ids \in Nat
      /\ \A j \in Jobs : requested[j] \in Nat /\ requestFile[j] \in Nat /\ accepted[j] \in Nat
      /\ recovery.id \in Nat
  BY DEF RequestInv
<1>1. ASSUME NEW j \in Jobs, RecoverBegin(j) PROVE RequestInv' /\ ProgressInv'
  <2>1. /\ ids' = ids + 1
        /\ recovery' = [pc |-> "checked", job |-> j, id |-> ids + 1]
        /\ UNCHANGED <<requested, requestFile, commands, accepted>>
    BY <1>1 DEF RecoverBegin
  <2>2. RequestInv'
    BY <1>a, <2>1 DEF RequestInv
  <2>3. requested[j] <= ids + 1 /\ accepted[j] <= ids + 1
    BY <1>a DEF RequestInv
  <2>4. ProgressInv'
    BY <1>a, <2>1, <2>3 DEF ProgressInv
  <2> QED
    BY <2>2, <2>4
<1>2. ASSUME RecoverRequest PROVE RequestInv' /\ ProgressInv'
  <2>1. /\ requestFile' = [requestFile EXCEPT ![recovery.job] = recovery.id]
        /\ recovery' = [recovery EXCEPT !.pc = "requested"]
        /\ recovery.pc = "checked"
        /\ UNCHANGED <<requested, ids, commands, accepted>>
    BY <1>2 DEF RecoverRequest, WriteRequest
  <2>2. /\ recovery'.pc = "requested" /\ recovery'.job = recovery.job
        /\ recovery'.id = recovery.id
        /\ recovery' \in [pc : {"idle", "checked", "requested", "recorded"},
                          job : Jobs \cup {None}, id : Nat]
    BY <2>1 DEF RequestInv
  <2>3. /\ recovery.job \in Jobs /\ recovery.id <= ids
        /\ requested[recovery.job] <= recovery.id
        /\ accepted[recovery.job] <= recovery.id
    BY <2>1 DEF ProgressInv
  <2>4. /\ requestFile' \in [Jobs -> Nat]
        /\ \A j \in Jobs : requested[j] <= requestFile'[j] /\ requestFile'[j] <= ids
        /\ requestFile'[recovery.job] = recovery.id
    BY <1>a, <2>1, <2>3 DEF RequestInv
  <2>5. RequestInv'
    BY <2>1, <2>2, <2>4 DEF RequestInv
  <2>6. ProgressInv'
    BY <2>1, <2>2, <2>3, <2>4 DEF ProgressInv
  <2> QED
    BY <2>5, <2>6
<1>3. ASSUME RecoverStatus PROVE RequestInv' /\ ProgressInv'
  <2> DEFINE job == recovery.job
  <2>1. /\ requested' = [requested EXCEPT ![job] = recovery.id]
        /\ accepted' = [accepted EXCEPT ![job] = recovery.id]
        /\ recovery' = [recovery EXCEPT !.pc = "recorded"]
        /\ recovery.pc = "requested"
        /\ UNCHANGED <<requestFile, ids, commands>>
    BY <1>3 DEF RecoverStatus
  <2>2. /\ recovery'.pc = "recorded" /\ recovery'.job = job
        /\ recovery'.id = recovery.id
        /\ recovery' \in [pc : {"idle", "checked", "requested", "recorded"},
                          job : Jobs \cup {None}, id : Nat]
    BY <2>1 DEF RequestInv
  <2>3. /\ job \in Jobs /\ recovery.id <= ids /\ 0 < recovery.id
        /\ requestFile[job] = recovery.id
        /\ accepted[job] <= recovery.id
    BY <2>1 DEF ProgressInv
  <2>4. /\ requested' \in [Jobs -> Nat] /\ accepted' \in [Jobs -> Nat]
        /\ accepted'[job] = recovery.id
        /\ \A j \in Jobs : /\ requested'[j] <= requestFile[j]
                           /\ accepted[j] <= accepted'[j] /\ accepted'[j] <= ids
    BY <1>a, <2>1, <2>3 DEF RequestInv
  <2>5. \A i \in DOMAIN commands :
          commands[i].job # None => commands[i].id <= accepted'[commands[i].job]
    <3> SUFFICES ASSUME NEW i \in DOMAIN commands, commands[i].job # None
                 PROVE  commands[i].id <= accepted'[commands[i].job]
      OBVIOUS
    <3>1. commands[i] \in Command
      BY DEF RequestInv
    <3> DEFINE k == commands[i].job
    <3>2. k \in Jobs /\ commands[i].id \in Nat /\ commands[i].id <= accepted[k]
      BY <3>1 DEF Command, RequestInv
    <3>3. accepted[k] <= accepted'[k] /\ accepted[k] \in Nat /\ accepted'[k] \in Nat
      BY <1>a, <2>4, <3>2
    <3> QED
      BY <3>2, <3>3
  <2>6. RequestInv'
    BY <2>1, <2>2, <2>4, <2>5 DEF RequestInv
  <2>7. ProgressInv'
    BY <2>1, <2>2, <2>3, <2>4 DEF ProgressInv
  <2> QED
    BY <2>6, <2>7
<1>4. ASSUME RecoverCommand PROVE RequestInv' /\ ProgressInv'
  <2> DEFINE c == [job |-> recovery.job, id |-> recovery.id]
  <2>1. /\ commands' = Append(commands, c)
        /\ recovery' = NoRecovery
        /\ recovery.pc = "recorded"
        /\ UNCHANGED <<requested, requestFile, ids, accepted>>
    BY <1>4 DEF RecoverCommand, Ready
  <2>2. recovery.job \in Jobs /\ 0 < recovery.id /\ accepted[recovery.job] = recovery.id
    BY <2>1 DEF ProgressInv
  <2>3. c \in Command /\ c.id <= accepted[c.job]
    BY <1>a, <2>2 DEF Command
  <2> HIDE DEF c
  <2>4. /\ commands' \in Seq(Command)
        /\ \A i \in DOMAIN commands' :
             commands'[i].job # None => commands'[i].id <= accepted[commands'[i].job]
    BY <2>1, <2>3, CommandAdded DEF RequestInv
  <2>5. NoRecovery.pc = "idle" /\ NoRecovery \in
            [pc : {"idle", "checked", "requested", "recorded"},
             job : Jobs \cup {None}, id : Nat]
    BY DEF NoRecovery
  <2>6. RequestInv'
    BY <2>1, <2>4, <2>5 DEF RequestInv
  <2>7. ProgressInv'
    BY <2>1, <2>5 DEF ProgressInv
  <2> QED
    BY <2>6, <2>7
<1>5. ASSUME Authenticate PROVE RequestInv' /\ ProgressInv'
  <2> DEFINE c == [job |-> None, id |-> ids + 1]
  <2>1. /\ commands' = Append(commands, c)
        /\ ids' = ids + 1
        /\ UNCHANGED <<requested, requestFile, recovery, accepted>>
    BY <1>5 DEF Authenticate
  <2>2. c \in Command /\ c.job = None
    BY <1>a DEF Command
  <2> HIDE DEF c
  <2>3. /\ commands' \in Seq(Command)
        /\ \A i \in DOMAIN commands' :
             commands'[i].job # None => commands'[i].id <= accepted[commands'[i].job]
    BY <2>1, <2>2, CommandAdded DEF RequestInv
  <2>4. RequestInv'
    BY <1>a, <2>1, <2>3 DEF RequestInv
  <2>5. ProgressInv'
    BY <1>a, <2>1 DEF ProgressInv
  <2> QED
    BY <2>4, <2>5
<1>6. ASSUME TakeCommand PROVE RequestInv' /\ ProgressInv'
  <2>1. /\ commands # <<>> /\ commands' = Tail(commands)
        /\ UNCHANGED <<requested, requestFile, recovery, ids, accepted>>
    BY <1>6 DEF TakeCommand
  <2>2. /\ commands' \in Seq(Command)
        /\ \A i \in DOMAIN commands' :
             commands'[i].job # None => commands'[i].id <= accepted[commands'[i].job]
    BY <2>1, CommandTaken DEF RequestInv
  <2>3. RequestInv'
    BY <2>1, <2>2 DEF RequestInv
  <2>4. ProgressInv'
    BY <2>1 DEF ProgressInv
  <2> QED
    BY <2>3, <2>4
<1>7. ASSUME Killed PROVE RequestInv' /\ ProgressInv'
  BY <1>7 DEF Killed, RequestInv, ProgressInv, NoRecovery
<1>8. ASSUME NEW j \in Jobs, RunStep(j) PROVE RequestsKept
  BY <1>8 DEF RunStep, Update, RequestsKept
<1>9. ASSUME NEW a \in issued, StartRun(a) PROVE RequestsKept
  BY <1>9 DEF StartRun, Update, RequestsKept
<1>10. ASSUME RequestForgotten, UNCHANGED requestVars PROVE RequestsKept
  BY <1>10, <1>a DEF RequestForgotten, RequestsKept
<1>11. ASSUME UNCHANGED recoveryVars PROVE RequestsKept
  BY <1>11 DEF recoveryVars, RequestsKept, requestVars
<1> QED
  BY <1>1, <1>2, <1>3, <1>4, <1>5, <1>6, <1>7, <1>8, <1>9, <1>10, <1>11, RequestsStand
     DEF RecoveryNext

LEMMA RequestInit == RecoveryInit => RequestInv /\ ProgressInv
BY DEF RecoveryInit, RequestInv, ProgressInv, NoRecovery

\* A job made recovering by a request has that request, or a newer one, on disk: no kill
\* between the steps of ops_recover_job leaves the status without the file the worker
\* needs (_write_union_recovery_request before _force_status).
THEOREM RequestsSurvive == RecoverySpec => []RequestSurvives
<1>1. RequestInv => RequestSurvives
  BY DEF RequestInv, RequestSurvives
<1> QED
  BY <1>1, RequestInit, RequestStep, PTL DEF RecoverySpec

\* No worker is told to recover a job before the job says so, whatever commands are
\* queued, taken or forgotten by a restart (_queue_worker_command is the last step).
THEOREM CommandsFollow == RecoverySpec => []CommandsFollowStatus
<1>1. RequestInv => CommandsFollowStatus
  BY DEF RequestInv, CommandsFollowStatus, ToSet
<1> QED
  BY <1>1, RequestInit, RequestStep, PTL DEF RecoverySpec
-----------------------------------------------------------------------------
(* Who may report on a recovery.  A kill takes the replies that were not    *)
(* delivered out of issued, so that the owner of a job need not be in it:   *)
(* the argument of JobLifecycle does not carry over.  Here the record     *)
(* itself names the attempt that may report, down to its worker, and that   *)
(* is the owner.                                                           *)

\* The fence of the job is the owner's; there is one unless the job waits or was
\* canceled while it waited.
FenceIsOwners(j) ==
    LET m == registry[j]
        a == owner[j]
    IN
    /\ m.status = statusFile[j]
    /\ statusFile[j] # LAUNCHING
    /\ statusFile[j] = Absent => ~m.fenced
    /\ (~m.fenced \/ statusFile[j] = QUEUED) => m.token = 0
    /\ a # NoAttempt => m.fenced
    /\ m.token # 0 => /\ a # NoAttempt
                      /\ m.token = a.token /\ m.attempt = a.number /\ m.target = a.worker
    /\ statusFile[j] \notin {Absent, QUEUED, CANCELED} => m.token # 0

FencesInv ==
    /\ \A j \in Jobs : FenceIsOwners(j)
    /\ \A a \in issued : registry[a.job].fenced

HolderInv ==
    /\ FencesInv
    /\ \A w \in Workers : poll[w].pc = "claimed" => poll[w].fencing

\* The request in progress is about a job that failed or recovers, and stays so.
RecoverableInv ==
    recovery.pc # "idle" =>
        recovery.job \in Jobs /\ statusFile[recovery.job] \in {FAILED, RECOVERING}

\* The record speaks for the file.
LEMMA FileSpeaks ==
    ASSUME FencesInv, NEW j \in Jobs
    PROVE  /\ StatusNow(j) = statusFile[j]
           /\ registry[j].status = statusFile[j]
           /\ Exists(j) <=> statusFile[j] # Absent
BY DEF FencesInv, FenceIsOwners, StatusNow, Exists

\* The job returns to the queue: nobody owns it, and it has no token.
LEMMA ReturnFences ==
    ASSUME TypeOK, FencesInv, NEW j \in Jobs, NEW m \in Record,
           m.fenced = registry[j].fenced, m.token = registry[j].token,
           SaveStatus(j, m, QUEUED), Revoke(j), issued' = issued
    PROVE  FencesInv'
<1> USE Statuses
<1>1. /\ statusFile'[j] = QUEUED /\ registry'[j].status = QUEUED
      /\ registry'[j].fenced = m.fenced
      /\ registry'[j].token = 0
      /\ \A k \in Jobs \ {j} : registry'[k] = registry[k] /\ statusFile'[k] = statusFile[k]
  <2>1. m.token = 0 \/ (statusFile[j] # QUEUED /\ m.fenced)
    BY DEF FencesInv, FenceIsOwners
  <2> QED
    BY <2>1, SaveStatusEffect
<1>2. owner'[j] = NoAttempt /\ \A k \in Jobs \ {j} : owner'[k] = owner[k]
  BY DEF TypeOK, Revoke
<1>3. ASSUME NEW k \in Jobs PROVE FenceIsOwners(k)'
  <2>1. CASE k = j
    BY <1>1, <1>2, <2>1 DEF FenceIsOwners
  <2>2. CASE k # j
    BY <1>1, <1>2, <2>2 DEF FencesInv, FenceIsOwners
  <2> QED
    BY <2>1, <2>2
<1>4. ASSUME NEW a \in issued PROVE registry'[a.job].fenced
  <2>1. a.job \in Jobs /\ registry[a.job].fenced
    BY DEF TypeOK, Attempt, FencesInv
  <2> QED
    BY <1>1, <2>1
<1> QED
  BY <1>3, <1>4 DEF FencesInv

\* Any other write: number, token and fence stay, and so does the host, unless the owner
\* gives its own.  Only a waiting job is canceled without a token.
LEMMA WriteFences ==
    ASSUME TypeOK, FencesInv, NEW j \in Jobs, NEW m \in Record, NEW s \in Status,
           m.fenced = registry[j].fenced, m.attempt = registry[j].attempt,
           m.token = registry[j].token,
           m.token # 0 => m.target = owner[j].worker,
           s \notin {QUEUED, LAUNCHING}, s = DISPATCHED => m.status = DISPATCHED,
           s # CANCELED => m.token # 0,
           SaveStatus(j, m, s), UNCHANGED <<issued, owner>>
    PROVE  FencesInv'
<1> USE Statuses
<1>1. /\ statusFile'[j] = s /\ registry'[j].status = s
      /\ registry'[j].target = m.target
      /\ registry'[j].fenced = m.fenced
      /\ registry'[j].attempt = m.attempt
      /\ registry'[j].token = m.token
      /\ \A k \in Jobs \ {j} : registry'[k] = registry[k] /\ statusFile'[k] = statusFile[k]
  BY SaveStatusEffect
<1>2. ASSUME NEW k \in Jobs PROVE FenceIsOwners(k)'
  <2>1. CASE k = j
    BY <1>1, <2>1 DEF FencesInv, FenceIsOwners
  <2>2. CASE k # j
    BY <1>1, <2>2 DEF FencesInv, FenceIsOwners
  <2> QED
    BY <2>1, <2>2
<1>3. ASSUME NEW a \in issued PROVE registry'[a.job].fenced
  <2>1. a.job \in Jobs /\ registry[a.job].fenced
    BY DEF TypeOK, Attempt, FencesInv
  <2> QED
    BY <1>1, <2>1
<1> QED
  BY <1>2, <1>3 DEF FencesInv

LEMMA LaunchFences ==
    ASSUME TypeOK, FencesInv, NEW j \in Jobs, Launch(j)
    PROVE  FencesInv'
<1> USE Statuses
<1> PICK host \in LaunchHosts : SaveStatus(j, LaunchRecord(host), QUEUED)
  BY DEF Launch
<1>1. /\ LaunchRecord(host) \in Record
      /\ LaunchRecord(host).fenced = FALSE /\ LaunchRecord(host).token = 0
  <2>1. host \in Hosts /\ registry[j] \in Record
    BY RequestTypes DEF TypeOK
  <2> QED
    BY <2>1, RecordTypes, FenceKept
<1>2. statusFile[j] = Absent /\ ~registry[j].fenced /\ owner[j] = NoAttempt
  BY DEF Launch, Launchable, FencesInv, FenceIsOwners
<1>3. UNCHANGED <<issued, owner>>
  BY DEF Launch, history
<1>4. /\ statusFile'[j] = QUEUED /\ registry'[j].status = QUEUED
      /\ registry'[j].fenced = FALSE /\ registry'[j].token = 0
      /\ \A k \in Jobs \ {j} : registry'[k] = registry[k] /\ statusFile'[k] = statusFile[k]
  BY <1>1, SaveStatusEffect
<1>5. ASSUME NEW k \in Jobs PROVE FenceIsOwners(k)'
  <2>1. CASE k = j
    BY <1>2, <1>3, <1>4, <2>1 DEF FenceIsOwners
  <2>2. CASE k # j
    BY <1>3, <1>4, <2>2 DEF FencesInv, FenceIsOwners
  <2> QED
    BY <2>1, <2>2
<1>6. ASSUME NEW a \in issued PROVE registry'[a.job].fenced
  <2>1. a.job \in Jobs /\ registry[a.job].fenced /\ a.job # j
    BY <1>2 DEF TypeOK, Attempt, FencesInv
  <2> QED
    BY <1>4, <2>1
<1> QED
  BY <1>3, <1>5, <1>6 DEF FencesInv

LEMMA DispatchFences ==
    ASSUME TypeOK, HolderInv, NEW w \in Workers, Dispatch(w)
    PROVE  FencesInv'
<1> USE Statuses
<1> DEFINE j == poll[w].job
           m == registry[j]
           g == Granted(m, w, poll[w].fencing)
           a == [job |-> j, worker |-> w, number |-> m.attempt + 1,
                 token |-> grants + 1]
<1>1. /\ j \in Jobs /\ m \in Record /\ grants \in Nat /\ m.attempt \in Nat
      /\ poll[w].fencing = TRUE
  BY PollTypes DEF Dispatch, TypeOK, Record, HolderInv
<1>2. m.status = QUEUED
  BY <1>1, FileSpeaks DEF Dispatch, Dispatchable, HolderInv, FencesInv, FenceIsOwners
<1>3. /\ SaveStatus(j, g, DISPATCHED)
      /\ owner' = [owner EXCEPT ![j] = a]
      /\ issued' = issued \cup {a}
  BY <1>1 DEF Dispatch
<1>4. /\ g \in Record /\ g.status = QUEUED /\ g.target = w
      /\ g.fenced = TRUE /\ g.attempt = m.attempt /\ g.token = grants + 1
  <2>1. /\ g \in Record /\ g.status = m.status /\ g.target = w /\ g.attempt = m.attempt
        /\ g.fenced = (m.fenced \/ poll[w].fencing)
        /\ g.token = IF poll[w].fencing THEN grants + 1 ELSE m.token
    <3>1. poll[w].fencing \in BOOLEAN
      BY <1>1
    <3> QED
      BY <1>1, <3>1, GrantedType
  <2> QED
    BY <1>1, <1>2, <2>1
<1>5. a.job = j /\ a.number = m.attempt + 1 /\ a.worker = w /\ a.token = grants + 1
  OBVIOUS
<1>6. a # NoAttempt
  BY <1>1, <1>5, NoneIsNoWorker DEF NoAttempt
<1> HIDE DEF j, m, g, a
<1>7. /\ statusFile'[j] = DISPATCHED /\ registry'[j].status = DISPATCHED
      /\ registry'[j].target = w /\ registry'[j].fenced = TRUE
      /\ registry'[j].attempt = m.attempt + 1
      /\ registry'[j].token = grants + 1
      /\ \A k \in Jobs \ {j} : registry'[k] = registry[k] /\ statusFile'[k] = statusFile[k]
  BY <1>1, <1>3, <1>4, SaveStatusEffect
<1>8. owner'[j] = a /\ \A k \in Jobs \ {j} : owner'[k] = owner[k]
  BY <1>1, <1>3 DEF TypeOK
<1>9. ASSUME NEW k \in Jobs PROVE FenceIsOwners(k)'
  <2>1. CASE k = j
    <3>1. grants + 1 # 0
      BY <1>1
    <3> QED
      BY <1>5, <1>6, <1>7, <1>8, <2>1, <3>1 DEF FenceIsOwners
  <2>2. CASE k # j
    BY <1>7, <1>8, <2>2 DEF HolderInv, FencesInv, FenceIsOwners
  <2> QED
    BY <2>1, <2>2
<1>10. ASSUME NEW b \in issued' PROVE registry'[b.job].fenced
  <2>1. b = a \/ (b.job \in Jobs /\ registry[b.job].fenced)
    BY <1>3 DEF TypeOK, Attempt, HolderInv, FencesInv
  <2> QED
    BY <1>5, <1>7, <2>1
<1> QED
  BY <1>9, <1>10 DEF FencesInv

\* The table leads to dispatched from queued only, and never to launching.
LEMMA IntoDispatched ==
    ASSUME NEW prev \in Status, NEW s \in {DISPATCHED, LAUNCHING}, Writable(prev, s)
    PROVE  prev \in {s, QUEUED}
BY DEF Writable, can_transition, AllowedFrom, Status, Absent, LAUNCHING, QUEUED, DISPATCHED,
       SETUP, RUNNING, RECOVERING, FINISHED, FAILED, STOP_REQUESTED, STOPPED, NOT_FOUND,
       UNKNOWN, CANCELED

\* Whoever passes the fence is what the record says of the owner.
LEMMA ReportFences ==
    ASSUME TypeOK, FencesInv, NEW a \in issued, NEW status \in AgentStatuses,
           Report(a, status)
    PROVE  FencesInv'
<1> USE Statuses
<1> DEFINE j == a.job
           s == Reported(j, status)
<1>1. a \in Attempt /\ j \in Jobs /\ a.worker \in Workers /\ registry[j] \in Record
  BY DEF TypeOK, Attempt
<1>2. s \in Status
  BY RequestTypes DEF Reported, Status
<1>3. PICK m \in Record :
         /\ SaveStatus(j, m, s)
         /\ m.status = registry[j].status
         /\ m.target = a.worker
         /\ m.fenced = registry[j].fenced
         /\ m.token = registry[j].token
         /\ m.fenced => Written(m, statusFile[j], s).attempt = registry[j].attempt
  BY ReportSaves
<1>4. /\ Validates(registry[j], a) /\ Writable(statusFile[j], s)
      /\ Exists(j) /\ issued' = issued
  BY DEF Report
<1>5. registry[j].token # 0 /\ registry[j].target = a.worker
  BY <1>1, <1>4 DEF FencesInv, Validates
<1>f. registry[j].fenced
  BY <1>1, <1>5 DEF FencesInv, FenceIsOwners
<1>6. /\ statusFile[j] \in Status \ {QUEUED, LAUNCHING}
      /\ registry[j].status = statusFile[j]
      /\ a.worker = owner[j].worker
  BY <1>1, <1>4, <1>5 DEF FencesInv, FenceIsOwners, TypeOK, Exists
<1>7. CASE s = QUEUED
  <2>1. Revoke(j)
    BY <1>7 DEF Report
  <2> HIDE DEF j, s
  <2> QED
    BY <1>1, <1>3, <1>4, <1>7, <2>1, ReturnFences
<1>8. CASE s # QUEUED
  <2>1. owner' = owner
    BY <1>8 DEF Report
  <2>2. s # LAUNCHING /\ (s = DISPATCHED => statusFile[j] = DISPATCHED)
    BY <1>4, <1>6, IntoDispatched
  <2>3. m.attempt = registry[j].attempt
    <3>1. Written(m, statusFile[j], s).attempt = m.attempt
      BY <1>3, <1>6, <2>2 DEF Written, Record
    <3> QED
      BY <1>3, <1>f, <3>1
  <2> HIDE DEF j, s
  <2> QED
    BY <1>1, <1>2, <1>3, <1>4, <1>5, <1>6, <1>8, <2>1, <2>2, <2>3, WriteFences
<1> QED
  BY <1>7, <1>8

LEMMA LifeFences ==
    ASSUME AllFence, TypeOK, HolderInv, [Next]_vars
    PROVE  HolderInv'
<1> USE Statuses DEF stores, worlds, history
<1>a. \A j \in Jobs : registry[j] \in Record
  BY DEF TypeOK
<1>b. FencesInv
  BY DEF HolderInv
<1>c. ASSUME UNCHANGED <<registry, statusFile, owner, issued>> PROVE FencesInv'
  BY <1>b, <1>c DEF FencesInv, FenceIsOwners
<1>1. ASSUME NEW j \in Jobs, Launch(j) PROVE HolderInv'
  BY <1>1, <1>b, LaunchFences DEF Launch, HolderInv
<1>2. ASSUME NEW j \in Jobs, Stop(j) PROVE HolderInv'
  <2> DEFINE s == StopOutcome(StatusNow(j))
  <2>1. CASE s # StatusNow(j)
    <3>1. s \in Status /\ s \in {CANCELED, STOP_REQUESTED}
      <4>1. StatusNow(j) \in Status
        BY <1>2, StatusNowType DEF Stop
      <4> QED
        BY <2>1, <4>1, StopOutcomeType DEF StopOutcome
    <3>2. s # CANCELED => registry[j].token # 0
      BY <2>1, <1>b, FileSpeaks DEF StopOutcome, FencesInv, FenceIsOwners, QUEUED, CANCELED,
             Absent, DISPATCHED, SETUP, RUNNING, RECOVERING
    <3>3. SaveStatus(j, registry[j], s) /\ UNCHANGED <<issued, owner, poll>>
      BY <1>2, <2>1 DEF Stop
    <3>4. registry[j].token # 0 => registry[j].target = owner[j].worker
      BY <1>b DEF FencesInv, FenceIsOwners
    <3>5. s \notin {QUEUED, LAUNCHING, DISPATCHED}
      BY <3>1 DEF QUEUED, LAUNCHING, DISPATCHED, CANCELED, STOP_REQUESTED
    <3> HIDE DEF s
    <3>6. FencesInv'
      BY <1>a, <1>b, <3>1, <3>2, <3>3, <3>4, <3>5, WriteFences
    <3> QED
      BY <3>3, <3>6 DEF HolderInv
  <2>2. CASE s = StatusNow(j)
    BY <1>2, <1>c, <2>2 DEF Stop, HolderInv
  <2> QED
    BY <2>1, <2>2
<1>3. ASSUME NEW j \in Jobs, NEW force \in Forces, NEW host \in RequeueHosts,
             NEW mode \in RequeueModes, Requeue(j, force, host, mode)
      PROVE  HolderInv'
  <2> DEFINE preferred == RequeueHost(registry[j], host, mode)
             require == RequeueRequire(registry[j], mode)
             m == Returned(registry[j], preferred, require)
  <2>1. preferred \in Hosts /\ require \in BOOLEAN /\ m \in Record
    BY <1>a, RequestTypes, RecordTypes
  <2>2. m.fenced = registry[j].fenced /\ m.token = registry[j].token
    BY <1>a, <2>1, FenceKept
  <2>3. UNCHANGED <<issued, poll>>
    BY <1>3 DEF Requeue
  <2>4. CASE SaveStatus(j, m, QUEUED) /\ Revoke(j)
    <3> HIDE DEF m
    <3> QED
      BY <1>b, <2>1, <2>2, <2>3, <2>4, ReturnFences DEF HolderInv
  <2>5. CASE UNCHANGED <<statusFile, registry, quiet, history>>
    BY <1>c, <2>3, <2>5 DEF HolderInv
  <2> QED
    BY <1>3, <2>4, <2>5 DEF Requeue
<1>4. ASSUME NEW j \in Jobs, SweepRequeue(j) PROVE HolderInv'
  <2> DEFINE preferred == PreferredOf(registry[j])
             m == Returned(registry[j], preferred, registry[j].require)
  <2>1. preferred \in Hosts /\ registry[j].require \in BOOLEAN /\ m \in Record
    BY <1>a, RecordTypes DEF Record
  <2>2. m.fenced = registry[j].fenced /\ m.token = registry[j].token
    BY <1>a, <2>1, FenceKept
  <2>3. SaveStatus(j, m, QUEUED) /\ Revoke(j) /\ UNCHANGED <<issued, poll>>
    BY <1>4 DEF SweepRequeue
  <2> HIDE DEF m
  <2> QED
    BY <1>b, <2>1, <2>2, <2>3, ReturnFences DEF HolderInv
<1>5. ASSUME NEW j \in Jobs, SweepFail(j) PROVE HolderInv'
  <2>1. SaveStatus(j, registry[j], FAILED) /\ UNCHANGED <<issued, owner, poll>>
    BY <1>5 DEF SweepFail
  <2>2. statusFile[j] \in Active
    BY <1>5, <1>b, FileSpeaks DEF SweepFail, Stale, Sweepable
  <2>3. registry[j].token # 0 /\ registry[j].target = owner[j].worker
    BY <1>b, <2>2 DEF FencesInv, FenceIsOwners, Active, Absent, QUEUED, CANCELED, DISPATCHED,
                      SETUP, RUNNING, RECOVERING, STOP_REQUESTED
  <2>4. FencesInv'
    BY <1>a, <1>b, <2>1, <2>3, WriteFences
  <2> QED
    BY <2>1, <2>4 DEF HolderInv
<1>6. ASSUME NEW w \in Workers, PollStep(w) PROVE HolderInv'
  <2>1. CASE Claim(w)
    <3> PICK fencing \in PollKinds(w), e \in queue :
          poll' = [poll EXCEPT ![w] = [pc |-> "claimed", job |-> e.job,
                                       fencing |-> fencing, reply |-> NoAttempt]]
      BY <2>1 DEF Claim
    <3>1. fencing
      BY DEF PollKinds, AllFence
    <3>2. FencesInv'
      BY <1>c, <2>1 DEF Claim
    <3> QED
      BY <3>1, <3>2 DEF HolderInv, TypeOK
  <2>2. ASSUME NEW pc \in {"done", "raised"}, NEW reply, AfterDispatch(w, pc, reply)
        PROVE  \A v \in Workers : poll'[v].pc = "claimed" => poll'[v].fencing
    BY <2>2 DEF AfterDispatch, HolderInv, TypeOK, Idle
  <2>3. CASE SkipDispatch(w) \/ FailDispatch(w)
    BY <1>c, <2>2, <2>3 DEF SkipDispatch, FailDispatch, HolderInv
  <2>4. CASE Dispatch(w)
    BY <2>2, <2>4, DispatchFences DEF Dispatch, HolderInv
  <2>5. CASE RemoveClaimed(w) \/ ReleaseClaimed(w)
    BY <1>c, <2>5 DEF RemoveClaimed, ReleaseClaimed, HolderInv, TypeOK, Idle
  <2> QED
    BY <1>6, <2>1, <2>3, <2>4, <2>5 DEF PollStep
<1>7. ASSUME NEW a \in issued, NEW status \in AgentStatuses, Report(a, status) PROVE HolderInv'
  BY <1>7, <1>b, ReportFences DEF Report, HolderInv
<1>8. World \/ UNCHANGED vars => UNCHANGED <<registry, statusFile, owner, issued, poll>>
  BY DEF World, Age, Acknowledge, LoseInputs, Lapse, Heartbeat, Persist, ExpireClaim, vars
<1>9. CASE World \/ UNCHANGED vars
  BY <1>8, <1>9, <1>c DEF HolderInv
<1> QED
  BY <1>1, <1>2, <1>3, <1>4, <1>5, <1>6, <1>7, <1>9 DEF Next, Operate, Sweep

-----------------------------------------------------------------------------
(* The steps of UnionRecovery: those of the life of the job, and its own.   *)

LEMMA LifeIsNext == LifeStep => Next
BY DEF LifeStep, Next, PollStep, World

\* A request holds the lock of its job: nobody else writes its status.
LEMMA LifeRespectsLock ==
    ASSUME TypeOK, LifeStep, NEW j \in Jobs, Locked(j)
    PROVE  statusFile'[j] = statusFile[j]
<1> USE DEF stores
<1>1. \A k \in Jobs : k # j => (Launch(k) \/ Operate(k) \/ Sweep(k) =>
                                  statusFile'[j] = statusFile[j])
  BY DEF Launch, Operate, Stop, Requeue, Sweep, SweepRequeue, SweepFail, SaveStatus, TypeOK
<1>2. ASSUME NEW w \in Workers,
             Claim(w) \/ RemoveClaimed(w) \/ ReleaseClaimed(w) \/ SkipDispatch(w) \/ FailDispatch(w)
      PROVE  statusFile'[j] = statusFile[j]
  BY <1>2 DEF Claim, RemoveClaimed, ReleaseClaimed, SkipDispatch, FailDispatch
<1>3. ASSUME NEW w \in Workers, poll[w].job # j, Dispatch(w)
      PROVE  statusFile'[j] = statusFile[j]
  BY <1>3 DEF Dispatch, SaveStatus, TypeOK
<1>4. ASSUME NEW a \in issued, NEW s \in AgentStatuses, a.job # j, Report(a, s)
      PROVE  statusFile'[j] = statusFile[j]
  BY <1>4 DEF Report, SaveOneOf, TypeOK
<1>5. \A k \in Jobs : Age(k) => statusFile' = statusFile
  BY DEF Age
<1>6. \A w \in Workers : Lapse(w) => statusFile' = statusFile
  BY DEF Lapse
<1> QED
  BY <1>1, <1>2, <1>3, <1>4, <1>5, <1>6 DEF LifeStep, Locked

\* Both the worker's file and a kill leave the stores, the owners and the fence alone.
LifeAlone == UNCHANGED <<registry, statusFile, queue, grants, quiet, lost, returns, history>>

LEMMA OthersLeaveLife ==
    /\ RecoverRequest \/ RecoverCommand \/ Authenticate \/ TakeCommand => UNCHANGED vars
    /\ \A j \in Jobs : RecoverBegin(j) => UNCHANGED vars
    /\ \A j \in Jobs : RunStep(j) => LifeAlone /\ UNCHANGED <<poll, issued>>
    /\ \A a \in issued : StartRun(a) => LifeAlone /\ UNCHANGED <<poll, issued>>
    /\ Killed => /\ LifeAlone
                 /\ poll' = [w \in Workers |-> Idle]
                 /\ issued' \subseteq issued
                 /\ recovery' = NoRecovery
<1> USE DEF stores, history, vars, lifeVars, crashVars
<1>1. RecoverRequest \/ RecoverCommand \/ Authenticate \/ TakeCommand => UNCHANGED vars
  BY DEF RecoverRequest, RecoverCommand, Authenticate, TakeCommand
<1>2. \A j \in Jobs : RecoverBegin(j) => UNCHANGED vars
  BY DEF RecoverBegin
<1>3. \A j \in Jobs : RunStep(j) => LifeAlone /\ UNCHANGED <<poll, issued>>
  BY DEF RunStep, Update, LifeAlone
<1>4. \A a \in issued : StartRun(a) => LifeAlone /\ UNCHANGED <<poll, issued>>
  BY DEF StartRun, Update, LifeAlone
<1>5. Killed => /\ LifeAlone
                /\ poll' = [w \in Workers |-> Idle]
                /\ issued' \subseteq issued
                /\ recovery' = NoRecovery
  BY DEF Killed, Crash, Restart, LifeAlone
<1> QED
  BY <1>1, <1>2, <1>3, <1>4, <1>5

\* The status that ops_recover_job writes, as a write of JobLifecycle.
LEMMA RecoverWrites ==
    ASSUME TypeOK, ProgressInv, RecoverStatus
    PROVE  /\ recovery.job \in Jobs
           /\ SaveStatus(recovery.job, registry[recovery.job], RECOVERING)
           /\ ByOrchestrator(recovery.job)
           /\ UNCHANGED <<queue, poll, issued, grants, worlds, returns, owner>>
<1>1. recovery.job \in Jobs
  BY DEF ProgressInv, RecoverStatus
<1>2. \A m : Kept(m) = Written(m, statusFile[recovery.job], RECOVERING)
  BY DEF Kept, Written, RECOVERING, QUEUED
<1> QED
  BY <1>1, <1>2 DEF RecoverStatus, SaveStatus

LEMMA RecoveryTypeStep ==
    TypeOK /\ ProgressInv /\ [RecoveryNext]_recoveryVars => TypeOK'
<1> USE DEF history, worlds
<1> SUFFICES ASSUME TypeOK, ProgressInv, [RecoveryNext]_recoveryVars PROVE TypeOK'
  OBVIOUS
<1>1. UNCHANGED vars => TypeOK'
  BY TypeStep
<1>2. UNCHANGED recoveryVars => UNCHANGED vars
  BY DEF recoveryVars, crashVars
<1>3. ASSUME RecoverStatus PROVE TypeOK'
  <2>1. registry[recovery.job] \in Record /\ RECOVERING \in Status
    BY <1>3, RecoverWrites DEF TypeOK, Status
  <2> QED
    BY <1>3, <2>1, RecoverWrites, SaveStatusType, HistoryType DEF TypeOK
<1>4. ASSUME NEW j \in Jobs, NEW u, Update(j, u) PROVE TypeOK'
  <2>1. Unacknowledged(u) \in Hosts
    BY UnionIsDurable, WorkerKinds DEF Unacknowledged, Hosts
  <2> QED
    BY <1>4, <2>1 DEF Update, stores, TypeOK
<1>5. ASSUME NEW j \in Jobs, RunStep(j) PROVE TypeOK'
  BY <1>4, <1>5 DEF RunStep
<1>6. ASSUME NEW a \in issued, StartRun(a) PROVE TypeOK'
  <2>1. a.job \in Jobs
    BY DEF TypeOK, Attempt
  <2> QED
    BY <1>4, <1>6, <2>1 DEF StartRun
<1>7. ASSUME Killed PROVE TypeOK'
  <2>1. /\ poll' \in [Workers -> Poll]
        /\ heartbeat' \in [Workers -> Beat]
        /\ pending' = pending
        /\ issued' \subseteq issued
    BY <1>7 DEF Killed, Crash, Restart, Poll, Beat
  <2> QED
    BY <1>7, <2>1, OthersLeaveLife DEF LifeAlone, TypeOK
<1>8. LifeStep => TypeOK'
  BY LifeIsNext, TypeStep
<1> QED
  BY <1>1, <1>2, <1>3, <1>5, <1>6, <1>7, <1>8, OthersLeaveLife DEF RecoveryNext

LEMMA RecoveryHolders ==
    AllFence /\ TypeOK /\ ProgressInv /\ HolderInv /\ RecoverableInv
        /\ [RecoveryNext]_recoveryVars => HolderInv'
<1> USE DEF history
<1> SUFFICES ASSUME AllFence, TypeOK, ProgressInv, HolderInv, RecoverableInv,
                    [RecoveryNext]_recoveryVars
             PROVE  HolderInv'
  OBVIOUS
<1>1. UNCHANGED vars => HolderInv'
  BY LifeFences
<1>2. UNCHANGED recoveryVars => UNCHANGED vars
  BY DEF recoveryVars, crashVars
<1>3. ASSUME RecoverStatus PROVE HolderInv'
  <2> DEFINE j == recovery.job
  <2>1. /\ j \in Jobs
        /\ SaveStatus(j, registry[j], RECOVERING)
        /\ UNCHANGED <<issued, owner, poll>>
    BY <1>3, RecoverWrites
  <2>2. registry[j] \in Record /\ RECOVERING \in Status
        /\ RECOVERING \notin {QUEUED, LAUNCHING, DISPATCHED, CANCELED}
    BY <2>1 DEF TypeOK, Status, QUEUED, LAUNCHING, DISPATCHED, CANCELED, RECOVERING
  <2>3. statusFile[j] \in {FAILED, RECOVERING}
    BY <1>3 DEF RecoverableInv, RecoverStatus
  <2>4. registry[j].token # 0 /\ registry[j].target = owner[j].worker
    BY <2>1, <2>3 DEF HolderInv, FencesInv, FenceIsOwners, FAILED, RECOVERING, QUEUED, CANCELED,
                      Absent
  <2> HIDE DEF j
  <2>5. FencesInv'
    BY <2>1, <2>2, <2>4, WriteFences DEF HolderInv
  <2> QED
    BY <2>1, <2>5 DEF HolderInv
<1>4. ASSUME LifeAlone, issued' \subseteq issued PROVE FencesInv'
  BY <1>4 DEF LifeAlone, HolderInv, FencesInv, FenceIsOwners
<1>5. ASSUME LifeAlone, UNCHANGED <<poll, issued>> PROVE HolderInv'
  BY <1>4, <1>5 DEF HolderInv
<1>6. ASSUME Killed PROVE HolderInv'
  BY <1>4, <1>6, OthersLeaveLife DEF HolderInv, Idle
<1>7. LifeStep => HolderInv'
  BY LifeIsNext, LifeFences
<1> QED
  BY <1>1, <1>2, <1>3, <1>5, <1>6, <1>7, OthersLeaveLife DEF RecoveryNext

LEMMA RecoveryProgress ==
    TypeOK /\ HolderInv /\ ProgressInv /\ RequestInv /\ RecoverableInv
        /\ [RecoveryNext]_recoveryVars => RecoverableInv'
<1> USE DEF history
<1> SUFFICES ASSUME TypeOK, HolderInv, ProgressInv, RequestInv, RecoverableInv,
                    [RecoveryNext]_recoveryVars
             PROVE  RecoverableInv'
  OBVIOUS
<1>1. ASSUME UNCHANGED <<statusFile, recovery>> PROVE RecoverableInv'
  BY <1>1 DEF RecoverableInv
<1>2. ASSUME NEW j \in Jobs, RecoverBegin(j) PROVE RecoverableInv'
  <2>1. recovery'.job = j /\ StatusNow(j) \in {FAILED, RECOVERING} /\ UNCHANGED vars
    BY <1>2, OthersLeaveLife DEF RecoverBegin
  <2>2. StatusNow(j) = statusFile[j] /\ statusFile' = statusFile
    BY <2>1, FileSpeaks DEF HolderInv, vars
  <2> QED
    BY <2>1, <2>2 DEF RecoverableInv
<1>3. ASSUME RecoverRequest PROVE RecoverableInv'
  <2>1. recovery'.job = recovery.job /\ recovery.pc # "idle" /\ statusFile' = statusFile
    BY <1>3, OthersLeaveLife DEF RecoverRequest, RequestInv, vars
  <2> QED
    BY <2>1 DEF RecoverableInv
<1>4. ASSUME RecoverStatus PROVE RecoverableInv'
  <2>1. recovery'.job = recovery.job /\ recovery.job \in Jobs
    BY <1>4, RecoverWrites DEF RecoverStatus, RequestInv
  <2>2. statusFile'[recovery.job] = RECOVERING
    BY <1>4, <2>1 DEF RecoverStatus, TypeOK
  <2> QED
    BY <2>1, <2>2 DEF RecoverableInv
<1>5. ASSUME recovery' = NoRecovery PROVE RecoverableInv'
  BY <1>5 DEF RecoverableInv, NoRecovery
<1>6. RecoverCommand \/ Killed => recovery' = NoRecovery
  BY DEF RecoverCommand, Killed
<1>7. Authenticate \/ TakeCommand \/ UNCHANGED recoveryVars => UNCHANGED <<statusFile, recovery>>
  BY DEF Authenticate, TakeCommand, recoveryVars, crashVars, lifeVars, vars
<1>8. /\ \A j \in Jobs : RunStep(j) => UNCHANGED <<statusFile, recovery>>
      /\ \A a \in issued : StartRun(a) => UNCHANGED <<statusFile, recovery>>
  BY DEF RunStep, StartRun, Update, stores, requestVars
<1>9. ASSUME LifeStep, UNCHANGED requestVars PROVE RecoverableInv'
  <2>1. recovery' = recovery
    BY <1>9 DEF requestVars
  <2>2. ASSUME recovery.pc # "idle"
        PROVE  statusFile'[recovery.job] = statusFile[recovery.job]
    BY <1>9, <2>2, LifeRespectsLock DEF Locked, RecoverableInv
  <2> QED
    BY <2>1, <2>2 DEF RecoverableInv
<1> QED
  BY <1>1, <1>2, <1>3, <1>4, <1>5, <1>6, <1>7, <1>8, <1>9 DEF RecoveryNext

\* Once an operator has made a job recovering, the attempt that ran it passes the fence
\* with its reports, whatever failed the job before and whenever the orchestrator is
\* killed (_force_status of ops_recover_job keeps attempt_token_hash).
THEOREM RecoveringReports ==
    ASSUME AllFence
    PROVE  RecoverySpec => []RecoveringCanReport
<1>1. RecoveryInit => TypeOK /\ HolderInv /\ RecoverableInv
  <2>1. Init => TypeOK
    BY TypeInit
  <2>2. Init => HolderInv
    BY DEF Init, HolderInv, FencesInv, FenceIsOwners, NoRecord, Idle, Absent, LAUNCHING
  <2> QED
    BY <2>1, <2>2 DEF RecoveryInit, CrashInit, RecoverableInv, NoRecovery
<1>2. TypeOK /\ HolderInv => RecoveringCanReport
  BY DEF HolderInv, FencesInv, FenceIsOwners, RecoveringCanReport, Validates, RECOVERING,
         Absent, QUEUED, CANCELED
<1>3. TypeOK /\ RequestInv /\ ProgressInv /\ HolderInv /\ RecoverableInv
        /\ [RecoveryNext]_recoveryVars
      => (TypeOK /\ RequestInv /\ ProgressInv /\ HolderInv /\ RecoverableInv)'
  BY RequestStep, RecoveryTypeStep, RecoveryHolders, RecoveryProgress
<1> QED
  BY <1>1, <1>2, <1>3, RequestInit, PTL DEF RecoverySpec

\* An outcome stands against everything but a requeue and the recovery that holds the
\* lock of its job since it looked: no report, sweep, stop, poll or kill in between
\* lets ops_recover_job overwrite another outcome (_job_state_lock, _force_status).
THEOREM OutcomesReopenedOnPurpose ==
    ASSUME AllFence, DefiniteReports
    PROVE  RecoverySpec => ReopenedOnPurpose
<1> DEFINE IInv == TypeOK /\ RequestInv /\ ProgressInv /\ HolderInv /\ RecoverableInv
<1>1. RecoveryInit => IInv
  <2>1. Init => TypeOK
    BY TypeInit
  <2>2. Init => HolderInv
    BY DEF Init, HolderInv, FencesInv, FenceIsOwners, NoRecord, Idle, Absent, LAUNCHING
  <2> QED
    BY <2>1, <2>2, RequestInit DEF RecoveryInit, CrashInit, RecoverableInv, NoRecovery
<1>2. IInv /\ [RecoveryNext]_recoveryVars => IInv'
  BY RequestStep, RecoveryTypeStep, RecoveryHolders, RecoveryProgress
<1>3. IInv /\ [RecoveryNext]_recoveryVars =>
        [\A j \in Jobs : (statusFile[j] \in Terminal /\ statusFile'[j] # statusFile[j]) =>
            \/ statusFile'[j] = QUEUED /\ owner'[j] = NoAttempt
            \/ /\ statusFile[j] = FAILED /\ statusFile'[j] = RECOVERING
               /\ recovery.job = j /\ recovery.pc = "requested"]_recoveryVars
  <2> SUFFICES ASSUME IInv, RecoveryNext, NEW j \in Jobs, statusFile[j] \in Terminal,
                      statusFile'[j] # statusFile[j]
               PROVE  \/ statusFile'[j] = QUEUED /\ owner'[j] = NoAttempt
                      \/ /\ statusFile[j] = FAILED /\ statusFile'[j] = RECOVERING
                         /\ recovery.job = j /\ recovery.pc = "requested"
    OBVIOUS
  <2>1. RecoverStatus \/ LifeStep
    BY OthersLeaveLife DEF RecoveryNext, LifeAlone, vars
  <2>2. CASE RecoverStatus
    <3>1. recovery.job \in Jobs /\ recovery.pc = "requested"
          /\ statusFile' = [statusFile EXCEPT ![recovery.job] = RECOVERING]
          /\ statusFile[recovery.job] \in {FAILED, RECOVERING}
      BY <2>2, RecoverWrites DEF RecoverStatus, RecoverableInv
    <3>2. j = recovery.job
      BY <3>1 DEF TypeOK
    <3> QED
      BY <3>1, <3>2 DEF TypeOK, Terminal, RECOVERING, FINISHED, FAILED, STOPPED, CANCELED
  <2>3. CASE LifeStep
    <3>1. Stands(j)
      BY <2>3, LifeIsNext, StandsStep
    <3>2. STOP_REQUESTED \notin Terminal
      BY DEF Terminal, STOP_REQUESTED, FINISHED, FAILED, STOPPED, CANCELED
    <3> QED
      BY <3>1, <3>2 DEF Stands
  <2> QED
    BY <2>1, <2>2, <2>3
<1> QED
  BY <1>1, <1>2, <1>3, PTL DEF RecoverySpec, ReopenedOnPurpose
=============================================================================
