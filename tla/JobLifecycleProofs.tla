------------------------- MODULE JobLifecycleProofs -------------------------
(***************************************************************************)
(* The life of a job, for every choice of the constants of JobLifecycle.   *)
(* First the types and the attempt fencing: TypeOK and FenceInv are        *)
(* inductive, what follows from them, and that JobLifecycle implements     *)
(* AttemptFencing: a dispatch grants, a return to the queue withdraws, a   *)
(* report publishes, the orchestrator's own writes override, everything    *)
(* else leaves the fence alone.  Then the queue, the outcomes, the owners  *)
(* and the slots of Deucalion, under the conditions the code needs for     *)
(* them.  Runs of TLC show that the conditions are needed.                 *)
(***************************************************************************)
EXTENDS JobLifecycle, FiniteSetTheorems, TLAPS

\* Every worker negotiates fencing, so that nobody reports for an attempt that was
\* revoked: what some theorems below assume.
AllFence == LegacyWorkers = {}

\* Workers do not report unknown or not_found, which may follow any status.
DefiniteReports == {UNKNOWN, NOT_FOUND} \cap AgentStatuses = {}

-----------------------------------------------------------------------------
(* What the helpers return. *)

LEMMA RemovedFromType ==
    ASSUME NEW q \in SUBSET Entry, NEW j
    PROVE  RemovedFrom(q, j) \in SUBSET Entry
BY DEF RemovedFrom, Entry

LEMMA EnqueuedInType ==
    ASSUME NEW q \in SUBSET Entry, NEW j \in Jobs,
           NEW preferred \in Hosts, NEW require \in BOOLEAN
    PROVE  EnqueuedIn(q, j, preferred, require) \in SUBSET Entry
<1>1. RemovedFrom(q, j) \in SUBSET Entry
  BY RemovedFromType
<1>2. \A e \in RemovedFrom(q, j) : e.job \in Jobs
  BY <1>1 DEF Entry
<1> QED
  BY <1>1, <1>2 DEF EnqueuedIn, Entry, Hosts

LEMMA WrittenType ==
    ASSUME NEW m \in Record, NEW prev, NEW s \in Status
    PROVE  Written(m, prev, s) \in Record
<1> DEFINE attempt == IF s = DISPATCHED /\ m.status # DISPATCHED THEN m.attempt + 1
                      ELSE m.attempt
           token == IF s = QUEUED /\ prev # QUEUED /\ m.fenced THEN 0 ELSE m.token
<1>1. attempt \in Nat
  BY DEF Record
<1>2. token \in Nat
  BY DEF Record
<1>3. Written(m, prev, s) = [m EXCEPT !.status = s, !.attempt = attempt, !.token = token]
  BY DEF Written
<1> HIDE DEF attempt, token
<1> QED
  BY <1>1, <1>2, <1>3 DEF Record

LEMMA WrittenFields ==
    ASSUME NEW m \in Record, NEW prev, NEW s \in Status
    PROVE  /\ Written(m, prev, s).status = s
           /\ Written(m, prev, s).target = m.target
           /\ Written(m, prev, s).preferred = m.preferred
           /\ Written(m, prev, s).require = m.require
           /\ Written(m, prev, s).fenced = m.fenced
           /\ Written(m, prev, s).attempt =
                 IF s = DISPATCHED /\ m.status # DISPATCHED THEN m.attempt + 1 ELSE m.attempt
           /\ Written(m, prev, s).token =
                 IF s = QUEUED /\ prev # QUEUED /\ m.fenced THEN 0 ELSE m.token
BY DEF Written, Record

\* SaveStatus touches the job it is given and keeps the shapes.
LEMMA SaveStatusType ==
    ASSUME TypeOK, NEW j \in Jobs, NEW m \in Record, NEW s \in Status,
           SaveStatus(j, m, s)
    PROVE  /\ registry' \in [Jobs -> Record]
           /\ statusFile' \in [Jobs -> Status \cup {Absent}]
           /\ quiet' \in [Jobs -> BOOLEAN]
<1>1. Written(m, statusFile[j], s) \in Record
  BY WrittenType
<1> QED
  BY <1>1 DEF SaveStatus, TypeOK

LEMMA HistoryType ==
    ASSUME TypeOK, NEW j \in Jobs
    PROVE  /\ ByOrchestrator(j) => writer' \in [Jobs -> Attempt \cup {NoAttempt}]
           /\ Revoke(j) => owner' \in [Jobs -> Attempt \cup {NoAttempt}]
BY DEF TypeOK, ByOrchestrator, Revoke

\* The outcomes the handlers choose are statuses.
LEMMA StopOutcomeType ==
    ASSUME NEW s \in Status
    PROVE  StopOutcome(s) \in Status
BY DEF StopOutcome, Status, LAUNCHING, QUEUED, DISPATCHED, SETUP, RUNNING, RECOVERING,
       CANCELED, STOP_REQUESTED

LEMMA StatusNowType ==
    ASSUME TypeOK, NEW j \in Jobs, Exists(j)
    PROVE  StatusNow(j) \in Status
BY DEF TypeOK, Exists, StatusNow, Record

LEMMA RecordTypes ==
    ASSUME NEW m \in Record
    PROVE  /\ \A host \in Hosts : LaunchRecord(host) \in Record
           /\ \A w \in Workers : HeldBy(m, w) \in Record
           /\ \A p \in Hosts, r \in BOOLEAN : Returned(m, p, r) \in Record
           /\ PreferredOf(m) \in Hosts
           /\ \A host \in Hosts, mode \in RequeueModes : RequeueHost(m, host, mode) \in Hosts
           /\ \A mode : RequeueRequire(m, mode) \in BOOLEAN
<1>1. \A host \in Hosts : LaunchRecord(host) \in Record
  BY DEF LaunchRecord, NoRecord, Record, Hosts, Status, LAUNCHING, Absent
<1>2. \A w \in Workers : HeldBy(m, w) \in Record
  BY DEF HeldBy, Record, Hosts
<1>3. \A p \in Hosts, r \in BOOLEAN : Returned(m, p, r) \in Record
  BY DEF Returned, Record, Hosts
<1>4. PreferredOf(m) \in Hosts
  BY DEF PreferredOf, Record
<1>5. \A host \in Hosts, mode \in RequeueModes : RequeueHost(m, host, mode) \in Hosts
  BY <1>4 DEF RequeueHost, Hosts
<1>6. \A mode : RequeueRequire(m, mode) \in BOOLEAN
  BY DEF RequeueRequire, Record
<1> QED
  BY <1>1, <1>2, <1>3, <1>4, <1>5, <1>6

LEMMA GrantedType ==
    ASSUME NEW m \in Record, NEW w \in Workers, NEW fencing \in BOOLEAN, grants \in Nat
    PROVE  /\ Granted(m, w, fencing) \in Record
           /\ Granted(m, w, fencing).status = m.status
           /\ Granted(m, w, fencing).target = w
           /\ Granted(m, w, fencing).attempt = m.attempt
           /\ Granted(m, w, fencing).fenced = (m.fenced \/ fencing)
           /\ Granted(m, w, fencing).token = IF fencing THEN grants + 1 ELSE m.token
<1> DEFINE fenced == m.fenced \/ fencing
           token == IF fencing THEN grants + 1 ELSE m.token
<1>1. fenced \in BOOLEAN
  OBVIOUS
<1>2. token \in Nat
  BY DEF Record
<1>3. Granted(m, w, fencing) = [m EXCEPT !.target = w, !.fenced = fenced, !.token = token]
  BY DEF Granted
<1> HIDE DEF fenced, token
<1>4. /\ Granted(m, w, fencing) \in Record
      /\ Granted(m, w, fencing).status = m.status
      /\ Granted(m, w, fencing).target = w
      /\ Granted(m, w, fencing).attempt = m.attempt
      /\ Granted(m, w, fencing).fenced = fenced
      /\ Granted(m, w, fencing).token = token
  BY <1>1, <1>2, <1>3 DEF Record, Hosts
<1> QED
  BY <1>4 DEF fenced, token

\* A number written over the counted one could have been counted up to as well.
LEMMA WrittenNumber ==
    ASSUME NEW m \in Record, NEW prev, NEW s \in Status, NEW n \in Nat \ {0},
           NEW step, step = IF s = DISPATCHED /\ m.status # DISPATCHED THEN 1 ELSE 0
    PROVE  Written([m EXCEPT !.attempt = n - step], prev, s)
              = [Written(m, prev, s) EXCEPT !.attempt = n]
<1> DEFINE k == [m EXCEPT !.attempt = n - step]
           token == IF s = QUEUED /\ prev # QUEUED /\ m.fenced THEN 0 ELSE m.token
<1>1. n - step \in Nat /\ n - step + step = n
  OBVIOUS
<1>2. /\ k \in Record
      /\ k.status = m.status /\ k.fenced = m.fenced /\ k.token = m.token
      /\ k.attempt = n - step
  BY <1>1 DEF Record
<1>3. (IF s = DISPATCHED /\ k.status # DISPATCHED THEN k.attempt + 1 ELSE k.attempt) = n
  BY <1>1, <1>2
<1>4. Written(k, prev, s) = [k EXCEPT !.status = s, !.attempt = n, !.token = token]
  BY <1>2, <1>3 DEF Written
<1>5. Written(m, prev, s) =
        [m EXCEPT !.status = s,
                  !.attempt = IF s = DISPATCHED /\ m.status # DISPATCHED
                              THEN m.attempt + 1 ELSE m.attempt,
                  !.token = token]
  BY DEF Written
<1> HIDE DEF token
<1>6. [k EXCEPT !.status = s, !.attempt = n, !.token = token]
        = [[m EXCEPT !.status = s,
                     !.attempt = IF s = DISPATCHED /\ m.status # DISPATCHED
                                 THEN m.attempt + 1 ELSE m.attempt,
                     !.token = token] EXCEPT !.attempt = n]
  BY DEF Record
<1> QED
  BY <1>4, <1>5, <1>6

\* A report writes the record of its host with some attempt number.
LEMMA ReportSaves ==
    ASSUME TypeOK, NEW a \in issued, NEW status \in AgentStatuses, Report(a, status)
    PROVE  \E m \in Record :
              /\ SaveStatus(a.job, m, Reported(a.job, status))
              /\ m.status = registry[a.job].status
              /\ m.target = a.worker
              /\ m.preferred = registry[a.job].preferred
              /\ m.fenced = registry[a.job].fenced
              /\ m.token = registry[a.job].token
              /\ m.fenced => Written(m, statusFile[a.job], Reported(a.job, status)).attempt
                               = registry[a.job].attempt
<1> DEFINE j == a.job
           s == Reported(j, status)
           held == HeldBy(registry[j], a.worker)
           step == IF s = DISPATCHED /\ held.status # DISPATCHED THEN 1 ELSE 0
           m == [held EXCEPT !.attempt = a.number - step]
<1>1. a \in Attempt /\ j \in Jobs /\ a.worker \in Workers /\ a.number \in Nat \ {0}
      /\ registry[j] \in Record
  BY DEF TypeOK, Attempt
<1>2. s \in Status
  BY RequestTypes DEF Reported, Status
<1>3. /\ held \in Record
      /\ held.status = registry[j].status
      /\ held.target = a.worker
      /\ held.preferred = registry[j].preferred
      /\ held.fenced = registry[j].fenced
      /\ held.attempt = registry[j].attempt
      /\ held.token = registry[j].token
  BY <1>1 DEF HeldBy, Record, Hosts
<1>4. /\ SaveOneOf(j, s, ReportedRecords(registry[j], statusFile[j], a, s))
      /\ Validates(registry[j], a)
  BY DEF Report
<1>5. a.number - step \in Nat
      /\ step = IF s = DISPATCHED /\ held.status # DISPATCHED THEN 1 ELSE 0
  BY <1>1
<1> HIDE DEF j, s, held, step
<1>7. CASE ~registry[j].fenced /\ registry' = [registry EXCEPT ![j] = Written(held, statusFile[j], s)]
  <2>1. SaveStatus(j, held, s)
    BY <1>4, <1>7 DEF SaveOneOf, SaveStatus
  <2> QED
    BY <1>3, <1>7, <2>1 DEF j, s
<1>8. CASE registry' = [registry EXCEPT ![j] =
                          [Written(held, statusFile[j], s) EXCEPT !.attempt = a.number]]
  <2>1. /\ m \in Record
        /\ m.status = held.status
        /\ m.target = held.target
        /\ m.preferred = held.preferred
        /\ m.fenced = held.fenced
        /\ m.token = held.token
        /\ m.attempt = a.number - step
    BY <1>3, <1>5 DEF Record
  <2>2. Written(m, statusFile[j], s) = [Written(held, statusFile[j], s) EXCEPT !.attempt = a.number]
    BY <1>1, <1>2, <1>3, <1>5, WrittenNumber
  <2>3. SaveStatus(j, m, s)
    BY <1>4, <1>8, <2>2 DEF SaveOneOf, SaveStatus
  <2>4. m.fenced => Written(m, statusFile[j], s).attempt = registry[j].attempt
    <3>1. m.fenced => a.number = registry[j].attempt
      BY <1>3, <1>4, <2>1 DEF Validates
    <3>2. Written(m, statusFile[j], s).attempt = a.number
      BY <1>2, <1>3, <2>2, WrittenType DEF Record
    <3> QED
      BY <3>1, <3>2
  <2> HIDE DEF m
  <2> QED
    BY <1>3, <2>1, <2>3, <2>4 DEF j, s
<1> QED
  BY <1>4, <1>7, <1>8 DEF SaveOneOf, ReportedRecords, held

LEMMA PollTypes ==
    /\ Idle \in Poll
    /\ \A j \in Jobs, fencing \in BOOLEAN :
          [pc |-> "claimed", job |-> j, fencing |-> fencing, reply |-> NoAttempt] \in Poll
    /\ \A p \in Poll, pc \in {"done", "raised"}, a \in Attempt \cup {NoAttempt} :
          p.pc # "idle" => [p EXCEPT !.pc = pc, !.reply = a] \in Poll
    /\ \A p \in Poll : p.pc # "idle" => p.job \in Jobs /\ p.fencing \in BOOLEAN
<1>1. \A p \in Poll : p.pc # "idle" =>
         p \in [pc : {"claimed", "done", "raised"}, job : Jobs, fencing : BOOLEAN,
                reply : Attempt \cup {NoAttempt}]
  BY DEF Idle, Poll
<1>2. \A p \in Poll, pc \in {"done", "raised"}, a \in Attempt \cup {NoAttempt} :
         p.pc # "idle" => [p EXCEPT !.pc = pc, !.reply = a] \in Poll
  BY <1>1 DEF Poll
<1>3. \A p \in Poll : p.pc # "idle" => p.job \in Jobs /\ p.fencing \in BOOLEAN
  BY <1>1
<1> QED
  BY <1>2, <1>3 DEF Idle, Poll

LEMMA AfterDispatchType ==
    ASSUME TypeOK, NEW w \in Workers, NEW pc \in {"done", "raised"},
           NEW a \in Attempt \cup {NoAttempt}, AfterDispatch(w, pc, a),
           poll[w].pc = "claimed"
    PROVE  poll' \in [Workers -> Poll]
BY PollTypes DEF AfterDispatch, TypeOK

-----------------------------------------------------------------------------
(* Type correctness. *)

LEMMA TypeInit == Init => TypeOK
BY NoneIsNoWorker DEF Init, TypeOK, NoRecord, Record, Idle, Poll, Beat, Hosts, Absent

LEMMA TypeStep == TypeOK /\ [Next]_vars => TypeOK'
<1> USE DEF stores, worlds, history
<1> SUFFICES ASSUME TypeOK, [Next]_vars PROVE TypeOK'
  OBVIOUS
<1>a. /\ \A j \in Jobs : registry[j] \in Record
      /\ \A j \in Jobs : statusFile[j] \in Status \cup {Absent}
      /\ {QUEUED, DISPATCHED, FAILED} \subseteq Status
  BY DEF TypeOK, Status
<1>1. ASSUME NEW j \in Jobs, Launch(j) PROVE TypeOK'
  <2> PICK host \in LaunchHosts :
        /\ SaveStatus(j, LaunchRecord(host), QUEUED)
        /\ queue' = EnqueuedIn(queue, j, host, host # None)
    BY <1>1 DEF Launch
  <2>1. host \in Hosts /\ LaunchRecord(host) \in Record
    BY <1>a, RequestTypes, RecordTypes
  <2>2. queue' \in SUBSET Entry
    BY <2>1, EnqueuedInType DEF TypeOK
  <2> QED
    BY <1>1, <1>a, <2>1, <2>2, SaveStatusType DEF Launch, TypeOK
<1>2. ASSUME NEW j \in Jobs, Stop(j) PROVE TypeOK'
  <2>1. StatusNow(j) \in Status /\ StopOutcome(StatusNow(j)) \in Status
    BY <1>2, StopOutcomeType, StatusNowType DEF Stop
  <2>2. queue' \in SUBSET Entry
    BY <1>2, RemovedFromType DEF Stop, TypeOK
  <2> QED
    BY <1>2, <1>a, <2>1, <2>2, SaveStatusType, HistoryType DEF Stop, TypeOK
<1>3. ASSUME NEW j \in Jobs, NEW force \in Forces, NEW host \in RequeueHosts,
             NEW mode \in RequeueModes, Requeue(j, force, host, mode)
      PROVE  TypeOK'
  <2> DEFINE preferred == RequeueHost(registry[j], host, mode)
             require == RequeueRequire(registry[j], mode)
  <2>1. preferred \in Hosts /\ require \in BOOLEAN
        /\ Returned(registry[j], preferred, require) \in Record
    BY <1>a, RequestTypes, RecordTypes
  <2>2. queue' \in SUBSET Entry
    BY <1>3, <2>1, EnqueuedInType DEF Requeue, TypeOK
  <2>3. returns' \in Nat
    BY <1>3 DEF Requeue, TypeOK
  <2>4. CASE /\ SaveStatus(j, Returned(registry[j], preferred, require), QUEUED)
             /\ ByOrchestrator(j)
             /\ Revoke(j)
    BY <1>3, <1>a, <2>1, <2>2, <2>3, <2>4, SaveStatusType, HistoryType DEF Requeue, TypeOK
  <2>5. CASE UNCHANGED <<statusFile, registry, quiet, history>>
    BY <1>3, <2>2, <2>3, <2>5 DEF Requeue, TypeOK
  <2> QED
    BY <1>3, <2>4, <2>5 DEF Requeue
<1>4. ASSUME NEW j \in Jobs, SweepRequeue(j) PROVE TypeOK'
  <2> DEFINE preferred == PreferredOf(registry[j])
  <2>1. /\ preferred \in Hosts /\ registry[j].require \in BOOLEAN
        /\ Returned(registry[j], preferred, registry[j].require) \in Record
    BY <1>a, RecordTypes DEF Record
  <2>2. queue' \in SUBSET Entry
    BY <1>4, <2>1, EnqueuedInType DEF SweepRequeue, TypeOK
  <2>3. SaveStatus(j, Returned(registry[j], preferred, registry[j].require), QUEUED)
    BY <1>4 DEF SweepRequeue
  <2> QED
    BY <1>4, <1>a, <2>1, <2>2, <2>3, SaveStatusType, HistoryType DEF SweepRequeue, TypeOK
<1>5. ASSUME NEW j \in Jobs, SweepFail(j) PROVE TypeOK'
  BY <1>5, <1>a, SaveStatusType, HistoryType DEF SweepFail, TypeOK
<1>6. ASSUME NEW w \in Workers, Claim(w) PROVE TypeOK'
  <2> PICK fencing \in PollKinds(w), e \in queue :
        /\ queue' = IF SqlStore THEN (queue \ {e}) \cup {[e EXCEPT !.claim = w]}
                    ELSE RemovedFrom(queue, e.job)
        /\ poll' = [poll EXCEPT ![w] = [pc |-> "claimed", job |-> e.job,
                                        fencing |-> fencing, reply |-> NoAttempt]]
    BY <1>6 DEF Claim
  <2>1. e \in Entry /\ e.job \in Jobs /\ [e EXCEPT !.claim = w] \in Entry
    BY DEF TypeOK, Entry, Hosts
  <2>2. queue' \in SUBSET Entry
    BY <2>1, RemovedFromType DEF TypeOK
  <2>3. poll' \in [Workers -> Poll]
    BY <2>1, PollTypes DEF TypeOK, PollKinds
  <2> QED
    BY <1>6, <2>2, <2>3 DEF Claim, TypeOK
<1>7. ASSUME NEW w \in Workers, SkipDispatch(w) \/ FailDispatch(w) PROVE TypeOK'
  BY <1>7, AfterDispatchType DEF SkipDispatch, FailDispatch, TypeOK
<1>8. ASSUME NEW w \in Workers, Dispatch(w) PROVE TypeOK'
  <2> DEFINE j == poll[w].job
             a == [job |-> j, worker |-> w, number |-> registry[j].attempt + 1,
                   token |-> IF poll[w].fencing THEN grants + 1 ELSE 0]
  <2>1. j \in Jobs
    BY <1>8, PollTypes DEF Dispatch, TypeOK
  <2>2. a \in Attempt
    <3>1. registry[j].attempt + 1 \in Nat \ {0} /\ grants + 1 \in Nat
      BY <1>a, <2>1 DEF Record, TypeOK
    <3> QED
      BY <2>1, <3>1 DEF Attempt
  <2>3. Granted(registry[j], w, poll[w].fencing) \in Record
    <3>1. poll[w].fencing \in BOOLEAN /\ registry[j] \in Record /\ grants \in Nat
      BY <1>8, <1>a, <2>1, PollTypes DEF Dispatch, TypeOK
    <3> QED
      BY <3>1, GrantedType
  <2>4. /\ SaveStatus(j, Granted(registry[j], w, poll[w].fencing), DISPATCHED)
        /\ issued' = issued \cup {a}
        /\ owner' = [owner EXCEPT ![j] = a]
        /\ AfterDispatch(w, "done", a) \/ AfterDispatch(w, "raised", a)
        /\ ByOrchestrator(j)
        /\ grants' = grants + 1
        /\ UNCHANGED <<queue, worlds, returns>>
        /\ poll[w].pc = "claimed"
    BY <1>8 DEF Dispatch
  <2> HIDE DEF a, j
  <2> QED
    BY <1>a, <2>1, <2>2, <2>3, <2>4, SaveStatusType, HistoryType, AfterDispatchType DEF TypeOK
<1>9. ASSUME NEW w \in Workers, RemoveClaimed(w) PROVE TypeOK'
  BY <1>9, RemovedFromType, PollTypes DEF RemoveClaimed, TypeOK
<1>10. ASSUME NEW w \in Workers, ReleaseClaimed(w) PROVE TypeOK'
  <2>1. \A e \in Entry : [e EXCEPT !.claim = None] \in Entry
    BY DEF Entry, Hosts
  <2>2. queue' \in SUBSET Entry
    BY <1>10, <2>1 DEF ReleaseClaimed, TypeOK
  <2> QED
    BY <1>10, <2>2, PollTypes DEF ReleaseClaimed, TypeOK
<1>11. ASSUME NEW a \in issued, NEW status \in AgentStatuses, Report(a, status) PROVE TypeOK'
  <2> DEFINE j == a.job
             s == Reported(j, status)
  <2>1. a \in Attempt /\ j \in Jobs /\ a.worker \in Workers
    BY DEF TypeOK, Attempt
  <2>2. s \in Status
    BY RequestTypes DEF Reported, Status
  <2>3. PICK m \in Record : SaveStatus(j, m, s)
    BY <1>11, ReportSaves
  <2>5. heartbeat' \in [Workers -> Beat]
    BY <1>11, <2>1 DEF Report, TypeOK, Beat
  <2>6. /\ queue' \in SUBSET Entry
        /\ returns' \in Nat
        /\ owner' \in [Jobs -> Attempt \cup {NoAttempt}]
        /\ writer' \in [Jobs -> Attempt \cup {NoAttempt}]
    BY <1>11, <2>1, RemovedFromType, HistoryType DEF Report, TypeOK
  <2> HIDE DEF j, s
  <2>7. /\ registry' \in [Jobs -> Record]
        /\ statusFile' \in [Jobs -> Status \cup {Absent}]
        /\ quiet' \in [Jobs -> BOOLEAN]
    BY <2>1, <2>2, <2>3, SaveStatusType
  <2> QED
    BY <1>11, <2>5, <2>6, <2>7 DEF Report, TypeOK
<1>12. ASSUME World PROVE TypeOK'
  <2>1. ASSUME NEW j \in Jobs, Age(j) \/ Acknowledge(j) \/ LoseInputs(j) PROVE TypeOK'
    BY <2>1, RequestTypes DEF Age, Acknowledge, LoseInputs, TypeOK, Hosts
  <2>2. ASSUME NEW w \in Workers, Lapse(w) PROVE TypeOK'
    BY <2>2 DEF Lapse, TypeOK, Beat
  <2>3. ASSUME NEW w \in Workers, Heartbeat(w) PROVE TypeOK'
    <3>1. {a.job : a \in ReceivedBy(w)} \subseteq Jobs
      BY DEF ReceivedBy, TypeOK, Attempt
    <3> QED
      BY <2>3, <3>1 DEF Heartbeat, TypeOK, Beat
  <2>4. ASSUME NEW a \in issued, Persist(a) PROVE TypeOK'
    BY <2>4 DEF Persist, TypeOK, Attempt, Hosts
  <2>5. ASSUME NEW e \in queue, ExpireClaim(e) PROVE TypeOK'
    <3>1. [e EXCEPT !.claim = None] \in Entry
      BY DEF TypeOK, Entry, Hosts
    <3> QED
      BY <2>5, <3>1 DEF ExpireClaim, TypeOK
  <2> QED
    BY <1>12, <2>1, <2>2, <2>3, <2>4, <2>5 DEF World
<1>13. CASE UNCHANGED vars
  BY <1>13 DEF vars, TypeOK
<1> QED
  BY <1>1, <1>2, <1>3, <1>4, <1>5, <1>6, <1>7, <1>8, <1>9, <1>10, <1>11, <1>12, <1>13
     DEF Next, Operate, Sweep, PollStep

\* Every reachable state is well-formed: each handler of job_service.py writes
\* records, queue entries and statuses of the shapes the others expect.
THEOREM TypeCorrect == Spec => []TypeOK
BY TypeInit, TypeStep, PTL DEF Spec

-----------------------------------------------------------------------------
(* What a status write does to the fields the fence depends on. *)

LEMMA Statuses ==
    /\ Absent \notin Status
    /\ {LAUNCHING, QUEUED, DISPATCHED, FAILED} \subseteq Status
    /\ QUEUED # LAUNCHING /\ DISPATCHED # LAUNCHING /\ FAILED # LAUNCHING
    /\ QUEUED # DISPATCHED /\ QUEUED # FAILED /\ DISPATCHED # FAILED
BY DEF Absent, Status, LAUNCHING, QUEUED, DISPATCHED, SETUP, RUNNING, RECOVERING,
       FINISHED, FAILED, STOP_REQUESTED, STOPPED, NOT_FOUND, UNKNOWN, CANCELED

\* The record and the file of a job agree on its status.
LEMMA StatusNowIsFile ==
    ASSUME FenceInv, NEW j \in Jobs
    PROVE  /\ StatusNow(j) = statusFile[j]
           /\ Exists(j) <=> statusFile[j] # Absent
BY DEF FenceInv, FenceOf, StatusNow, Exists

\* The write touches the record and the file of j only; a return to the queue
\* revokes the token of a fenced job.
LEMMA SaveStatusEffect ==
    ASSUME TypeOK, NEW j \in Jobs, NEW m \in Record, NEW s \in Status,
           SaveStatus(j, m, s)
    PROVE  /\ statusFile'[j] = s
           /\ registry'[j].status = s
           /\ registry'[j].target = m.target
           /\ registry'[j].preferred = m.preferred
           /\ registry'[j].fenced = m.fenced
           /\ registry'[j].attempt =
                 IF s = DISPATCHED /\ m.status # DISPATCHED THEN m.attempt + 1 ELSE m.attempt
           /\ registry'[j].token =
                 IF s = QUEUED /\ statusFile[j] # QUEUED /\ m.fenced THEN 0 ELSE m.token
           /\ \A k \in Jobs \ {j} : registry'[k] = registry[k] /\ statusFile'[k] = statusFile[k]
<1>1. registry'[j] = Written(m, statusFile[j], s)
  BY DEF SaveStatus, TypeOK
<1>2. /\ statusFile'[j] = s
      /\ \A k \in Jobs \ {j} : registry'[k] = registry[k] /\ statusFile'[k] = statusFile[k]
  BY DEF SaveStatus, TypeOK
<1> QED
  BY <1>1, <1>2, WrittenFields

\* The records the handlers hand to the write keep the fence of the job.
LEMMA FenceKept ==
    ASSUME NEW m \in Record
    PROVE  /\ \A w \in Workers :
                 /\ HeldBy(m, w).status = m.status
                 /\ HeldBy(m, w).target = w
                 /\ HeldBy(m, w).fenced = m.fenced
                 /\ HeldBy(m, w).attempt = m.attempt
                 /\ HeldBy(m, w).token = m.token
           /\ \A p \in Hosts, r \in BOOLEAN :
                 /\ Returned(m, p, r).status = m.status
                 /\ Returned(m, p, r).fenced = m.fenced
                 /\ Returned(m, p, r).attempt = m.attempt
                 /\ Returned(m, p, r).token = m.token
           /\ \A host \in Hosts :
                 /\ LaunchRecord(host).fenced = FALSE
                 /\ LaunchRecord(host).attempt = 0
                 /\ LaunchRecord(host).token = 0
BY DEF HeldBy, Returned, LaunchRecord, NoRecord, Record

-----------------------------------------------------------------------------
(* The steps that write a status. *)

\* The job returns to the queue: its token is revoked, no attempt owns it.
LEMMA ReturnKeepsFence ==
    ASSUME TypeOK, FenceInv, NEW j \in Jobs, NEW m \in Record,
           m.fenced = registry[j].fenced,
           m.fenced => Written(m, statusFile[j], QUEUED).attempt >= registry[j].attempt,
           m.token = registry[j].token, statusFile[j] # Absent,
           SaveStatus(j, m, QUEUED), ByOrchestrator(j), Revoke(j),
           UNCHANGED <<issued, grants>>
    PROVE  FenceInv'
<1> USE Statuses
<1>1. /\ statusFile'[j] = QUEUED /\ registry'[j].status = QUEUED
      /\ registry'[j].fenced = m.fenced
      /\ m.fenced => registry'[j].attempt >= registry[j].attempt
      /\ registry'[j].token = 0
      /\ \A k \in Jobs \ {j} : registry'[k] = registry[k] /\ statusFile'[k] = statusFile[k]
  <2>1. m.token = 0 \/ (statusFile[j] # QUEUED /\ m.fenced)
    BY DEF FenceInv, FenceOf
  <2> QED
    BY <2>1, SaveStatusEffect, WrittenFields
<1>2. /\ owner'[j] = NoAttempt /\ writer'[j] = NoAttempt
      /\ \A k \in Jobs \ {j} : owner'[k] = owner[k] /\ writer'[k] = writer[k]
  BY DEF TypeOK, ByOrchestrator, Revoke
<1>3. ASSUME NEW k \in Jobs PROVE FenceOf(k)'
  <2>1. CASE k = j
    BY <1>1, <1>2, <2>1 DEF TypeOK, FenceOf
  <2>2. CASE k # j
    BY <1>1, <1>2, <2>2 DEF FenceInv, FenceOf
  <2> QED
    BY <2>1, <2>2
<1>4. ASSUME NEW a \in issued PROVE Recorded(a)'
  <2>1. a.job \in Jobs /\ a.number \in Nat /\ Recorded(a)
    BY DEF TypeOK, Attempt, FenceInv
  <2>2. registry[j].attempt \in Nat /\ registry'[j].attempt \in Nat
    BY SaveStatusType, Statuses DEF TypeOK, Record
  <2> QED
    BY <1>1, <2>1, <2>2 DEF Recorded
<1> QED
  BY <1>3, <1>4 DEF FenceInv, TokensDistinct, FencedNumbersDistinct

\* Any other write between dispatch and return: the token stays, the status is
\* the orchestrator's or the owner's.
LEMMA WriteKeepsFence ==
    ASSUME TypeOK, FenceInv, NEW j \in Jobs, NEW m \in Record, NEW s \in Status,
           m.fenced = registry[j].fenced,
           m.fenced => Written(m, statusFile[j], s).attempt >= registry[j].attempt,
           m.token = registry[j].token, statusFile[j] # Absent,
           s \notin {QUEUED, LAUNCHING}, SaveStatus(j, m, s),
           writer' \in [Jobs -> Attempt \cup {NoAttempt}],
           m.fenced => writer'[j] \in {NoAttempt, owner[j]},
           \A k \in Jobs \ {j} : writer'[k] = writer[k],
           UNCHANGED <<issued, grants, owner>>
    PROVE  FenceInv'
<1> USE Statuses
<1>1. /\ statusFile'[j] = s /\ registry'[j].status = s
      /\ registry'[j].fenced = m.fenced
      /\ m.fenced => registry'[j].attempt >= registry[j].attempt
      /\ registry'[j].token = m.token
      /\ \A k \in Jobs \ {j} : registry'[k] = registry[k] /\ statusFile'[k] = statusFile[k]
  BY SaveStatusEffect, WrittenFields
<1>2. ASSUME NEW k \in Jobs PROVE FenceOf(k)'
  <2>1. CASE k = j
    BY <1>1, <2>1 DEF FenceInv, FenceOf
  <2>2. CASE k # j
    BY <1>1, <2>2 DEF FenceInv, FenceOf
  <2> QED
    BY <2>1, <2>2
<1>3. ASSUME NEW a \in issued PROVE Recorded(a)'
  <2>1. a.job \in Jobs /\ a.number \in Nat /\ Recorded(a)
    BY DEF TypeOK, Attempt, FenceInv
  <2>2. registry[j].attempt \in Nat /\ registry'[j].attempt \in Nat
    BY SaveStatusType DEF TypeOK, Record
  <2> QED
    BY <1>1, <2>1, <2>2 DEF Recorded
<1> QED
  BY <1>2, <1>3 DEF FenceInv, TokensDistinct, FencedNumbersDistinct

\* A launch finds no attempt of the job: it has no status yet.
LEMMA LaunchKeepsFence ==
    ASSUME TypeOK, FenceInv, NEW j \in Jobs, Launch(j)
    PROVE  FenceInv'
<1> USE Statuses
<1> PICK host \in LaunchHosts : SaveStatus(j, LaunchRecord(host), QUEUED)
  BY DEF Launch
<1>1. host \in Hosts /\ LaunchRecord(host) \in Record
  BY RequestTypes, RecordTypes DEF TypeOK
<1>2. /\ statusFile'[j] = QUEUED /\ registry'[j].status = QUEUED
      /\ registry'[j].fenced = FALSE
      /\ registry'[j].token = 0
      /\ \A k \in Jobs \ {j} : registry'[k] = registry[k] /\ statusFile'[k] = statusFile[k]
  <2>1. LaunchRecord(host).fenced = FALSE /\ LaunchRecord(host).token = 0
    BY <1>1, FenceKept
  <2> QED
    BY <1>1, <2>1, SaveStatusEffect
<1>3. statusFile[j] = Absent
  BY DEF Launch, Launchable, FenceInv, FenceOf
<1>4. \A a \in issued : a.job # j
  BY <1>3 DEF FenceInv, Recorded
<1>5. owner[j] = NoAttempt
  BY <1>4 DEF FenceInv, FenceOf
<1>6. UNCHANGED <<issued, grants, owner, writer>>
  BY DEF Launch, history
<1>7. ASSUME NEW k \in Jobs PROVE FenceOf(k)'
  <2>1. CASE k = j
    BY <1>2, <1>5, <1>6, <2>1 DEF FenceOf, TypeOK
  <2>2. CASE k # j
    BY <1>2, <1>6, <2>2 DEF FenceInv, FenceOf
  <2> QED
    BY <2>1, <2>2
<1>8. ASSUME NEW a \in issued PROVE Recorded(a)'
  <2>1. a.job \in Jobs \ {j} /\ Recorded(a)
    BY <1>4 DEF TypeOK, Attempt, FenceInv
  <2> QED
    BY <1>2, <1>6, <2>1 DEF Recorded
<1> QED
  BY <1>6, <1>7, <1>8 DEF FenceInv, TokensDistinct, FencedNumbersDistinct

\* The report that passes the fence of a fenced job comes from its owner.
LEMMA OwnerReports ==
    ASSUME TypeOK, FenceInv, NEW j \in Jobs, NEW a \in issued,
           registry[j].fenced, Validates(registry[j], a)
    PROVE  a = owner[j]
<1>1. /\ registry[j].token # 0
      /\ a.token = registry[j].token
  BY DEF Validates
<1>2. owner[j].token = a.token /\ owner[j] \in issued
  BY <1>1 DEF FenceInv, FenceOf, NoAttempt
<1> QED
  BY <1>1, <1>2 DEF FenceInv, TokensDistinct

LEMMA ReportKeepsFence ==
    ASSUME TypeOK, FenceInv, NEW a \in issued, NEW status \in AgentStatuses,
           Report(a, status)
    PROVE  FenceInv'
<1> USE Statuses
<1> DEFINE j == a.job
           s == Reported(j, status)
<1>1. a \in Attempt /\ j \in Jobs /\ a.worker \in Workers /\ registry[j] \in Record
  BY DEF TypeOK, Attempt
<1>2. s \in Status
  BY RequestTypes DEF Reported, Status
<1>3. PICK m \in Record :
        /\ SaveStatus(j, m, s)
        /\ m.fenced = registry[j].fenced
        /\ m.token = registry[j].token
        /\ m.fenced => Written(m, statusFile[j], s).attempt = registry[j].attempt
  BY ReportSaves
<1>a. m.fenced => Written(m, statusFile[j], s).attempt >= registry[j].attempt
  BY <1>1, <1>3 DEF Record
<1>4. statusFile[j] # Absent
  BY DEF FenceInv, Recorded
<1>5. s # LAUNCHING
  <2>1. statusFile[j] # LAUNCHING /\ Writable(statusFile[j], s)
    BY <1>1 DEF FenceInv, FenceOf, Report
  <2>2. LAUNCHING \notin {NOT_FOUND, UNKNOWN} \cup AllowedFrom(statusFile[j])
    BY DEF AllowedFrom, LAUNCHING, QUEUED, DISPATCHED, SETUP, RUNNING, RECOVERING,
           FINISHED, FAILED, STOP_REQUESTED, STOPPED, NOT_FOUND, UNKNOWN, CANCELED
  <2> QED
    BY <1>4, <2>1, <2>2 DEF Writable, can_transition
<1>6. /\ UNCHANGED <<issued, grants>>
      /\ Validates(registry[j], a)
  BY DEF Report
<1>7. CASE s = QUEUED
  <2>1. ByOrchestrator(j) /\ Revoke(j)
    BY <1>7 DEF Report
  <2> HIDE DEF j, s
  <2> QED
    BY <1>1, <1>3, <1>a, <1>4, <1>6, <1>7, <2>1, ReturnKeepsFence
<1>8. CASE s # QUEUED
  <2>1. writer' = [writer EXCEPT ![j] = a] /\ owner' = owner
    BY <1>8 DEF Report
  <2>2. registry[j].fenced => a = owner[j]
    BY <1>1, <1>6, OwnerReports
  <2>3. /\ writer' \in [Jobs -> Attempt \cup {NoAttempt}]
        /\ writer'[j] = a
        /\ \A k \in Jobs \ {j} : writer'[k] = writer[k]
    BY <1>1, <2>1 DEF TypeOK
  <2> HIDE DEF j, s
  <2> QED
    BY <1>1, <1>2, <1>3, <1>a, <1>4, <1>5, <1>6, <1>8, <2>1, <2>2, <2>3, WriteKeepsFence
<1> QED
  BY <1>7, <1>8

\* A stop or a failed sweep writes a status in the orchestrator's name.
LEMMA OverrideKeepsFence ==
    ASSUME TypeOK, FenceInv, NEW j \in Jobs, NEW s \in Status,
           statusFile[j] # Absent, s \notin {QUEUED, LAUNCHING},
           SaveStatus(j, registry[j], s), ByOrchestrator(j),
           UNCHANGED <<issued, grants, owner>>
    PROVE  FenceInv'
<1>1. /\ registry[j] \in Record
      /\ Written(registry[j], statusFile[j], s).attempt >= registry[j].attempt
  BY WrittenFields DEF TypeOK, Record
<1>2. /\ writer' \in [Jobs -> Attempt \cup {NoAttempt}]
      /\ writer'[j] = NoAttempt
      /\ \A k \in Jobs \ {j} : writer'[k] = writer[k]
  BY DEF TypeOK, ByOrchestrator
<1> QED
  BY <1>1, <1>2, WriteKeepsFence

\* A dispatch finds no live token, and its own is new.
LEMMA DispatchKeepsFence ==
    ASSUME TypeOK, FenceInv, NEW w \in Workers, Dispatch(w)
    PROVE  FenceInv'
<1> USE Statuses
<1> DEFINE j == poll[w].job
           fencing == poll[w].fencing
           m == registry[j]
           g == Granted(m, w, fencing)
           a == [job |-> j, worker |-> w, number |-> m.attempt + 1,
                 token |-> IF fencing THEN grants + 1 ELSE 0]
<1>1. /\ j \in Jobs /\ fencing \in BOOLEAN /\ m \in Record /\ grants \in Nat
      /\ m.attempt \in Nat /\ m.token \in Nat
  BY PollTypes DEF Dispatch, TypeOK, Record
<1>2. statusFile[j] = QUEUED /\ m.status = QUEUED /\ m.token = 0
  BY <1>1, StatusNowIsFile DEF Dispatch, Dispatchable, FenceInv, FenceOf
<1>3. /\ SaveStatus(j, g, DISPATCHED)
      /\ grants' = grants + 1
      /\ issued' = issued \cup {a}
      /\ owner' = [owner EXCEPT ![j] = a]
      /\ writer' = [writer EXCEPT ![j] = NoAttempt]
  BY DEF Dispatch, ByOrchestrator
<1>4. /\ g \in Record
      /\ g.status = QUEUED
      /\ g.attempt = m.attempt
      /\ g.fenced = (m.fenced \/ fencing)
      /\ g.token = a.token
  BY <1>1, <1>2, GrantedType
<1>5. a.job = j /\ a.number = m.attempt + 1 /\ a.token = IF fencing THEN grants + 1 ELSE 0
  OBVIOUS
<1>6. a # NoAttempt
  BY <1>1, <1>5, NoneIsNoWorker DEF NoAttempt
<1>7. \A b \in issued : /\ b.job \in Jobs /\ b.number \in Nat /\ b.token \in Nat
                        /\ b.token <= grants
                        /\ (b.job = j /\ b.token # 0) => b.number <= m.attempt
                        /\ Recorded(b)
  BY DEF TypeOK, Attempt, FenceInv, Recorded
<1> HIDE DEF j, fencing, m, g, a
<1>8. /\ statusFile'[j] = DISPATCHED /\ registry'[j].status = DISPATCHED
      /\ registry'[j].fenced = (m.fenced \/ fencing)
      /\ registry'[j].attempt = m.attempt + 1
      /\ registry'[j].token = a.token
      /\ \A k \in Jobs \ {j} : registry'[k] = registry[k] /\ statusFile'[k] = statusFile[k]
  BY <1>1, <1>3, <1>4, SaveStatusEffect
<1>9. /\ owner'[j] = a /\ writer'[j] = NoAttempt
      /\ \A k \in Jobs \ {j} : owner'[k] = owner[k] /\ writer'[k] = writer[k]
  BY <1>1, <1>3 DEF TypeOK
<1>10. ASSUME NEW k \in Jobs PROVE FenceOf(k)'
  <2>1. CASE k = j
    <3>1. fencing => registry'[j].fenced
      BY <1>8
    <3>2. ~registry'[j].fenced => a.token = 0
      BY <1>5, <3>1
    <3>3. registry'[j].token <= grants'
      BY <1>1, <1>3, <1>5, <1>8
    <3> QED
      BY <1>3, <1>5, <1>6, <1>8, <1>9, <2>1, <3>2, <3>3 DEF FenceOf
  <2>2. CASE k # j
    <3>1. FenceOf(k) /\ registry[k].token \in Nat
      BY DEF FenceInv, TypeOK, Record
    <3> QED
      BY <1>1, <1>3, <1>8, <1>9, <2>2, <3>1 DEF FenceOf
  <2> QED
    BY <2>1, <2>2
<1>11. ASSUME NEW b \in issued' PROVE Recorded(b)'
  <2>1. CASE b = a
    <3>1. a.token # 0 => registry'[j].fenced
      BY <1>5, <1>8
    <3> QED
      BY <1>1, <1>3, <1>5, <1>8, <2>1, <3>1 DEF Recorded
  <2>2. CASE b \in issued /\ b.job = j
    <3>1. b.token # 0 => registry'[j].fenced
      BY <1>7, <1>8, <2>2 DEF Recorded, m
    <3> QED
      BY <1>1, <1>3, <1>7, <1>8, <2>2, <3>1 DEF Recorded
  <2>3. CASE b \in issued /\ b.job # j
    BY <1>1, <1>3, <1>7, <1>8, <2>3 DEF Recorded
  <2> QED
    BY <1>3, <2>1, <2>2, <2>3
<1>12. TokensDistinct'
  BY <1>1, <1>3, <1>5, <1>7 DEF FenceInv, TokensDistinct
<1>13. FencedNumbersDistinct'
  BY <1>1, <1>3, <1>5, <1>7 DEF FenceInv, FencedNumbersDistinct
<1> QED
  BY <1>10, <1>11, <1>12, <1>13 DEF FenceInv

-----------------------------------------------------------------------------
(* FenceInv is inductive. *)

LEMMA FenceInit == Init => FenceInv
<1> SUFFICES ASSUME Init PROVE FenceInv
  OBVIOUS
<1>1. \A j \in Jobs : FenceOf(j)
  BY Statuses DEF Init, FenceOf, NoRecord, NoAttempt, Absent, LAUNCHING
<1> QED
  BY <1>1 DEF Init, FenceInv, TokensDistinct, FencedNumbersDistinct

\* The fence looks at the records, files, attempts and histories only.
LEMMA FenceUnchanged ==
    FenceInv /\ UNCHANGED <<registry, statusFile, issued, grants, owner, writer>> => FenceInv'
BY DEF FenceInv, FenceOf, Recorded, TokensDistinct, FencedNumbersDistinct

LEMMA FenceStep == TypeOK /\ FenceInv /\ [Next]_vars => FenceInv'
<1> USE Statuses DEF stores, worlds, history
<1> SUFFICES ASSUME TypeOK, FenceInv, [Next]_vars PROVE FenceInv'
  OBVIOUS
<1>a. \A j \in Jobs : registry[j] \in Record /\ statusFile[j] \in Status \cup {Absent}
  BY DEF TypeOK
<1>1. ASSUME NEW j \in Jobs, Launch(j) PROVE FenceInv'
  BY <1>1, LaunchKeepsFence
<1>2. ASSUME NEW j \in Jobs, Stop(j) PROVE FenceInv'
  <2> DEFINE s == StopOutcome(StatusNow(j))
  <2>1. CASE s # StatusNow(j)
    <3>1. statusFile[j] # Absent /\ s \in Status
      BY <1>2, StatusNowIsFile, StatusNowType, StopOutcomeType DEF Stop
    <3>2. s \notin {QUEUED, LAUNCHING}
      BY <2>1 DEF StopOutcome, QUEUED, LAUNCHING, CANCELED, STOP_REQUESTED
    <3>3. /\ SaveStatus(j, registry[j], s)
          /\ ByOrchestrator(j)
          /\ UNCHANGED <<issued, grants, owner>>
      BY <1>2, <2>1 DEF Stop
    <3> HIDE DEF s
    <3> QED
      BY <3>1, <3>2, <3>3, OverrideKeepsFence
  <2>2. CASE s = StatusNow(j)
    BY <1>2, <2>2, FenceUnchanged DEF Stop
  <2> QED
    BY <2>1, <2>2
<1>3. ASSUME NEW j \in Jobs, NEW force \in Forces, NEW host \in RequeueHosts,
             NEW mode \in RequeueModes, Requeue(j, force, host, mode)
      PROVE  FenceInv'
  <2> DEFINE preferred == RequeueHost(registry[j], host, mode)
             require == RequeueRequire(registry[j], mode)
             m == Returned(registry[j], preferred, require)
  <2>1. preferred \in Hosts /\ require \in BOOLEAN
    BY <1>a, RequestTypes, RecordTypes
  <2>2. /\ m \in Record
        /\ m.fenced = registry[j].fenced
        /\ m.token = registry[j].token
        /\ Written(m, statusFile[j], QUEUED).attempt >= registry[j].attempt
    <3>1. /\ m \in Record
          /\ m.fenced = registry[j].fenced
          /\ m.token = registry[j].token
          /\ m.attempt = registry[j].attempt
      BY <1>a, <2>1, RecordTypes, FenceKept
    <3> HIDE DEF m
    <3>2. Written(m, statusFile[j], QUEUED).attempt = m.attempt /\ m.attempt \in Nat
      BY <3>1, WrittenFields DEF Record
    <3> QED
      BY <3>1, <3>2
  <2>3. statusFile[j] # Absent /\ UNCHANGED <<issued, grants>>
    BY <1>3, StatusNowIsFile DEF Requeue
  <2>4. CASE SaveStatus(j, m, QUEUED) /\ ByOrchestrator(j) /\ Revoke(j)
    <3> HIDE DEF m
    <3> QED
      BY <2>2, <2>3, <2>4, ReturnKeepsFence
  <2>5. CASE UNCHANGED <<statusFile, registry, quiet, history>>
    BY <2>3, <2>5, FenceUnchanged
  <2> QED
    BY <1>3, <2>4, <2>5 DEF Requeue
<1>4. ASSUME NEW j \in Jobs, SweepRequeue(j) PROVE FenceInv'
  <2> DEFINE preferred == PreferredOf(registry[j])
             m == Returned(registry[j], preferred, registry[j].require)
  <2>1. preferred \in Hosts /\ registry[j].require \in BOOLEAN
    BY <1>a, RecordTypes DEF Record
  <2>2. /\ m \in Record
        /\ m.fenced = registry[j].fenced
        /\ m.token = registry[j].token
        /\ Written(m, statusFile[j], QUEUED).attempt >= registry[j].attempt
    <3>1. /\ m \in Record
          /\ m.fenced = registry[j].fenced
          /\ m.token = registry[j].token
          /\ m.attempt = registry[j].attempt
      BY <1>a, <2>1, RecordTypes, FenceKept
    <3> HIDE DEF m
    <3>2. Written(m, statusFile[j], QUEUED).attempt = m.attempt /\ m.attempt \in Nat
      BY <3>1, WrittenFields DEF Record
    <3> QED
      BY <3>1, <3>2
  <2>3. /\ statusFile[j] # Absent
        /\ SaveStatus(j, m, QUEUED) /\ ByOrchestrator(j) /\ Revoke(j)
        /\ UNCHANGED <<issued, grants>>
    BY <1>4, StatusNowIsFile DEF SweepRequeue, DISPATCHED, SETUP, Absent
  <2> HIDE DEF m
  <2> QED
    BY <2>2, <2>3, ReturnKeepsFence
<1>5. ASSUME NEW j \in Jobs, SweepFail(j) PROVE FenceInv'
  <2>1. statusFile[j] # Absent
    BY <1>5, StatusNowIsFile
       DEF SweepFail, Stale, Sweepable, Active, DISPATCHED, SETUP, RUNNING, RECOVERING,
                STOP_REQUESTED, Absent
  <2> QED
    BY <1>5, <2>1, OverrideKeepsFence DEF SweepFail
<1>6. ASSUME NEW w \in Workers, Dispatch(w) PROVE FenceInv'
  BY <1>6, DispatchKeepsFence
<1>7. ASSUME NEW w \in Workers,
             Claim(w) \/ SkipDispatch(w) \/ FailDispatch(w) \/ RemoveClaimed(w) \/ ReleaseClaimed(w)
      PROVE  FenceInv'
  BY <1>7, FenceUnchanged
     DEF Claim, SkipDispatch, FailDispatch, RemoveClaimed, ReleaseClaimed
<1>8. ASSUME NEW a \in issued, NEW status \in AgentStatuses, Report(a, status) PROVE FenceInv'
  BY <1>8, ReportKeepsFence
<1>9. ASSUME World PROVE FenceInv'
  BY <1>9, FenceUnchanged
     DEF World, Age, Acknowledge, LoseInputs, Lapse, Heartbeat, Persist, ExpireClaim
<1>10. CASE UNCHANGED vars
  BY <1>10, FenceUnchanged DEF vars
<1> QED
  BY <1>1, <1>2, <1>3, <1>4, <1>5, <1>6, <1>7, <1>8, <1>9, <1>10
     DEF Next, Operate, Sweep, PollStep

\* The record of every job agrees with its attempts in every reachable state.
THEOREM FenceInvariant == Spec => [](TypeOK /\ FenceInv)
BY TypeInit, TypeStep, FenceInit, FenceStep, PTL DEF Spec

-----------------------------------------------------------------------------
(* What follows. *)

\* _validate_agent_attempt lets through the reports of the last dispatch only,
\* and of nobody once the job was requeued: for any number of workers and jobs,
\* however late a report is and however often it is repeated.
THEOREM OnlyOwners == Spec => []OnlyOwnerValidates
<1>1. TypeOK /\ FenceInv => OnlyOwnerValidates
  BY OwnerReports DEF OnlyOwnerValidates
<1> QED
  BY <1>1, FenceInvariant, PTL

\* The stored status of a fenced job was never written by a revoked attempt.
THEOREM NoRevokedWriter == Spec => []FencedWriter
<1>1. FenceInv => FencedWriter
  BY DEF FenceInv, FenceOf, FencedWriter
<1> QED
  BY <1>1, FenceInvariant, PTL

\* No two dispatches of a job to workers that fence share an attempt number
\* (.attempts/<n>), whatever numbers late reports brought back before.
THEOREM NumbersDistinct == Spec => []FencedNumbersDistinct
<1>1. FenceInv => FencedNumbersDistinct
  BY DEF FenceInv
<1> QED
  BY <1>1, FenceInvariant, PTL

-----------------------------------------------------------------------------
(* JobLifecycle implements AttemptFencing. *)

\* How the live token and the author move with registry and writer.
LEMMA MappedWrite ==
    ASSUME NEW j \in Jobs, NEW t, NEW a,
           registry'[j].token = t, writer'[j].token = a,
           \A k \in Jobs \ {j} : /\ registry'[k].token = registry[k].token
                                 /\ writer'[k] = writer[k]
    PROVE  /\ liveToken' = [liveToken EXCEPT ![j] = t]
           /\ lastAuthor' = [lastAuthor EXCEPT ![j] = a]
BY DEF liveToken, lastAuthor

LEMMA Stutters ==
    ASSUME UNCHANGED grants,
           \A j \in Jobs : registry'[j].token = registry[j].token /\ writer'[j] = writer[j]
    PROVE  UNCHANGED Fencing!fencingVars
BY DEF liveToken, lastAuthor, Fencing!fencingVars

LEMMA ReturnWithdraws ==
    ASSUME TypeOK, FenceInv, NEW j \in Jobs, NEW m \in Record,
           m.fenced = registry[j].fenced, m.token = registry[j].token,
           SaveStatus(j, m, QUEUED), ByOrchestrator(j), UNCHANGED grants
    PROVE  Fencing!Withdraw(j)
<1>1. /\ registry'[j].token = 0
      /\ \A k \in Jobs \ {j} : registry'[k] = registry[k]
  <2>1. m.token = 0 \/ (statusFile[j] # QUEUED /\ m.fenced)
    BY DEF FenceInv, FenceOf
  <2> QED
    BY <2>1, Statuses, SaveStatusEffect
<1>2. writer'[j].token = 0 /\ \A k \in Jobs \ {j} : writer'[k] = writer[k]
  BY DEF TypeOK, ByOrchestrator, NoAttempt
<1>3. /\ liveToken' = [liveToken EXCEPT ![j] = 0]
      /\ lastAuthor' = [lastAuthor EXCEPT ![j] = 0]
  BY <1>1, <1>2, MappedWrite
<1> QED
  BY <1>3 DEF Fencing!Withdraw

LEMMA OwnWriteOverrides ==
    ASSUME TypeOK, NEW j \in Jobs, NEW s \in Status, s # QUEUED,
           SaveStatus(j, registry[j], s), ByOrchestrator(j), UNCHANGED grants
    PROVE  Fencing!Override(j)
<1>1. /\ registry'[j].token = registry[j].token
      /\ \A k \in Jobs \ {j} : registry'[k] = registry[k]
  BY SaveStatusEffect DEF TypeOK
<1>2. writer'[j].token = 0 /\ \A k \in Jobs \ {j} : writer'[k] = writer[k]
  BY DEF TypeOK, ByOrchestrator, NoAttempt
<1>3. /\ liveToken' = [liveToken EXCEPT ![j] = registry[j].token]
      /\ lastAuthor' = [lastAuthor EXCEPT ![j] = 0]
  BY <1>1, <1>2, MappedWrite
<1> QED
  BY <1>3 DEF Fencing!Override, liveToken

LEMMA ReportPublishes ==
    ASSUME TypeOK, FenceInv, NEW a \in issued, NEW status \in AgentStatuses,
           Report(a, status)
    PROVE  Fencing!Withdraw(a.job) \/ Fencing!Publish(a.job)
<1> DEFINE j == a.job
           s == Reported(j, status)
<1>1. a \in Attempt /\ j \in Jobs /\ a.worker \in Workers /\ registry[j] \in Record
  BY DEF TypeOK, Attempt
<1>2. s \in Status
  BY RequestTypes, Statuses DEF Reported, Status
<1>3. PICK m \in Record :
        /\ SaveStatus(j, m, s)
        /\ m.fenced = registry[j].fenced
        /\ m.token = registry[j].token
  BY ReportSaves
<1>4. UNCHANGED grants /\ Validates(registry[j], a)
  BY DEF Report
<1>5. CASE s = QUEUED
  <2>1. ByOrchestrator(j)
    BY <1>5 DEF Report
  <2> HIDE DEF j, s
  <2>2. Fencing!Withdraw(j)
    BY <1>1, <1>3, <1>4, <1>5, <2>1, ReturnWithdraws
  <2> QED
    BY <2>2 DEF j
<1>6. CASE s # QUEUED
  <2>1. writer' = [writer EXCEPT ![j] = a]
    BY <1>6 DEF Report
  <2>2. a.token = registry[j].token
    <3>1. CASE registry[j].fenced
      BY <1>4, <3>1 DEF Validates
    <3>2. CASE ~registry[j].fenced
      BY <1>1, <3>2 DEF FenceInv, FenceOf, Recorded
    <3> QED
      BY <3>1, <3>2
  <2>3. writer'[j].token = registry[j].token /\ \A k \in Jobs \ {j} : writer'[k] = writer[k]
    BY <1>1, <2>1, <2>2 DEF TypeOK
  <2> HIDE DEF j, s
  <2>4. /\ registry'[j].token = registry[j].token
        /\ \A k \in Jobs \ {j} : registry'[k] = registry[k]
    BY <1>1, <1>2, <1>3, <1>4, <1>6, SaveStatusEffect
  <2>5. /\ liveToken' = [liveToken EXCEPT ![j] = registry[j].token]
        /\ lastAuthor' = [lastAuthor EXCEPT ![j] = registry[j].token]
    BY <1>1, <2>3, <2>4, MappedWrite
  <2>6. liveToken[j] = registry[j].token /\ liveToken' = liveToken
    BY <1>1, <2>5 DEF liveToken
  <2>7. Fencing!Publish(j)
    BY <1>4, <2>5, <2>6 DEF Fencing!Publish
  <2> QED
    BY <2>7 DEF j
<1> QED
  BY <1>5, <1>6

LEMMA DispatchGrants ==
    ASSUME TypeOK, FenceInv, NEW w \in Workers, Dispatch(w)
    PROVE  Fencing!Grant(poll[w].job)
<1> DEFINE j == poll[w].job
           fencing == poll[w].fencing
           g == Granted(registry[j], w, fencing)
<1>1. j \in Jobs /\ fencing \in BOOLEAN /\ registry[j] \in Record /\ grants \in Nat
  BY PollTypes DEF Dispatch, TypeOK
<1>2. /\ SaveStatus(j, g, DISPATCHED)
      /\ grants' = grants + 1
      /\ writer' = [writer EXCEPT ![j] = NoAttempt]
  BY DEF Dispatch, ByOrchestrator
<1>3. g \in Record /\ g.token \in {registry[j].token, grants + 1}
  BY <1>1, GrantedType
<1> HIDE DEF j, fencing, g
<1>4. /\ registry'[j].token = g.token
      /\ \A k \in Jobs \ {j} : registry'[k] = registry[k]
  BY <1>1, <1>2, <1>3, Statuses, SaveStatusEffect
<1>5. writer'[j].token = 0 /\ \A k \in Jobs \ {j} : writer'[k] = writer[k]
  BY <1>1, <1>2 DEF TypeOK, NoAttempt
<1>6. /\ liveToken' = [liveToken EXCEPT ![j] = g.token]
      /\ lastAuthor' = [lastAuthor EXCEPT ![j] = 0]
  BY <1>1, <1>4, <1>5, MappedWrite
<1>7. [liveToken EXCEPT ![j] = registry[j].token] = liveToken
  BY <1>1 DEF liveToken
<1>8. Fencing!Grant(j)
  BY <1>2, <1>3, <1>6, <1>7 DEF Fencing!Grant
<1> QED
  BY <1>8 DEF j

\* A launched job had no token, and gets none.
LEMMA LaunchStutters ==
    ASSUME TypeOK, FenceInv, NEW j \in Jobs, Launch(j)
    PROVE  UNCHANGED Fencing!fencingVars
<1> PICK host \in LaunchHosts : SaveStatus(j, LaunchRecord(host), QUEUED)
  BY DEF Launch
<1>1. host \in Hosts /\ LaunchRecord(host) \in Record
  BY RequestTypes, RecordTypes DEF TypeOK
<1>2. LaunchRecord(host).fenced = FALSE /\ LaunchRecord(host).token = 0
  BY <1>1 DEF LaunchRecord, NoRecord
<1>3. registry'[j].token = 0 /\ \A k \in Jobs \ {j} : registry'[k] = registry[k]
  BY <1>1, <1>2, Statuses, SaveStatusEffect
<1>4. statusFile[j] = Absent
  BY DEF Launch, Launchable, FenceInv, FenceOf
<1>5. owner[j] = NoAttempt
  BY <1>4 DEF FenceInv, FenceOf, Recorded
<1>6. registry[j].token = 0
  BY <1>5 DEF FenceInv, FenceOf, NoAttempt
<1>7. UNCHANGED <<grants, writer>>
  BY DEF Launch, history
<1> QED
  BY <1>3, <1>6, <1>7, Stutters

-----------------------------------------------------------------------------
LEMMA ImplementationInit == Init => Fencing!FencingInit
BY DEF Init, NoRecord, NoAttempt, liveToken, lastAuthor, Fencing!FencingInit

LEMMA ImplementationStep ==
    TypeOK /\ FenceInv /\ [Next]_vars => [Fencing!FencingNext]_(Fencing!fencingVars)
<1> USE DEF stores, worlds, history
<1> SUFFICES ASSUME TypeOK, FenceInv, [Next]_vars
             PROVE  Fencing!FencingNext \/ UNCHANGED Fencing!fencingVars
  OBVIOUS
<1>a. \A j \in Jobs : registry[j] \in Record /\ statusFile[j] \in Status \cup {Absent}
  BY DEF TypeOK
<1>1. ASSUME NEW j \in Jobs, Launch(j) PROVE UNCHANGED Fencing!fencingVars
  BY <1>1, LaunchStutters
<1>2. ASSUME NEW j \in Jobs, Stop(j)
      PROVE  Fencing!Override(j) \/ UNCHANGED Fencing!fencingVars
  <2> DEFINE s == StopOutcome(StatusNow(j))
  <2>1. CASE s # StatusNow(j)
    <3>1. s \in Status
      BY <1>2, StatusNowType, StopOutcomeType DEF Stop
    <3>2. s # QUEUED
      BY <2>1 DEF StopOutcome, QUEUED, LAUNCHING, CANCELED, STOP_REQUESTED
    <3>3. SaveStatus(j, registry[j], s) /\ ByOrchestrator(j) /\ UNCHANGED grants
      BY <1>2, <2>1 DEF Stop
    <3> HIDE DEF s
    <3> QED
      BY <3>1, <3>2, <3>3, OwnWriteOverrides
  <2>2. CASE s = StatusNow(j)
    BY <1>2, <2>2, Stutters DEF Stop
  <2> QED
    BY <2>1, <2>2
<1>3. ASSUME NEW j \in Jobs, NEW force \in Forces, NEW host \in RequeueHosts,
             NEW mode \in RequeueModes, Requeue(j, force, host, mode)
      PROVE  Fencing!Withdraw(j) \/ UNCHANGED Fencing!fencingVars
  <2> DEFINE preferred == RequeueHost(registry[j], host, mode)
             require == RequeueRequire(registry[j], mode)
             m == Returned(registry[j], preferred, require)
  <2>1. preferred \in Hosts /\ require \in BOOLEAN
    BY <1>a, RequestTypes, RecordTypes
  <2>2. m \in Record /\ m.fenced = registry[j].fenced /\ m.token = registry[j].token
    BY <1>a, <2>1, RecordTypes, FenceKept
  <2>3. UNCHANGED grants
    BY <1>3 DEF Requeue
  <2>4. CASE SaveStatus(j, m, QUEUED) /\ ByOrchestrator(j) /\ Revoke(j)
    <3> HIDE DEF m
    <3> QED
      BY <2>2, <2>3, <2>4, ReturnWithdraws
  <2>5. CASE UNCHANGED <<statusFile, registry, quiet, history>>
    BY <2>3, <2>5, Stutters
  <2> QED
    BY <1>3, <2>4, <2>5 DEF Requeue
<1>4. ASSUME NEW j \in Jobs, SweepRequeue(j) PROVE Fencing!Withdraw(j)
  <2> DEFINE preferred == PreferredOf(registry[j])
             m == Returned(registry[j], preferred, registry[j].require)
  <2>1. preferred \in Hosts /\ registry[j].require \in BOOLEAN
    BY <1>a, RecordTypes DEF Record
  <2>2. m \in Record /\ m.fenced = registry[j].fenced /\ m.token = registry[j].token
    BY <1>a, <2>1, RecordTypes, FenceKept
  <2>3. SaveStatus(j, m, QUEUED) /\ ByOrchestrator(j) /\ UNCHANGED grants
    BY <1>4 DEF SweepRequeue
  <2> HIDE DEF m
  <2> QED
    BY <2>2, <2>3, ReturnWithdraws
<1>5. ASSUME NEW j \in Jobs, SweepFail(j) PROVE Fencing!Override(j)
  BY <1>5, Statuses, OwnWriteOverrides DEF SweepFail
<1>6. ASSUME NEW w \in Workers, Dispatch(w) PROVE \E j \in Jobs : Fencing!Grant(j)
  <2>1. poll[w].job \in Jobs
    BY <1>6, PollTypes DEF Dispatch, TypeOK
  <2> QED
    BY <1>6, <2>1, DispatchGrants
<1>7. ASSUME NEW w \in Workers,
             Claim(w) \/ SkipDispatch(w) \/ FailDispatch(w) \/ RemoveClaimed(w) \/ ReleaseClaimed(w)
      PROVE  UNCHANGED Fencing!fencingVars
  BY <1>7, Stutters
     DEF Claim, SkipDispatch, FailDispatch, RemoveClaimed, ReleaseClaimed
<1>8. ASSUME NEW a \in issued, NEW status \in AgentStatuses, Report(a, status)
      PROVE  \E j \in Jobs : Fencing!Withdraw(j) \/ Fencing!Publish(j)
  <2>1. a.job \in Jobs
    BY DEF TypeOK, Attempt
  <2> QED
    BY <1>8, <2>1, ReportPublishes
<1>9. ASSUME World PROVE UNCHANGED Fencing!fencingVars
  BY <1>9, Stutters
     DEF World, Age, Acknowledge, LoseInputs, Lapse, Heartbeat, Persist, ExpireClaim
<1>10. CASE UNCHANGED vars
  BY <1>10, Stutters DEF vars
<1> QED
  BY <1>1, <1>2, <1>3, <1>4, <1>5, <1>6, <1>7, <1>8, <1>9, <1>10
     DEF Next, Operate, Sweep, PollStep, Fencing!FencingNext

\* The handlers of job_service.py follow the fencing protocol: whatever it
\* guarantees (LiveAuthors, NoRevival) holds of them.
THEOREM FencingImplemented == Spec => ImplementsFencing
<1>1. TypeOK /\ FenceInv /\ [Next]_vars => [Fencing!FencingNext]_(Fencing!fencingVars)
  BY ImplementationStep
<1> QED
  BY <1>1, ImplementationInit, FenceInvariant, PTL
     DEF Spec, ImplementsFencing, Fencing!FencingSpec

-----------------------------------------------------------------------------
(* Queued jobs are forgotten by errors only. *)

KeepsTrack == \A k \in Jobs : Tracked(k) => Tracked(k)'

\* With the file store a poll has nothing left to do after its dispatch.
PollsEnd == \A w \in Workers : poll[w].pc \in {"idle", "claimed"}

LEMMA PollsEndInit == Init => PollsEnd
BY DEF Init, PollsEnd, Idle

LEMMA PollsEndStep ==
    ASSUME ~SqlStore
    PROVE  TypeOK /\ PollsEnd /\ [Next]_vars => PollsEnd'
<1> USE DEF stores, worlds, history
<1> SUFFICES ASSUME TypeOK, PollsEnd, [Next]_vars PROVE PollsEnd'
  OBVIOUS
<1>1. ASSUME NEW w \in Workers, PollStep(w) PROVE PollsEnd'
  <2>1. CASE Claim(w)
    BY <2>1 DEF Claim, TypeOK, PollsEnd
  <2>2. CASE SkipDispatch(w) \/ FailDispatch(w) \/ Dispatch(w)
    BY <2>2 DEF SkipDispatch, FailDispatch, Dispatch, AfterDispatch, TypeOK, PollsEnd, Idle
  <2>3. CASE RemoveClaimed(w) \/ ReleaseClaimed(w)
    BY <2>3 DEF RemoveClaimed, ReleaseClaimed, PollsEnd
  <2> QED
    BY <1>1, <2>1, <2>2, <2>3 DEF PollStep
<1>2. CASE UNCHANGED poll
  BY <1>2 DEF PollsEnd
<1> QED
  BY <1>1, <1>2
     DEF Next, Launch, Operate, Stop, Requeue, Sweep, SweepRequeue, SweepFail, Report, World,
         Age, Acknowledge, LoseInputs, Lapse, Heartbeat, Persist, ExpireClaim, vars

LEMMA RemovedKeepsOthers ==
    ASSUME NEW q \in SUBSET Entry, NEW j, NEW e \in q, e.job # j
    PROVE  \E f \in RemovedFrom(q, j) : f.job = e.job
<1>1. [e EXCEPT !.ahead = @ \ {j}] \in RemovedFrom(q, j)
  BY DEF RemovedFrom
<1>2. [e EXCEPT !.ahead = @ \ {j}].job = e.job
  BY DEF Entry
<1> QED
  BY <1>1, <1>2

LEMMA EnqueuedKeepsOthers ==
    ASSUME NEW q \in SUBSET Entry, NEW j, NEW p, NEW r
    PROVE  /\ \E e \in EnqueuedIn(q, j, p, r) : e.job = j
           /\ RemovedFrom(q, j) \subseteq EnqueuedIn(q, j, p, r)
<1> DEFINE n == [job |-> j, preferred |-> p, require |-> r, claim |-> None,
                 ahead |-> {e.job : e \in RemovedFrom(q, j)}]
<1>1. n \in EnqueuedIn(q, j, p, r) /\ n.job = j
  BY DEF EnqueuedIn
<1>2. RemovedFrom(q, j) \subseteq EnqueuedIn(q, j, p, r)
  BY DEF EnqueuedIn
<1> QED
  BY <1>1, <1>2

\* A write of one job, with its entry replaced or removed, keeps track of all.
LEMMA WriteTracks ==
    ASSUME TypeOK, NEW j \in Jobs, NEW s \in Status,
           statusFile' = [statusFile EXCEPT ![j] = s],
           UNCHANGED poll,
           \/ s # QUEUED /\ queue' = RemovedFrom(queue, j)
           \/ \E p, r : queue' = EnqueuedIn(queue, j, p, r)
    PROVE  KeepsTrack
<1>1. queue \in SUBSET Entry
  BY DEF TypeOK
<1>a. statusFile'[j] = s /\ \A k \in Jobs \ {j} : statusFile'[k] = statusFile[k]
  BY DEF TypeOK
<1>b. s = QUEUED => \E e \in queue' : e.job = j
  <2> HAVE s = QUEUED
  <2> PICK p, r : queue' = EnqueuedIn(queue, j, p, r)
    OBVIOUS
  <2>1. \E e \in EnqueuedIn(queue, j, p, r) : e.job = j
    BY <1>1, EnqueuedKeepsOthers
  <2> QED
    BY <2>1
<1>c. ASSUME NEW k, k # j, \E e \in queue : e.job = k
      PROVE  \E e \in queue' : e.job = k
  <2> PICK e \in queue : e.job = k
    BY <1>c
  <2>0. \E f \in RemovedFrom(queue, j) : f.job = k
    BY <1>1, <1>c, RemovedKeepsOthers
  <2>1. CASE queue' = RemovedFrom(queue, j)
    BY <2>0, <2>1
  <2>2. CASE \E p, r : queue' = EnqueuedIn(queue, j, p, r)
    <3> PICK p, r : queue' = EnqueuedIn(queue, j, p, r)
      BY <2>2
    <3>1. RemovedFrom(queue, j) \subseteq EnqueuedIn(queue, j, p, r)
      BY <1>1, EnqueuedKeepsOthers
    <3> QED
      BY <2>0, <3>1
  <2> QED
    BY <2>1, <2>2
<1>2. ASSUME NEW k \in Jobs, Tracked(k), statusFile'[k] = QUEUED PROVE Tracked(k)'
  <2>1. CASE k = j
    <3>1. \E e \in queue' : e.job = j
      BY <1>2, <1>a, <1>b, <2>1
    <3> QED
      BY <2>1, <3>1 DEF Tracked, Waiting
  <2>2. CASE k # j
    <3>1. \/ \E e \in queue : e.job = k
          \/ \E w \in Workers : poll[w].pc = "claimed" /\ poll[w].job = k
      BY <1>2, <1>a, <2>2 DEF Tracked, Waiting
    <3>2. (\E e \in queue : e.job = k) => \E e \in queue' : e.job = k
      BY <1>c, <2>2
    <3> QED
      BY <3>1, <3>2 DEF Tracked, Waiting
  <2> QED
    BY <2>1, <2>2
<1> QED
  BY <1>2 DEF KeepsTrack, Tracked

\* A poll that pops an entry has claimed its job.
LEMMA ClaimTracks ==
    ASSUME ~SqlStore, TypeOK, NEW w \in Workers, Claim(w)
    PROVE  KeepsTrack
<1> PICK fencing \in PollKinds(w), e \in queue :
      /\ queue' = RemovedFrom(queue, e.job)
      /\ poll' = [poll EXCEPT ![w] = [pc |-> "claimed", job |-> e.job,
                                      fencing |-> fencing, reply |-> NoAttempt]]
  BY DEF Claim
<1>1. /\ poll[w].pc = "idle"
      /\ poll'[w].pc = "claimed" /\ poll'[w].job = e.job
      /\ \A v \in Workers \ {w} : poll'[v] = poll[v]
      /\ UNCHANGED statusFile
  BY DEF Claim, TypeOK
<1>2. ASSUME NEW k \in Jobs, Tracked(k), statusFile'[k] = QUEUED PROVE Tracked(k)'
  <2>1. \/ \E f \in queue : f.job = k
        \/ \E v \in Workers \ {w} : poll[v].pc = "claimed" /\ poll[v].job = k
    BY <1>1, <1>2 DEF Tracked, Waiting
  <2>2. CASE k = e.job
    BY <1>1, <2>2 DEF Tracked
  <2>3. CASE k # e.job
    <3>1. queue \in SUBSET Entry
      BY DEF TypeOK
    <3>2. ASSUME NEW f \in queue, f.job = k PROVE \E g \in queue' : g.job = k
      <4> DEFINE j == e.job
      <4>1. queue' = RemovedFrom(queue, j) /\ f.job # j
        BY <2>3, <3>2
      <4> HIDE DEF j
      <4> QED
        BY <3>1, <3>2, <4>1, RemovedKeepsOthers
    <3> QED
      BY <1>1, <2>1, <3>2 DEF Tracked, Waiting
  <2> QED
    BY <2>2, <2>3
<1> QED
  BY <1>2 DEF KeepsTrack, Tracked

\* A poll that is done with its job leaves no queued job behind, unless it failed.
LEMMA PollTracks ==
    ASSUME ~SqlStore, TypeOK, FenceInv, NEW w \in Workers, NEW k \in Jobs,
           SkipDispatch(w) \/ FailDispatch(w) \/ Dispatch(w), Tracked(k), ~Tracked(k)'
    PROVE  poll[w].job = k /\ FailDispatch(w)
<1> USE Statuses DEF stores, worlds, history
<1> DEFINE j == poll[w].job
<1>1. poll[w].pc = "claimed" /\ UNCHANGED queue
  BY DEF SkipDispatch, FailDispatch, Dispatch
<1>2. poll' = [poll EXCEPT ![w] = Idle]
  BY DEF SkipDispatch, FailDispatch, Dispatch, AfterDispatch
<1>3. j \in Jobs /\ \A v \in Workers \ {w} : poll'[v] = poll[v]
  BY <1>1, <1>2, PollTypes DEF TypeOK
<1>4. \A i \in Jobs \ {j} : statusFile'[i] = statusFile[i]
  BY <1>3 DEF SkipDispatch, FailDispatch, Dispatch, SaveStatus, TypeOK
<1>5. k = j
  BY <1>1, <1>3, <1>4 DEF Tracked, Waiting
<1>6. statusFile'[j] = QUEUED
  BY <1>5 DEF Tracked
<1>7. ~SkipDispatch(w)
  BY <1>3, <1>6, StatusNowIsFile DEF SkipDispatch, Dispatchable
<1>8. ~Dispatch(w)
  BY <1>3, <1>6 DEF Dispatch, SaveStatus, TypeOK
<1> QED
  BY <1>5, <1>7, <1>8

LEMMA ReportTracks ==
    ASSUME TypeOK, NEW a \in issued, NEW status \in AgentStatuses, Report(a, status),
           NEW k \in Jobs, Tracked(k), ~Tracked(k)'
    PROVE  a.job = k /\ status = QUEUED
<1> DEFINE j == a.job
           s == Reported(j, status)
<1>1. j \in Jobs /\ s \in Status
  BY RequestTypes DEF TypeOK, Attempt, Reported, Status
<1>2. s = QUEUED => status = QUEUED
  BY DEF Reported, STOP_REQUESTED, QUEUED
<1>3. statusFile' = [statusFile EXCEPT ![j] = s] /\ UNCHANGED poll
  BY DEF Report, SaveOneOf
<1>4. s # QUEUED => queue' = RemovedFrom(queue, j)
  BY DEF Report
<1>5. s = QUEUED => UNCHANGED queue
  BY DEF Report
<1> HIDE DEF j, s
<1>6. s = QUEUED
  BY <1>1, <1>3, <1>4, WriteTracks DEF KeepsTrack
<1>7. k = j
  BY <1>1, <1>3, <1>5, <1>6 DEF TypeOK, Tracked, Waiting
<1> QED
  BY <1>2, <1>6, <1>7 DEF j

LEMMA TrackStep ==
    ASSUME ~SqlStore, TypeOK, FenceInv, PollsEnd, [Next]_vars,
           NEW k \in Jobs, Tracked(k), ~Tracked(k)'
    PROVE  \/ \E w \in Workers : poll[w].job = k /\ FailDispatch(w)
           \/ \E a \in issued : a.job = k /\ Report(a, QUEUED)
<1> USE Statuses DEF stores, worlds, history
<1>a. \A j \in Jobs : statusFile[j] \in Status \cup {Absent}
  BY DEF TypeOK
<1>b. ~KeepsTrack
  BY DEF KeepsTrack
<1>1. ASSUME NEW j \in Jobs, Launch(j) PROVE KeepsTrack
  <2>1. \E host \in LaunchHosts : queue' = EnqueuedIn(queue, j, host, host # None)
    BY <1>1 DEF Launch
  <2>2. statusFile' = [statusFile EXCEPT ![j] = QUEUED] /\ UNCHANGED poll
    BY <1>1 DEF Launch, SaveStatus
  <2> QED
    BY <2>1, <2>2, WriteTracks
<1>2. ASSUME NEW j \in Jobs, Stop(j) PROVE KeepsTrack
  <2> DEFINE s == StopOutcome(StatusNow(j))
  <2>0. StatusNow(j) = statusFile[j]
    BY StatusNowIsFile
  <2>1. s \in Status /\ s # QUEUED
    <3>1. StatusNow(j) \in Status
      BY <1>2, StatusNowType DEF Stop
    <3> QED
      BY <3>1, StopOutcomeType
         DEF StopOutcome, QUEUED, LAUNCHING, CANCELED, STOP_REQUESTED
  <2>2. statusFile' = [statusFile EXCEPT ![j] = s]
    BY <1>2, <2>0 DEF Stop, SaveStatus, TypeOK
  <2>3. queue' = RemovedFrom(queue, j) /\ UNCHANGED poll
    BY <1>2 DEF Stop
  <2> HIDE DEF s
  <2> QED
    BY <2>1, <2>2, <2>3, WriteTracks
<1>3. ASSUME NEW j \in Jobs, NEW force \in Forces, NEW host \in RequeueHosts,
             NEW mode \in RequeueModes, Requeue(j, force, host, mode)
      PROVE  KeepsTrack
  <2>1. \E p, r : queue' = EnqueuedIn(queue, j, p, r)
    BY <1>3 DEF Requeue
  <2>2. /\ \/ statusFile' = [statusFile EXCEPT ![j] = QUEUED]
           \/ statusFile' = [statusFile EXCEPT ![j] = statusFile[j]]
        /\ statusFile[j] \in Status
        /\ UNCHANGED poll
    BY <1>3, <1>a, StatusNowIsFile DEF Requeue, SaveStatus, TypeOK
  <2> QED
    BY <2>1, <2>2, WriteTracks
<1>4. ASSUME NEW j \in Jobs, SweepRequeue(j) PROVE KeepsTrack
  <2>1. /\ \E p, r : queue' = EnqueuedIn(queue, j, p, r)
        /\ statusFile' = [statusFile EXCEPT ![j] = QUEUED]
        /\ UNCHANGED poll
    BY <1>4 DEF SweepRequeue, SaveStatus
  <2> QED
    BY <2>1, WriteTracks
<1>5. ASSUME NEW j \in Jobs, SweepFail(j) PROVE KeepsTrack
  <2>1. statusFile' = [statusFile EXCEPT ![j] = FAILED] /\ UNCHANGED <<queue, poll>>
    BY <1>5 DEF SweepFail, SaveStatus
  <2> QED
    BY <2>1 DEF KeepsTrack, Tracked, Waiting, TypeOK
<1>6. ASSUME NEW w \in Workers, Claim(w) PROVE KeepsTrack
  BY <1>6, ClaimTracks
<1>7. ASSUME NEW w \in Workers, SkipDispatch(w) \/ FailDispatch(w) \/ Dispatch(w)
      PROVE  poll[w].job = k /\ FailDispatch(w)
  BY <1>7, PollTracks
<1>8. ASSUME NEW w \in Workers, RemoveClaimed(w) \/ ReleaseClaimed(w) PROVE FALSE
  BY <1>8 DEF RemoveClaimed, ReleaseClaimed, PollsEnd
<1>9. ASSUME NEW a \in issued, NEW status \in AgentStatuses, Report(a, status)
      PROVE  a.job = k /\ Report(a, QUEUED)
  BY <1>9, ReportTracks
<1>10. ASSUME World PROVE KeepsTrack
  <2>1. ASSUME NEW e \in queue, ExpireClaim(e) PROVE KeepsTrack
    <3>1. [e EXCEPT !.claim = None].job = e.job
      BY DEF TypeOK, Entry
    <3>2. queue' = (queue \ {e}) \cup {[e EXCEPT !.claim = None]}
      BY <2>1 DEF ExpireClaim
    <3>3. Waiting \subseteq Waiting'
      BY <3>1, <3>2 DEF Waiting
    <3> QED
      BY <2>1, <3>3 DEF ExpireClaim, KeepsTrack, Tracked
  <2>2. ASSUME NEW j \in Jobs, Age(j) \/ Acknowledge(j) \/ LoseInputs(j) PROVE KeepsTrack
    BY <2>2 DEF Age, Acknowledge, LoseInputs, KeepsTrack, Tracked, Waiting
  <2>3. ASSUME NEW w \in Workers, Lapse(w) \/ Heartbeat(w) PROVE KeepsTrack
    BY <2>3 DEF Lapse, Heartbeat, KeepsTrack, Tracked, Waiting
  <2>4. ASSUME NEW a \in issued, Persist(a) PROVE KeepsTrack
    BY <2>4 DEF Persist, KeepsTrack, Tracked, Waiting
  <2> QED
    BY <1>10, <2>1, <2>2, <2>3, <2>4 DEF World
<1>11. ~UNCHANGED vars
  BY DEF vars, Tracked, Waiting
<1> QED
  BY <1>b, <1>1, <1>2, <1>3, <1>4, <1>5, <1>6, <1>7, <1>8, <1>9, <1>10, <1>11
     DEF Next, Operate, Sweep, PollStep

\* With the file queue a job that is queued keeps an entry or a poll that will
\* look at it, in every interleaving of polls, sweeps, stops, requeues and late
\* reports: only a failed dispatch (_agent_next_job_locked restores nothing) and
\* a worker's own queued report (agent_update_status enqueues nothing) lose it.
THEOREM QueuedJobsTracked ==
    ASSUME ~SqlStore
    PROVE  Spec => ForgottenOnlyByError
<1>1. TypeOK /\ FenceInv /\ PollsEnd /\ [Next]_vars =>
        [\A j \in Jobs : (Tracked(j) /\ ~Tracked(j)') =>
            \/ \E w \in Workers : poll[w].job = j /\ FailDispatch(w)
            \/ \E a \in issued : a.job = j /\ Report(a, QUEUED)]_vars
  <2> SUFFICES ASSUME TypeOK, FenceInv, PollsEnd, [Next]_vars, NEW j \in Jobs,
                      Tracked(j), ~Tracked(j)'
               PROVE  \/ \E w \in Workers : poll[w].job = j /\ FailDispatch(w)
                      \/ \E a \in issued : a.job = j /\ Report(a, QUEUED)
    OBVIOUS
  <2> QED
    BY TrackStep
<1>2. TypeOK /\ PollsEnd /\ [Next]_vars => PollsEnd'
  BY PollsEndStep
<1> QED
  BY <1>1, <1>2, PollsEndInit, FenceInvariant, PTL DEF Spec, ForgottenOnlyByError

-----------------------------------------------------------------------------
(* Outcomes and requested stops. *)

\* The table has no way out of an outcome, and only endings out of a stop.
LEMMA NoWayOut ==
    /\ \A prev \in Terminal, s \in Status \ {UNKNOWN, NOT_FOUND, LAUNCHING} :
          Writable(prev, s) => s = prev
    /\ \A prev \in Terminal \cup {STOP_REQUESTED} : ~Writable(prev, LAUNCHING)
    /\ \A s \in Status \ {UNKNOWN, NOT_FOUND} :
          Writable(STOP_REQUESTED, s) => s \in Terminal \cup {STOP_REQUESTED}
BY DEF Writable, can_transition, AllowedFrom, Terminal, Status, Absent, LAUNCHING, QUEUED,
       DISPATCHED, SETUP, RUNNING, RECOVERING, FINISHED, FAILED, STOP_REQUESTED, STOPPED,
       NOT_FOUND, UNKNOWN, CANCELED

\* What the steps that are not an operator's requeue may make of an outcome or a
\* requested stop.
Keeps(j) ==
    \/ statusFile'[j] = statusFile[j]
    \/ statusFile[j] = STOP_REQUESTED /\ statusFile'[j] \in Terminal

\* What may become of a status that is an outcome or a requested stop.
Stands(j) ==
    \/ statusFile'[j] = statusFile[j]
    \/ /\ statusFile'[j] = QUEUED /\ owner'[j] = NoAttempt
       /\ statusFile[j] = STOP_REQUESTED => TRUE \in Forces
    \/ statusFile[j] = STOP_REQUESTED /\ statusFile'[j] \in Terminal

LEMMA KeepsStep ==
    ASSUME DefiniteReports, TypeOK,
           \/ \E w \in Workers : PollStep(w)
           \/ \E j \in Jobs : Launch(j) \/ Stop(j) \/ Sweep(j)
           \/ \E a \in issued, s \in AgentStatuses : Report(a, s)
           \/ World
           \/ UNCHANGED vars,
           NEW k \in Jobs, statusFile[k] \in Terminal \cup {STOP_REQUESTED}
    PROVE  Keeps(k)
<1> USE DEF stores, worlds, history
<1>a. /\ statusFile[k] \notin {Absent, LAUNCHING, QUEUED, DISPATCHED, SETUP, RUNNING, RECOVERING}
      /\ FAILED \in Terminal
      /\ StatusNow(k) = statusFile[k]
  BY DEF StatusNow, Terminal, Absent, LAUNCHING, QUEUED, DISPATCHED, SETUP, RUNNING, RECOVERING,
         FINISHED, FAILED, STOPPED, CANCELED, STOP_REQUESTED
<1>1. ASSUME NEW j \in Jobs, Launch(j) PROVE Keeps(k)
  <2>1. k # j
    BY <1>1, NoWayOut DEF Launch, Launchable
  <2> QED
    BY <1>1, <2>1 DEF Launch, SaveStatus, TypeOK, Keeps
<1>2. ASSUME NEW j \in Jobs, Stop(j) PROVE Keeps(k)
  <2>1. CASE k = j
    <3>1. StopOutcome(StatusNow(k)) = StatusNow(k)
      BY <1>a DEF StopOutcome
    <3> QED
      BY <1>2, <2>1, <3>1 DEF Stop, Keeps
  <2>2. CASE k # j
    BY <1>2, <2>2 DEF Stop, SaveStatus, TypeOK, Keeps
  <2> QED
    BY <2>1, <2>2
<1>4. ASSUME NEW j \in Jobs, SweepRequeue(j) PROVE Keeps(k)
  <2>1. k # j
    BY <1>4, <1>a DEF SweepRequeue
  <2> QED
    BY <1>4, <2>1 DEF SweepRequeue, SaveStatus, TypeOK, Keeps
<1>5. ASSUME NEW j \in Jobs, SweepFail(j) PROVE Keeps(k)
  <2>1. /\ statusFile' = [statusFile EXCEPT ![j] = FAILED]
        /\ statusFile[j] # Absent => statusFile[j] \in Active
    BY <1>5 DEF SweepFail, SaveStatus, Stale, Sweepable, StatusNow
  <2>2. statusFile[j] \in Terminal \cup {STOP_REQUESTED} => statusFile[j] = STOP_REQUESTED
    BY <2>1 DEF Active, Terminal, Absent, DISPATCHED, SETUP, RUNNING, RECOVERING,
                STOP_REQUESTED, FINISHED, FAILED, STOPPED, CANCELED
  <2> QED
    BY <1>a, <2>1, <2>2 DEF TypeOK, Keeps
<1>6. ASSUME NEW w \in Workers, Dispatch(w) PROVE Keeps(k)
  <2>1. k # poll[w].job
    BY <1>6, <1>a DEF Dispatch, Dispatchable
  <2> QED
    BY <1>6, <2>1 DEF Dispatch, SaveStatus, TypeOK, Keeps
<1>7. ASSUME NEW w \in Workers,
             Claim(w) \/ SkipDispatch(w) \/ FailDispatch(w) \/ RemoveClaimed(w) \/ ReleaseClaimed(w)
      PROVE  Keeps(k)
  BY <1>7 DEF Claim, SkipDispatch, FailDispatch, RemoveClaimed, ReleaseClaimed, Keeps
<1>8. ASSUME NEW a \in issued, NEW status \in AgentStatuses, Report(a, status) PROVE Keeps(k)
  <2> DEFINE j == a.job
             s == Reported(j, status)
  <2>1. Writable(statusFile[j], s) /\ statusFile' = [statusFile EXCEPT ![j] = s]
    BY <1>8 DEF Report, SaveOneOf
  <2>2. s \in Status \ {UNKNOWN, NOT_FOUND}
    <3>1. status \in Status \ {UNKNOWN, NOT_FOUND}
      BY RequestTypes DEF DefiniteReports
    <3> QED
      BY <3>1 DEF Reported, Status, STOP_REQUESTED, UNKNOWN, NOT_FOUND
  <2> HIDE DEF j, s
  <2>3. CASE k = j
    <3>1. s \in {statusFile[k]} \cup Terminal /\ (statusFile[k] \in Terminal => s = statusFile[k])
      <4>1. s # LAUNCHING
        BY <2>1, <2>3, NoWayOut
      <4> QED
        BY <2>1, <2>2, <2>3, <4>1, NoWayOut
    <3>2. statusFile'[k] = s
      BY <2>1, <2>3 DEF TypeOK
    <3> QED
      BY <3>1, <3>2 DEF Keeps
  <2>4. CASE k # j
    BY <2>1, <2>4 DEF TypeOK, Keeps
  <2> QED
    BY <2>3, <2>4
<1>9. ASSUME World PROVE Keeps(k)
  BY <1>9 DEF World, Age, Acknowledge, LoseInputs, Lapse, Heartbeat, Persist, ExpireClaim, Keeps
<1>10. CASE UNCHANGED vars
  BY <1>10 DEF vars, Keeps
<1> QED
  BY <1>1, <1>2, <1>4, <1>5, <1>6, <1>7, <1>8, <1>9, <1>10
     DEF Sweep, PollStep

LEMMA StandsStep ==
    ASSUME DefiniteReports, TypeOK, [Next]_vars,
           NEW k \in Jobs, statusFile[k] \in Terminal \cup {STOP_REQUESTED}
    PROVE  Stands(k)
<1> USE DEF stores, worlds, history
<1>a. /\ statusFile[k] \notin {Absent, LAUNCHING, QUEUED, DISPATCHED, SETUP, RUNNING, RECOVERING}
      /\ FAILED \in Terminal
      /\ StatusNow(k) = statusFile[k]
  BY DEF StatusNow, Terminal, Absent, LAUNCHING, QUEUED, DISPATCHED, SETUP, RUNNING, RECOVERING,
         FINISHED, FAILED, STOPPED, CANCELED, STOP_REQUESTED
<1>1. Keeps(k) => Stands(k)
  BY DEF Keeps, Stands
<1>2. (\E j \in Jobs, force \in Forces, host \in RequeueHosts, mode \in RequeueModes :
         Requeue(j, force, host, mode)) \/ Keeps(k)
  BY KeepsStep DEF Next, Operate
<1>3. ASSUME NEW j \in Jobs, NEW force \in Forces, NEW host \in RequeueHosts,
             NEW mode \in RequeueModes, Requeue(j, force, host, mode)
      PROVE  Stands(k)
  <2>1. CASE k = j /\ statusFile'[k] # statusFile[k]
    <3>1. /\ force \/ statusFile[k] \in Terminal \/ Writable(statusFile[k], QUEUED)
          /\ statusFile'[k] = QUEUED
          /\ owner'[k] = NoAttempt
      BY <1>3, <1>a, <2>1 DEF Requeue, RequeueAccepted, SaveStatus, Revoke, TypeOK
    <3>2. STOP_REQUESTED \notin Terminal /\ ~Writable(STOP_REQUESTED, QUEUED)
      BY DEF Writable, can_transition, AllowedFrom, Terminal, Absent, LAUNCHING, QUEUED,
             DISPATCHED, SETUP, RUNNING, RECOVERING, FINISHED, FAILED, STOP_REQUESTED,
             STOPPED, NOT_FOUND, UNKNOWN, CANCELED
    <3>3. force => TRUE \in Forces
      BY RequestTypes
    <3> QED
      BY <3>1, <3>2, <3>3 DEF Stands
  <2>2. CASE k # j \/ statusFile'[k] = statusFile[k]
    BY <1>3, <2>2 DEF Requeue, SaveStatus, TypeOK, Stands
  <2> QED
    BY <2>1, <2>2
<1> QED
  BY <1>1, <1>2, <1>3

\* Late reports, sweeps, polls, stops and repeated launches do not change an
\* outcome.  (A requeue reopens the job; so does a recovery, UnionRecovery.)
THEOREM OutcomesStand ==
    ASSUME DefiniteReports
    PROVE  Spec => OutcomeStands
<1> DEFINE Steps == \/ \E w \in Workers : PollStep(w)
                    \/ \E j \in Jobs : Launch(j) \/ Stop(j) \/ Sweep(j)
                    \/ \E a \in issued, s \in AgentStatuses : Report(a, s)
<1>1. TypeOK /\ [Next]_vars =>
        [Steps => \A j \in Jobs : statusFile[j] \in Terminal => statusFile'[j] = statusFile[j]]_vars
  <2> SUFFICES ASSUME TypeOK, Steps, NEW j \in Jobs, statusFile[j] \in Terminal
               PROVE  statusFile'[j] = statusFile[j]
    OBVIOUS
  <2>1. Keeps(j)
    BY KeepsStep
  <2>2. STOP_REQUESTED \notin Terminal
    BY DEF Terminal, STOP_REQUESTED, FINISHED, FAILED, STOPPED, CANCELED
  <2> QED
    BY <2>1, <2>2 DEF Keeps
<1> QED
  BY <1>1, TypeCorrect, PTL DEF Spec, OutcomeStands

\* A requested stop stands until the job has ended or is forced back to the queue.
THEOREM StopsStand ==
    ASSUME DefiniteReports
    PROVE  Spec => StopIsKept
<1>1. TypeOK /\ [Next]_vars =>
        [\A j \in Jobs : statusFile[j] = STOP_REQUESTED =>
            \/ statusFile'[j] \in Terminal \cup {STOP_REQUESTED}
            \/ TRUE \in Forces /\ statusFile'[j] = QUEUED /\ owner'[j] = NoAttempt]_vars
  <2> SUFFICES ASSUME TypeOK, [Next]_vars, NEW j \in Jobs, statusFile[j] = STOP_REQUESTED
               PROVE  \/ statusFile'[j] \in Terminal \cup {STOP_REQUESTED}
                      \/ TRUE \in Forces /\ statusFile'[j] = QUEUED /\ owner'[j] = NoAttempt
    OBVIOUS
  <2> QED
    BY StandsStep DEF Stands
<1> QED
  BY <1>1, TypeCorrect, PTL DEF Spec, StopIsKept

-----------------------------------------------------------------------------
(* Recovering jobs, and where dispatches start. *)

\* What may become of a recovering job.
Recovers(j) ==
    \/ statusFile'[j] = RECOVERING
    \/ writer'[j] # NoAttempt
    \/ statusFile'[j] = STOP_REQUESTED
    \/ statusFile'[j] = QUEUED /\ TRUE \in Forces

LEMMA RecoversStep ==
    ASSUME TypeOK, FenceInv, [Next]_vars, NEW k \in Jobs, statusFile[k] = RECOVERING
    PROVE  Recovers(k)
<1> USE DEF stores, worlds, history
<1>a. /\ RECOVERING \notin {Absent, LAUNCHING, QUEUED, DISPATCHED, SETUP, STOP_REQUESTED}
      /\ RECOVERING \notin Terminal
      /\ ~Writable(RECOVERING, QUEUED) /\ ~Writable(RECOVERING, LAUNCHING)
      /\ StatusNow(k) = RECOVERING
  BY StatusNowIsFile
     DEF Writable, can_transition, AllowedFrom, Terminal, Absent, LAUNCHING, QUEUED, DISPATCHED,
         SETUP, RUNNING, RECOVERING, FINISHED, FAILED, STOPPED, CANCELED, STOP_REQUESTED,
         NOT_FOUND, UNKNOWN
<1>b. ASSUME NEW j \in Jobs \ {k}, NEW s, statusFile' = [statusFile EXCEPT ![j] = s]
      PROVE  Recovers(k)
  BY <1>b DEF TypeOK, Recovers
<1>c. CASE statusFile' = statusFile
  BY <1>c DEF Recovers
<1>1. ASSUME NEW j \in Jobs, Launch(j) PROVE Recovers(k)
  <2>1. k # j
    BY <1>1, <1>a DEF Launch, Launchable
  <2> QED
    BY <1>1, <1>b, <2>1 DEF Launch, SaveStatus
<1>2. ASSUME NEW j \in Jobs, Stop(j) PROVE Recovers(k)
  <2>1. CASE k = j
    <3>1. StopOutcome(StatusNow(k)) = STOP_REQUESTED
      BY <1>a DEF StopOutcome
    <3> QED
      BY <1>2, <1>a, <2>1, <3>1 DEF Stop, SaveStatus, TypeOK, Recovers
  <2>2. CASE k # j
    BY <1>2, <1>b, <1>c, <2>2 DEF Stop, SaveStatus
  <2> QED
    BY <2>1, <2>2
<1>3. ASSUME NEW j \in Jobs, NEW force \in Forces, NEW host \in RequeueHosts,
             NEW mode \in RequeueModes, Requeue(j, force, host, mode)
      PROVE  Recovers(k)
  <2>1. CASE k = j
    <3>1. force
      BY <1>3, <1>a, <2>1 DEF Requeue, RequeueAllowed
    <3>2. TRUE \in Forces
      BY <3>1, RequestTypes
    <3> QED
      BY <1>3, <1>c, <2>1, <3>2 DEF Requeue, SaveStatus, TypeOK, Recovers
  <2>2. CASE k # j
    BY <1>3, <1>b, <1>c, <2>2 DEF Requeue, SaveStatus
  <2> QED
    BY <2>1, <2>2
<1>4. ASSUME NEW j \in Jobs, Sweep(j) PROVE Recovers(k)
  <2>1. k # j
    BY <1>4, <1>a DEF Sweep, SweepRequeue, SweepFail, Stale, Sweepable
  <2> QED
    BY <1>4, <1>b, <2>1 DEF Sweep, SweepRequeue, SweepFail, SaveStatus
<1>5. ASSUME NEW w \in Workers, PollStep(w) PROVE Recovers(k)
  <2>1. CASE Dispatch(w)
    <3>1. k # poll[w].job /\ poll[w].job \in Jobs
      BY <2>1, <1>a, PollTypes DEF Dispatch, Dispatchable, TypeOK
    <3> QED
      BY <2>1, <1>b, <3>1 DEF Dispatch, SaveStatus
  <2> QED
    BY <1>5, <1>c, <2>1 DEF PollStep, Claim, SkipDispatch, FailDispatch, RemoveClaimed,
                           ReleaseClaimed
<1>6. ASSUME NEW a \in issued, NEW status \in AgentStatuses, Report(a, status) PROVE Recovers(k)
  <2> DEFINE j == a.job
             s == Reported(j, status)
  <2>1. j \in Jobs /\ a \in Attempt
    BY DEF TypeOK, Attempt
  <2>2. Writable(statusFile[j], s) /\ statusFile' = [statusFile EXCEPT ![j] = s]
    BY <1>6 DEF Report, SaveOneOf
  <2>3. s # QUEUED => writer' = [writer EXCEPT ![j] = a]
    BY <1>6 DEF Report
  <2>4. a # NoAttempt
    BY <2>1, NoneIsNoWorker DEF Attempt, NoAttempt
  <2> HIDE DEF j, s
  <2>5. CASE k = j
    <3>1. writer'[k] = a
      BY <1>a, <2>2, <2>3, <2>5 DEF TypeOK
    <3> QED
      BY <2>4, <3>1 DEF Recovers
  <2>6. CASE k # j
    BY <1>b, <2>1, <2>2, <2>6
  <2> QED
    BY <2>5, <2>6
<1>7. World => statusFile' = statusFile
  BY DEF World, Age, Acknowledge, LoseInputs, Lapse, Heartbeat, Persist, ExpireClaim
<1>8. UNCHANGED vars => statusFile' = statusFile
  BY DEF vars
<1> QED
  BY <1>c, <1>1, <1>2, <1>3, <1>4, <1>5, <1>6, <1>7, <1>8 DEF Next, Operate

\* The sweep, polls and late stale claims leave a recovering job alone: it moves by
\* a report, a stop or a forced requeue (_mark_stale_job_locked).
THEOREM RecoveringKept == Spec => RecoveringIsPreserved
<1>1. TypeOK /\ FenceInv /\ [Next]_vars =>
        [\A j \in Jobs : (statusFile[j] = RECOVERING /\ statusFile'[j] # RECOVERING)
            => \/ writer'[j] # NoAttempt
               \/ statusFile'[j] = STOP_REQUESTED
               \/ statusFile'[j] = QUEUED /\ TRUE \in Forces]_vars
  BY RecoversStep DEF Recovers
<1> QED
  BY <1>1, FenceInvariant, PTL DEF Spec, RecoveringIsPreserved

\* A job that waits belongs to no attempt: what returns it to the queue revokes it.
QueuedIsFree == \A j \in Jobs : statusFile[j] \in {QUEUED, Absent} => owner[j] = NoAttempt

\* A write of j that either returns it to nobody or is not a return.
LEMMA WriteFrees ==
    ASSUME TypeOK, QueuedIsFree, NEW j \in Jobs, NEW s \in Status,
           statusFile' = [statusFile EXCEPT ![j] = s],
           \/ owner' = owner /\ (s # QUEUED \/ owner[j] = NoAttempt)
           \/ Revoke(j)
    PROVE  QueuedIsFree'
BY DEF QueuedIsFree, Revoke, TypeOK, Status, Absent, LAUNCHING, QUEUED, DISPATCHED, SETUP,
       RUNNING, RECOVERING, FINISHED, FAILED, STOP_REQUESTED, STOPPED, NOT_FOUND, UNKNOWN, CANCELED

LEMMA FreeStep == TypeOK /\ FenceInv /\ QueuedIsFree /\ [Next]_vars => QueuedIsFree'
<1> USE Statuses DEF stores, worlds, history
<1> SUFFICES ASSUME TypeOK, FenceInv, QueuedIsFree, [Next]_vars PROVE QueuedIsFree'
  OBVIOUS
<1>c. CASE UNCHANGED <<statusFile, owner>>
  BY <1>c DEF QueuedIsFree
<1>1. ASSUME NEW j \in Jobs, Launch(j) PROVE QueuedIsFree'
  <2>1. statusFile[j] = Absent
    BY <1>1 DEF Launch, Launchable, FenceInv, FenceOf
  <2>2. owner[j] = NoAttempt
    BY <2>1 DEF QueuedIsFree
  <2> QED
    BY <1>1, <2>2, WriteFrees DEF Launch, SaveStatus
<1>2. ASSUME NEW j \in Jobs, Stop(j) PROVE QueuedIsFree'
  <2> DEFINE s == StopOutcome(StatusNow(j))
  <2>1. CASE s = StatusNow(j)
    BY <1>2, <1>c, <2>1 DEF Stop, SaveStatus
  <2>2. CASE s # StatusNow(j)
    <3>1. s \in Status /\ s # QUEUED
      <4>1. StatusNow(j) \in Status
        BY <1>2, StatusNowType DEF Stop
      <4> QED
        BY <2>2, <4>1, StopOutcomeType
           DEF StopOutcome, QUEUED, LAUNCHING, CANCELED, STOP_REQUESTED
    <3>2. statusFile' = [statusFile EXCEPT ![j] = s] /\ owner' = owner
      BY <1>2, <2>2 DEF Stop, SaveStatus
    <3> HIDE DEF s
    <3> QED
      BY <3>1, <3>2, WriteFrees
  <2> QED
    BY <2>1, <2>2
<1>3. ASSUME NEW j \in Jobs, NEW force \in Forces, NEW host \in RequeueHosts,
             NEW mode \in RequeueModes, Requeue(j, force, host, mode)
      PROVE  QueuedIsFree'
  BY <1>3, <1>c, WriteFrees DEF Requeue, SaveStatus
<1>4. ASSUME NEW j \in Jobs, Sweep(j) PROVE QueuedIsFree'
  BY <1>4, WriteFrees DEF Sweep, SweepRequeue, SweepFail, SaveStatus
<1>5. ASSUME NEW w \in Workers, PollStep(w) PROVE QueuedIsFree'
  <2>1. CASE Dispatch(w)
    <3>1. poll[w].job \in Jobs
      BY <2>1, PollTypes DEF Dispatch, TypeOK
    <3> DEFINE j == poll[w].job
    <3>2. PICK a : owner' = [owner EXCEPT ![j] = a]
      BY <2>1 DEF Dispatch
    <3>3. statusFile' = [statusFile EXCEPT ![j] = DISPATCHED]
      BY <2>1 DEF Dispatch, SaveStatus
    <3>4. DISPATCHED \notin {QUEUED, Absent}
      OBVIOUS
    <3> HIDE DEF j
    <3> QED
      BY <3>1, <3>2, <3>3, <3>4 DEF QueuedIsFree, TypeOK, j
  <2> QED
    BY <1>5, <1>c, <2>1 DEF PollStep, Claim, SkipDispatch, FailDispatch, RemoveClaimed,
                           ReleaseClaimed
<1>6. ASSUME NEW a \in issued, NEW status \in AgentStatuses, Report(a, status)
      PROVE  QueuedIsFree'
  <2> DEFINE j == a.job
             s == Reported(j, status)
  <2>1. j \in Jobs /\ s \in Status
    BY RequestTypes DEF TypeOK, Attempt, Reported, Status
  <2>2. statusFile' = [statusFile EXCEPT ![j] = s]
    BY <1>6 DEF Report, SaveOneOf
  <2>3. (s # QUEUED /\ owner' = owner) \/ Revoke(j)
    BY <1>6 DEF Report
  <2> HIDE DEF j, s
  <2> QED
    BY <2>1, <2>2, <2>3, WriteFrees
<1>7. World => UNCHANGED <<statusFile, owner>>
  BY DEF World, Age, Acknowledge, LoseInputs, Lapse, Heartbeat, Persist, ExpireClaim
<1>8. UNCHANGED vars => UNCHANGED <<statusFile, owner>>
  BY DEF vars
<1> QED
  BY <1>c, <1>1, <1>2, <1>3, <1>4, <1>5, <1>6, <1>7, <1>8 DEF Next, Operate

LEMMA DispatchesFree ==
    ASSUME TypeOK, FenceInv, QueuedIsFree, [Next]_vars, NEW k \in Jobs,
           owner'[k] # owner[k], owner'[k] # NoAttempt
    PROVE  statusFile[k] = QUEUED /\ owner[k] = NoAttempt
<1> USE DEF stores, worlds, history
<1>1. CASE \E j \in Jobs : Launch(j) \/ Operate(j) \/ Sweep(j)
  BY <1>1 DEF Launch, Operate, Stop, Requeue, Sweep, SweepRequeue, SweepFail, Revoke, TypeOK
<1>2. CASE \E a \in issued, s \in AgentStatuses : Report(a, s)
  BY <1>2 DEF Report, Revoke, TypeOK, Attempt
<1>3. ASSUME NEW w \in Workers, PollStep(w)
      PROVE  statusFile[k] = QUEUED /\ owner[k] = NoAttempt
  <2>1. Dispatch(w)
    BY <1>3 DEF PollStep, Claim, SkipDispatch, FailDispatch, RemoveClaimed, ReleaseClaimed
  <2>2. k = poll[w].job
    BY <2>1 DEF Dispatch, TypeOK
  <2>3. StatusNow(k) \in {QUEUED, LAUNCHING}
    BY <2>1, <2>2 DEF Dispatch, Dispatchable
  <2>4. statusFile[k] = QUEUED
    BY <2>3, StatusNowIsFile DEF FenceInv, FenceOf
  <2> QED
    BY <2>4 DEF QueuedIsFree
<1>4. World \/ UNCHANGED vars => owner' = owner
  BY DEF World, Age, Acknowledge, LoseInputs, Lapse, Heartbeat, Persist, ExpireClaim, vars
<1> QED
  BY <1>1, <1>2, <1>3, <1>4 DEF Next

\* A job becomes an attempt's only while it is queued and nobody's: no claim that
\* went stale takes it from under a worker (_dispatch_claimed_job).
THEOREM DispatchesFromQueue == Spec => DispatchOnlyFromQueue
<1>1. Init => QueuedIsFree
  BY DEF Init, QueuedIsFree
<1>2. TypeOK /\ FenceInv /\ QueuedIsFree /\ [Next]_vars =>
        [\A j \in Jobs : (owner'[j] # owner[j] /\ owner'[j] # NoAttempt)
            => statusFile[j] = QUEUED /\ owner[j] = NoAttempt]_vars
  BY DispatchesFree
<1> QED
  BY <1>1, <1>2, FreeStep, FenceInvariant, PTL DEF Spec, DispatchOnlyFromQueue
-----------------------------------------------------------------------------
(* The attempt of the last dispatch is not locked out.                      *)

\* Does the fence of a job let the attempt that owns it through?
Admits(j) ==
    LET m == registry[j]
        a == owner[j]
    IN (m.fenced /\ a # NoAttempt /\ a.token # 0) =>
           m.token = a.token /\ m.attempt = a.number /\ m.target = a.worker

OwnerInv == \A j \in Jobs : Admits(j)

\* A job that nobody owns may be given any record.
LEMMA RevokeAdmits ==
    ASSUME TypeOK, OwnerInv, NEW j \in Jobs, NEW m \in Record, NEW s \in Status,
           SaveStatus(j, m, s), owner'[j] = NoAttempt,
           \A k \in Jobs \ {j} : owner'[k] = owner[k]
    PROVE  OwnerInv'
<1>1. \A k \in Jobs \ {j} : registry'[k] = registry[k]
  BY SaveStatusEffect
<1> QED
  BY <1>1 DEF OwnerInv, Admits

\* A write that is neither a dispatch nor a return leaves the number, the token and
\* the fence, and the host unless the owner gives its own.
LEMMA WriteAdmits ==
    ASSUME TypeOK, OwnerInv, NEW j \in Jobs, NEW m \in Record, NEW s \in Status,
           SaveStatus(j, m, s), s # QUEUED, s = DISPATCHED => m.status = DISPATCHED,
           m.fenced = registry[j].fenced, m.fenced => m.attempt = registry[j].attempt,
           m.token = registry[j].token,
           m.fenced => m.target \in {registry[j].target, owner[j].worker},
           owner' = owner
    PROVE  OwnerInv'
<1>1. /\ registry'[j].target = m.target
      /\ registry'[j].fenced = m.fenced
      /\ m.fenced => registry'[j].attempt = m.attempt
      /\ registry'[j].token = m.token
      /\ \A k \in Jobs \ {j} : registry'[k] = registry[k]
  BY SaveStatusEffect
<1>2. Admits(j)'
  BY <1>1 DEF OwnerInv, Admits
<1> QED
  BY <1>1, <1>2 DEF OwnerInv, Admits

LEMMA DispatchAdmits ==
    ASSUME TypeOK, FenceInv, OwnerInv, NEW w \in Workers, Dispatch(w)
    PROVE  OwnerInv'
<1> DEFINE j == poll[w].job
           fencing == poll[w].fencing
           m == registry[j]
           g == Granted(m, w, fencing)
           a == [job |-> j, worker |-> w, number |-> m.attempt + 1,
                 token |-> IF fencing THEN grants + 1 ELSE 0]
<1>1. /\ j \in Jobs /\ fencing \in BOOLEAN /\ m \in Record /\ grants \in Nat
      /\ m.attempt \in Nat
  BY PollTypes DEF Dispatch, TypeOK, Record
<1>2. m.status = QUEUED /\ m.token = 0
  BY <1>1, StatusNowIsFile DEF Dispatch, Dispatchable, FenceInv, FenceOf
<1>3. SaveStatus(j, g, DISPATCHED) /\ owner' = [owner EXCEPT ![j] = a]
  BY DEF Dispatch
<1>4. /\ g \in Record
      /\ g.status = QUEUED
      /\ g.attempt = m.attempt
      /\ g.target = w
      /\ g.token = a.token
  BY <1>1, <1>2, GrantedType
<1>5. a.number = m.attempt + 1 /\ a.worker = w
  OBVIOUS
<1> HIDE DEF j, fencing, m, g, a
<1>6. /\ registry'[j].target = w
      /\ registry'[j].attempt = m.attempt + 1
      /\ registry'[j].token = a.token
      /\ \A k \in Jobs \ {j} : registry'[k] = registry[k]
  BY <1>1, <1>3, <1>4, SaveStatusEffect, Statuses
<1>7. owner'[j] = a /\ \A k \in Jobs \ {j} : owner'[k] = owner[k]
  BY <1>1, <1>3 DEF TypeOK
<1>8. ASSUME NEW k \in Jobs PROVE Admits(k)'
  <2>1. CASE k = j
    BY <1>5, <1>6, <1>7, <2>1 DEF Admits
  <2>2. CASE k # j
    BY <1>6, <1>7, <2>2 DEF OwnerInv, Admits
  <2> QED
    BY <2>1, <2>2
<1> QED
  BY <1>8 DEF OwnerInv

\* The owner of a fenced job is the one whose report passes, and a job that an
\* attempt owns does not become dispatched once more.
LEMMA ReportAdmits ==
    ASSUME TypeOK, FenceInv, QueuedIsFree, OwnerInv,
           NEW a \in issued, NEW status \in AgentStatuses, Report(a, status)
    PROVE  OwnerInv'
<1> USE Statuses
<1> DEFINE j == a.job
           s == Reported(j, status)
<1>1. a \in Attempt /\ j \in Jobs /\ a.worker \in Workers /\ registry[j] \in Record
  BY DEF TypeOK, Attempt
<1>2. s \in Status
  BY RequestTypes DEF Reported, Status
<1>3. PICK m \in Record :
        /\ SaveStatus(j, m, s)
        /\ m.status = registry[j].status
        /\ m.target = a.worker
        /\ m.fenced = registry[j].fenced
        /\ m.token = registry[j].token
        /\ m.fenced => Written(m, statusFile[j], s).attempt = registry[j].attempt
  BY ReportSaves
<1>4. Validates(registry[j], a) /\ Writable(statusFile[j], s)
  BY DEF Report
<1>5. CASE s = QUEUED
  <2>1. owner' = [owner EXCEPT ![j] = NoAttempt]
    BY <1>5 DEF Report, Revoke
  <2>2. owner'[j] = NoAttempt /\ \A k \in Jobs \ {j} : owner'[k] = owner[k]
    BY <1>1, <2>1 DEF TypeOK
  <2> HIDE DEF j, s
  <2> QED
    BY <1>1, <1>2, <1>3, <1>4, <2>2, RevokeAdmits
<1>6. CASE s # QUEUED
  <2>1. owner' = owner
    BY <1>6 DEF Report
  <2>2. statusFile[j] # Absent /\ registry[j].status = statusFile[j]
    BY <1>1 DEF FenceInv, Recorded, FenceOf
  <2>3. m.fenced => a = owner[j]
    BY <1>1, <1>3, <1>4, OwnerReports
  <2>4. CASE s = DISPATCHED /\ m.status # DISPATCHED
    <3>1. statusFile[j] \in {QUEUED, LAUNCHING}
      <4>1. ~can_transition(statusFile[j], DISPATCHED) \/ statusFile[j] = QUEUED
        BY DEF can_transition, AllowedFrom, LAUNCHING, QUEUED, DISPATCHED, SETUP, RUNNING,
               RECOVERING, FINISHED, FAILED, STOP_REQUESTED, STOPPED, NOT_FOUND, UNKNOWN,
               CANCELED
      <4> QED
        BY <1>3, <1>4, <2>2, <2>4, <4>1 DEF Writable
    <3>2. owner[j] = NoAttempt
      BY <1>1, <3>1 DEF FenceInv, FenceOf, QueuedIsFree
    <3> HIDE DEF j, s
    <3> QED
      BY <1>1, <1>2, <1>3, <1>4, <2>1, <3>2, RevokeAdmits
  <2>5. CASE s = DISPATCHED => m.status = DISPATCHED
    <3>1. m.fenced => m.attempt = registry[j].attempt
      BY <1>2, <1>3, <2>5, WrittenFields
    <3> HIDE DEF j, s
    <3> QED
      BY <1>1, <1>2, <1>3, <1>4, <1>6, <2>1, <2>3, <2>5, <3>1, WriteAdmits
  <2> QED
    BY <2>4, <2>5
<1> QED
  BY <1>5, <1>6

LEMMA AdmitsStep == TypeOK /\ FenceInv /\ QueuedIsFree /\ OwnerInv /\ [Next]_vars => OwnerInv'
<1> USE Statuses DEF stores, worlds, history
<1> SUFFICES ASSUME TypeOK, FenceInv, QueuedIsFree, OwnerInv, [Next]_vars PROVE OwnerInv'
  OBVIOUS
<1>a. \A j \in Jobs : registry[j] \in Record /\ StatusNow(j) = registry[j].status
  BY StatusNowIsFile DEF TypeOK, FenceInv, FenceOf
<1>b. ASSUME NEW j \in Jobs, Revoke(j)
      PROVE  owner'[j] = NoAttempt /\ \A k \in Jobs \ {j} : owner'[k] = owner[k]
  BY <1>b DEF Revoke, TypeOK
<1>c. CASE UNCHANGED <<registry, owner>>
  BY <1>c DEF OwnerInv, Admits
<1>1. ASSUME NEW j \in Jobs, Launch(j) PROVE OwnerInv'
  <2> PICK host \in LaunchHosts : SaveStatus(j, LaunchRecord(host), QUEUED)
    BY <1>1 DEF Launch
  <2>1. LaunchRecord(host) \in Record
    BY RequestTypes, RecordTypes DEF TypeOK
  <2>2. owner[j] = NoAttempt
    BY <1>1 DEF Launch, Launchable, FenceInv, FenceOf, QueuedIsFree
  <2>3. owner' = owner
    BY <1>1 DEF Launch
  <2> QED
    BY <2>1, <2>2, <2>3, RevokeAdmits
<1>2. ASSUME NEW j \in Jobs, Stop(j) PROVE OwnerInv'
  <2> DEFINE s == StopOutcome(StatusNow(j))
  <2>1. CASE s # StatusNow(j)
    <3>1. s \in Status /\ s \notin {QUEUED, DISPATCHED}
      <4>1. StatusNow(j) \in Status
        BY <1>2, StatusNowType DEF Stop
      <4> QED
        BY <2>1, <4>1, StopOutcomeType
           DEF StopOutcome, QUEUED, DISPATCHED, CANCELED, STOP_REQUESTED
    <3>2. SaveStatus(j, registry[j], s) /\ owner' = owner
      BY <1>2, <2>1 DEF Stop
    <3> HIDE DEF s
    <3> QED
      BY <1>a, <3>1, <3>2, WriteAdmits
  <2>2. CASE s = StatusNow(j)
    BY <1>2, <1>c, <2>2 DEF Stop
  <2> QED
    BY <2>1, <2>2
<1>3. ASSUME NEW j \in Jobs, NEW force \in Forces, NEW host \in RequeueHosts,
             NEW mode \in RequeueModes, Requeue(j, force, host, mode)
      PROVE  OwnerInv'
  <2> DEFINE m == Returned(registry[j], RequeueHost(registry[j], host, mode),
                           RequeueRequire(registry[j], mode))
  <2>1. m \in Record
    BY <1>a, RequestTypes, RecordTypes
  <2>2. CASE SaveStatus(j, m, QUEUED) /\ Revoke(j)
    <3> HIDE DEF m
    <3> QED
      BY <1>b, <2>1, <2>2, RevokeAdmits
  <2>3. CASE UNCHANGED <<statusFile, registry, quiet, history>>
    BY <1>c, <2>3
  <2> QED
    BY <1>3, <2>2, <2>3 DEF Requeue
<1>4. ASSUME NEW j \in Jobs, SweepRequeue(j) PROVE OwnerInv'
  <2> DEFINE m == Returned(registry[j], PreferredOf(registry[j]), registry[j].require)
  <2>1. m \in Record
    <3>1. PreferredOf(registry[j]) \in Hosts /\ registry[j].require \in BOOLEAN
      BY <1>a, RecordTypes DEF Record
    <3> QED
      BY <1>a, <3>1, RecordTypes
  <2>2. SaveStatus(j, m, QUEUED) /\ Revoke(j)
    BY <1>4 DEF SweepRequeue
  <2> HIDE DEF m
  <2> QED
    BY <1>b, <2>1, <2>2, RevokeAdmits
<1>5. ASSUME NEW j \in Jobs, SweepFail(j) PROVE OwnerInv'
  BY <1>5, <1>a, WriteAdmits DEF SweepFail
<1>6. ASSUME NEW w \in Workers, PollStep(w) PROVE OwnerInv'
  BY <1>6, <1>c, DispatchAdmits
     DEF PollStep, Claim, SkipDispatch, FailDispatch, RemoveClaimed, ReleaseClaimed
<1>7. ASSUME NEW a \in issued, NEW status \in AgentStatuses, Report(a, status) PROVE OwnerInv'
  BY <1>7, ReportAdmits
<1>8. World \/ UNCHANGED vars => UNCHANGED <<registry, owner>>
  BY DEF World, Age, Acknowledge, LoseInputs, Lapse, Heartbeat, Persist, ExpireClaim, vars
<1> QED
  BY <1>c, <1>1, <1>2, <1>3, <1>4, <1>5, <1>6, <1>7, <1>8 DEF Next, Operate, Sweep

\* The worker of the last dispatch is never locked out of its own job: whatever the
\* orchestrator wrote to the record since, its reports pass the fence until it is
\* revoked (_validate_agent_attempt against what _write_status and the sweep save).
THEOREM OwnersAdmitted == Spec => []OwnerValidates
<1>1. Init => QueuedIsFree /\ OwnerInv
  BY DEF Init, QueuedIsFree, OwnerInv, Admits
<1>2. OwnerInv => OwnerValidates
  BY DEF OwnerInv, Admits, OwnerValidates, Validates
<1> QED
  BY <1>1, <1>2, AdmitsStep, FreeStep, FenceInvariant, PTL DEF Spec
-----------------------------------------------------------------------------
(* The slots of Deucalion.                                                  *)

\* Does a job with record m take a slot?
Holds(m) == HostOf(m) = Deucalion /\ m.status \in Active

NoNewHolder == \A k \in Jobs : Holds(registry'[k]) => Holds(registry[k])

\* The slots in use are few, and there is room for the job of the poll that claimed.
SlotInv ==
    /\ \A a \in issued : a.token # 0
    /\ \A w \in Workers : poll[w].pc = "claimed" => poll[w].fencing
    /\ \A p \in Profiles : /\ IsFiniteSet(DeucalionActive(p))
                           /\ Cardinality(DeucalionActive(p)) <= SlotLimit[p]
    /\ \A w \in Workers : (w = Deucalion /\ poll[w].pc = "claimed")
                             => SlotFree(Profile[poll[w].job])
\* The job becomes active only where a job is dispatched; from there on the table
\* leads from active to active.
LEMMA IntoActive ==
    ASSUME NEW prev \in Status \ {QUEUED, LAUNCHING}, NEW s \in Active, Writable(prev, s)
    PROVE  prev \in Active
BY DEF Writable, can_transition, AllowedFrom, Active, Status, Absent, LAUNCHING, QUEUED,
       DISPATCHED, SETUP, RUNNING, RECOVERING, FINISHED, FAILED, STOP_REQUESTED, STOPPED,
       NOT_FOUND, UNKNOWN, CANCELED

LEMMA ActiveStatuses ==
    /\ Active \subseteq Status /\ Absent \notin Active
    /\ {QUEUED, LAUNCHING, FAILED, CANCELED} \cap Active = {}
    /\ {DISPATCHED, SETUP, RUNNING, RECOVERING, STOP_REQUESTED} \subseteq Active
BY DEF Active, Status, Absent, LAUNCHING, QUEUED, DISPATCHED, SETUP, RUNNING, RECOVERING,
       FINISHED, FAILED, STOP_REQUESTED, STOPPED, NOT_FOUND, UNKNOWN, CANCELED

\* Without a new holder the slots in use stay few, and what was free stays free.
LEMMA SlotsShrink ==
    ASSUME FenceInv, NoNewHolder, NEW p,
           IsFiniteSet(DeucalionActive(p)), SlotLimit[p] \in Nat,
           Cardinality(DeucalionActive(p)) <= SlotLimit[p]
    PROVE  /\ IsFiniteSet(DeucalionActive(p))'
           /\ Cardinality(DeucalionActive(p)') <= SlotLimit[p]
           /\ SlotFree(p) => SlotFree(p)'
<1> DEFINE A == DeucalionActive(p)
           B == DeucalionActive(p)'
<1>1. B \in SUBSET A
  BY StatusNowIsFile DEF DeucalionActive, Holds, NoNewHolder, FenceInv, FenceOf
<1>2. SlotFree(p) <=> Cardinality(A) < SlotLimit[p]
  BY DEF SlotFree
<1>3. SlotFree(p)' <=> Cardinality(B) < SlotLimit[p]
  BY DEF SlotFree
<1> HIDE DEF A, B
<1>4. IsFiniteSet(A) /\ Cardinality(A) <= SlotLimit[p]
  BY DEF A
<1>5. IsFiniteSet(B) /\ Cardinality(B) <= Cardinality(A)
  BY <1>1, <1>4, FS_Subset
<1>6. Cardinality(A) \in Nat /\ Cardinality(B) \in Nat
  BY <1>4, <1>5, FS_CardinalityType
<1> QED
  BY <1>2, <1>3, <1>4, <1>5, <1>6 DEF B

LEMMA LimitType ==
    /\ \A p \in Profiles : SlotLimit[p] \in Nat
    /\ \A j \in Jobs : Profile[j] \in Profiles
BY SlotTypes

\* Steps that hand out nothing and claim nothing.
LEMMA OthersKeepSlots ==
    ASSUME TypeOK, FenceInv, SlotInv, NoNewHolder, issued' \subseteq issued,
           \A w \in Workers : poll'[w].pc = "claimed" => poll'[w] = poll[w]
    PROVE  SlotInv'
<1>1. ASSUME NEW p \in Profiles
      PROVE  /\ IsFiniteSet(DeucalionActive(p))'
             /\ Cardinality(DeucalionActive(p)') <= SlotLimit[p]
             /\ SlotFree(p) => SlotFree(p)'
  BY <1>1, SlotsShrink, LimitType DEF SlotInv
<1>2. ASSUME NEW w \in Workers, w = Deucalion, poll'[w].pc = "claimed"
      PROVE  SlotFree(Profile[poll[w].job])'
  <2> DEFINE j == poll[w].job
  <2>1. poll'[w] = poll[w] /\ poll[w].pc = "claimed"
    BY <1>2
  <2>2. j \in Jobs /\ SlotFree(Profile[j])
    BY <1>2, <2>1, PollTypes DEF TypeOK, SlotInv
  <2> QED
    BY <1>1, <2>1, <2>2, LimitType
<1> QED
  BY <1>1, <1>2 DEF SlotInv

\* Writes of a status that takes no slot, and of one that takes the slot it had.
LEMMA WriteHolds ==
    ASSUME TypeOK, NEW j \in Jobs, NEW m \in Record, NEW s \in Status, SaveStatus(j, m, s),
           s \in Active => /\ registry[j].status \in Active
                           /\ HostOf(m) = HostOf(registry[j])
    PROVE  NoNewHolder
<1>1. /\ registry'[j].status = s
      /\ HostOf(registry'[j]) = HostOf(m)
      /\ \A k \in Jobs \ {j} : registry'[k] = registry[k]
  BY SaveStatusEffect DEF HostOf
<1> QED
  BY <1>1 DEF NoNewHolder, Holds

\* A report of activity comes from the attempt that has the slot.
LEMMA ReportHolds ==
    ASSUME TypeOK, FenceInv, SlotInv,
           NEW a \in issued, NEW status \in AgentStatuses, Report(a, status)
    PROVE  NoNewHolder
<1> USE Statuses
<1> DEFINE j == a.job
           s == Reported(j, status)
<1>1. a \in Attempt /\ j \in Jobs /\ a.worker \in Workers /\ registry[j] \in Record
  BY DEF TypeOK, Attempt
<1>2. s \in Status
  BY RequestTypes DEF Reported, Status
<1>3. PICK m \in Record :
        /\ SaveStatus(j, m, s)
        /\ m.target = a.worker
  BY ReportSaves
<1>4. Validates(registry[j], a) /\ Writable(statusFile[j], s)
  BY DEF Report
<1>5. registry[j].token # 0 /\ a.worker = registry[j].target
  BY <1>4 DEF FenceInv, Recorded, SlotInv, Validates
<1>6. /\ statusFile[j] \in Status \ {QUEUED, LAUNCHING}
      /\ registry[j].status = statusFile[j]
  BY <1>1, <1>5 DEF TypeOK, FenceInv, FenceOf, Recorded
<1>7. s \in Active => registry[j].status \in Active
  BY <1>4, <1>6, IntoActive
<1>8. HostOf(m) = HostOf(registry[j])
  BY <1>1, <1>3, <1>5, NoneIsNoWorker DEF HostOf
<1> HIDE DEF j, s
<1> QED
  BY <1>1, <1>2, <1>3, <1>4, <1>7, <1>8, WriteHolds

\* What a poll has when it hands the job out: an entry for which there was room.
LEMMA DispatchKeepsSlots ==
    ASSUME TypeOK, FenceInv, SlotInv, NEW w \in Workers, Dispatch(w)
    PROVE  SlotInv'
<1> DEFINE j == poll[w].job
           g == Granted(registry[j], w, poll[w].fencing)
           a == [job |-> j, worker |-> w, number |-> registry[j].attempt + 1,
                 token |-> IF poll[w].fencing THEN grants + 1 ELSE 0]
<1>1. /\ poll[w].pc = "claimed" /\ poll[w].fencing = TRUE
      /\ j \in Jobs /\ registry[j] \in Record /\ grants \in Nat
  BY PollTypes DEF Dispatch, TypeOK, SlotInv
<1>2. /\ SaveStatus(j, g, DISPATCHED)
      /\ issued' = issued \cup {a}
      /\ AfterDispatch(w, "done", a) \/ AfterDispatch(w, "raised", a)
  BY DEF Dispatch
<1>3. g \in Record /\ g.target = w /\ a.token # 0
  <2>1. g \in Record /\ g.target = w
    BY <1>1, GrantedType
  <2>2. a.token = grants + 1
    BY <1>1
  <2> QED
    BY <1>1, <2>1, <2>2
<1>4. poll'[w].pc # "claimed" /\ \A v \in Workers \ {w} : poll'[v] = poll[v]
  <2>1. poll \in [Workers -> Poll]
    BY DEF TypeOK
  <2> HIDE DEF a
  <2>2. /\ [poll[w] EXCEPT !.pc = "done", !.reply = a].pc = "done"
        /\ [poll[w] EXCEPT !.pc = "raised", !.reply = a].pc = "raised"
    BY <1>1, <2>1 DEF Poll, Idle
  <2>3. CASE AfterDispatch(w, "done", a)
    BY <2>1, <2>2, <2>3 DEF AfterDispatch, Idle
  <2>4. CASE AfterDispatch(w, "raised", a)
    BY <2>1, <2>2, <2>4 DEF AfterDispatch, Idle
  <2> QED
    BY <1>2, <2>3, <2>4
<1>5. /\ registry'[j].target = w
      /\ \A k \in Jobs \ {j} : registry'[k] = registry[k]
  <2> HIDE DEF j, g, a
  <2> QED
    BY <1>1, <1>2, <1>3, SaveStatusEffect, Statuses
<1>6. \A b \in issued' : b.token # 0
  BY <1>2, <1>3 DEF SlotInv
<1>7. CASE w # Deucalion
  <2>1. NoNewHolder
    BY <1>5, <1>7, NoneIsNoWorker DEF NoNewHolder, Holds, HostOf
  <2>2. ASSUME NEW p \in Profiles
        PROVE  /\ IsFiniteSet(DeucalionActive(p))'
               /\ Cardinality(DeucalionActive(p)') <= SlotLimit[p]
               /\ SlotFree(p) => SlotFree(p)'
    BY <2>1, <2>2, SlotsShrink, LimitType DEF SlotInv
  <2>3. ASSUME NEW v \in Workers, v = Deucalion, poll'[v].pc = "claimed"
        PROVE  SlotFree(Profile[poll[v].job])'
    <3>1. poll'[v] = poll[v]
      BY <1>4, <1>7, <2>3
    <3>2. poll[v].job \in Jobs /\ SlotFree(Profile[poll[v].job])
      BY <2>3, <3>1, PollTypes DEF TypeOK, SlotInv
    <3> QED
      BY <2>2, <3>1, <3>2, LimitType
  <2> QED
    BY <1>4, <1>6, <2>2, <2>3 DEF SlotInv
<1>8. CASE w = Deucalion
  <2>1. ASSUME NEW p \in Profiles
        PROVE  /\ IsFiniteSet(DeucalionActive(p))'
               /\ Cardinality(DeucalionActive(p)') <= SlotLimit[p]
    <3> DEFINE A == DeucalionActive(p)
               B == DeucalionActive(p)'
               P == IF Profile[j] = p THEN A \cup {j} ELSE A
    <3>1. B \in SUBSET P
      BY <1>5, StatusNowIsFile DEF DeucalionActive, FenceInv, FenceOf
    <3>2. IsFiniteSet(A) /\ Cardinality(A) <= SlotLimit[p]
      BY <2>1 DEF SlotInv
    <3>3. Profile[j] = p => Cardinality(A) < SlotLimit[p]
      BY <1>1, <1>8 DEF SlotInv, SlotFree
    <3> HIDE DEF A, B
    <3>4. Cardinality(A) \in Nat
      BY <3>2, FS_CardinalityType
    <3>5. IsFiniteSet(P) /\ Cardinality(P) <= SlotLimit[p]
      <4>1. /\ IsFiniteSet(A \cup {j})
            /\ Cardinality(A \cup {j}) \in {Cardinality(A), Cardinality(A) + 1}
        BY <3>2, FS_AddElement
      <4>2. SlotLimit[p] \in Nat
        BY LimitType
      <4>3. CASE Profile[j] = p
        BY <3>3, <3>4, <4>1, <4>2, <4>3
      <4>4. CASE Profile[j] # p
        BY <3>2, <4>4
      <4> QED
        BY <4>3, <4>4
    <3>6. IsFiniteSet(B) /\ Cardinality(B) <= Cardinality(P)
      BY <3>1, <3>5, FS_Subset
    <3>7. Cardinality(B) \in Nat /\ Cardinality(P) \in Nat
      BY <3>5, <3>6, FS_CardinalityType
    <3> QED
      BY <2>1, <3>5, <3>6, <3>7, LimitType DEF B
  <2> QED
    BY <1>4, <1>6, <1>8, <2>1 DEF SlotInv
<1> QED
  BY <1>7, <1>8

LEMMA SlotStep ==
    ASSUME AllFence
    PROVE  TypeOK /\ FenceInv /\ SlotInv /\ [Next]_vars => SlotInv'
<1> USE Statuses DEF stores, worlds, history
<1> SUFFICES ASSUME TypeOK, FenceInv, SlotInv, [Next]_vars PROVE SlotInv'
  OBVIOUS
<1>a. \A j \in Jobs : registry[j] \in Record /\ StatusNow(j) = registry[j].status
  BY StatusNowIsFile DEF TypeOK, FenceInv, FenceOf
<1>b. CASE NoNewHolder /\ UNCHANGED <<poll, issued>>
  BY <1>b, OthersKeepSlots
<1>c. UNCHANGED registry => NoNewHolder
  BY DEF NoNewHolder
<1>1. ASSUME NEW j \in Jobs, Launch(j) PROVE SlotInv'
  <2> PICK host \in LaunchHosts : SaveStatus(j, LaunchRecord(host), QUEUED)
    BY <1>1 DEF Launch
  <2>1. LaunchRecord(host) \in Record
    BY RequestTypes, RecordTypes DEF TypeOK
  <2>2. NoNewHolder
    BY <2>1, WriteHolds, ActiveStatuses
  <2> QED
    BY <1>1, <1>b, <2>2 DEF Launch
<1>2. ASSUME NEW j \in Jobs, Stop(j) PROVE SlotInv'
  <2> DEFINE s == StopOutcome(StatusNow(j))
  <2>1. CASE s # StatusNow(j)
    <3>1. s \in Status
      BY <1>2, StatusNowType, StopOutcomeType DEF Stop
    <3>2. s \in Active => StatusNow(j) \in Active
      BY ActiveStatuses DEF StopOutcome
    <3>3. SaveStatus(j, registry[j], s)
      BY <1>2, <2>1 DEF Stop
    <3> HIDE DEF s
    <3>4. NoNewHolder
      BY <1>a, <3>1, <3>2, <3>3, WriteHolds
    <3> QED
      BY <1>2, <1>b, <3>4 DEF Stop
  <2>2. CASE s = StatusNow(j)
    BY <1>2, <1>b, <1>c, <2>2 DEF Stop
  <2> QED
    BY <2>1, <2>2
<1>3. ASSUME NEW j \in Jobs, NEW force \in Forces, NEW host \in RequeueHosts,
             NEW mode \in RequeueModes, Requeue(j, force, host, mode)
      PROVE  SlotInv'
  <2> DEFINE m == Returned(registry[j], RequeueHost(registry[j], host, mode),
                           RequeueRequire(registry[j], mode))
  <2>1. m \in Record
    BY <1>a, RequestTypes, RecordTypes
  <2>2. CASE SaveStatus(j, m, QUEUED)
    <3> HIDE DEF m
    <3>1. NoNewHolder
      BY <2>1, <2>2, WriteHolds, ActiveStatuses
    <3> QED
      BY <1>3, <1>b, <3>1 DEF Requeue
  <2>3. CASE UNCHANGED registry
    BY <1>3, <1>b, <1>c, <2>3 DEF Requeue
  <2> QED
    BY <1>3, <2>2, <2>3 DEF Requeue
<1>4. ASSUME NEW j \in Jobs, SweepRequeue(j) PROVE SlotInv'
  <2> DEFINE m == Returned(registry[j], PreferredOf(registry[j]), registry[j].require)
  <2>1. m \in Record
    <3>1. PreferredOf(registry[j]) \in Hosts /\ registry[j].require \in BOOLEAN
      BY <1>a, RecordTypes DEF Record
    <3> QED
      BY <1>a, <3>1, RecordTypes
  <2>2. SaveStatus(j, m, QUEUED)
    BY <1>4 DEF SweepRequeue
  <2> HIDE DEF m
  <2>3. NoNewHolder
    BY <2>1, <2>2, WriteHolds, ActiveStatuses
  <2> QED
    BY <1>4, <1>b, <2>3 DEF SweepRequeue
<1>5. ASSUME NEW j \in Jobs, SweepFail(j) PROVE SlotInv'
  <2>1. NoNewHolder
    BY <1>5, <1>a, WriteHolds, ActiveStatuses DEF SweepFail
  <2> QED
    BY <1>5, <1>b, <2>1 DEF SweepFail
<1>6. ASSUME NEW w \in Workers, Claim(w) PROVE SlotInv'
  <2> PICK fencing \in PollKinds(w), e \in queue :
        /\ Accepts(w, fencing, e)
        /\ poll' = [poll EXCEPT ![w] = [pc |-> "claimed", job |-> e.job,
                                        fencing |-> fencing, reply |-> NoAttempt]]
    BY <1>6 DEF Claim
  <2>1. /\ UNCHANGED <<registry, statusFile, issued>>
        /\ poll'[w].job = e.job /\ poll'[w].fencing = TRUE
        /\ \A v \in Workers \ {w} : poll'[v] = poll[v]
    BY <1>6 DEF Claim, TypeOK, PollKinds, AllFence
  <2>2. w = Deucalion => SlotFree(Profile[e.job])
    BY DEF Accepts, CanDispatchTo
  <2>3. \A p : DeucalionActive(p)' = DeucalionActive(p) /\ (SlotFree(p)' <=> SlotFree(p))
    BY <2>1 DEF DeucalionActive, SlotFree, StatusNow
  <2> QED
    BY <2>1, <2>2, <2>3 DEF SlotInv
<1>7. ASSUME NEW w \in Workers, Dispatch(w) PROVE SlotInv'
  BY <1>7, DispatchKeepsSlots
<1>8. ASSUME NEW w \in Workers,
             SkipDispatch(w) \/ FailDispatch(w) \/ RemoveClaimed(w) \/ ReleaseClaimed(w)
      PROVE  SlotInv'
  <2>1. poll \in [Workers -> Poll] /\ UNCHANGED <<registry, issued>>
    BY <1>8 DEF SkipDispatch, FailDispatch, RemoveClaimed, ReleaseClaimed, TypeOK
  <2>2. \A v \in Workers : poll'[v].pc = "claimed" => poll'[v] = poll[v]
    <3>1. CASE \E pc \in {"done", "raised"} :
                 poll[w].pc = "claimed" /\ AfterDispatch(w, pc, NoAttempt)
      <4> PICK pc \in {"done", "raised"} :
                 poll[w].pc = "claimed" /\ AfterDispatch(w, pc, NoAttempt)
        BY <3>1
      <4>1. [poll[w] EXCEPT !.pc = pc, !.reply = NoAttempt].pc = pc
        BY <2>1 DEF Poll, Idle
      <4> QED
        BY <2>1, <4>1 DEF AfterDispatch, Idle
    <3>2. CASE poll' = [poll EXCEPT ![w] = Idle]
      BY <2>1, <3>2 DEF Idle
    <3> QED
      BY <1>8, <3>1, <3>2 DEF SkipDispatch, FailDispatch, RemoveClaimed, ReleaseClaimed
  <2> QED
    BY <1>c, <2>1, <2>2, OthersKeepSlots
<1>9. ASSUME NEW a \in issued, NEW status \in AgentStatuses, Report(a, status) PROVE SlotInv'
  BY <1>9, <1>b, ReportHolds DEF Report
<1>10. World \/ UNCHANGED vars => UNCHANGED <<registry, poll, issued>>
  BY DEF World, Age, Acknowledge, LoseInputs, Lapse, Heartbeat, Persist, ExpireClaim, vars
<1> QED
  BY <1>b, <1>c, <1>1, <1>2, <1>3, <1>4, <1>5, <1>6, <1>7, <1>8, <1>9, <1>10
     DEF Next, Operate, Sweep, PollStep

\* When all workers fence, no more jobs of a profile are active on Deucalion than it has
\* slots, although a poll counts them before it takes the lock and the job takes its
\* slot afterwards (_can_dispatch_to_worker, _dispatch_claimed_job).
THEOREM SlotsSuffice ==
    ASSUME AllFence
    PROVE  Spec => []DeucalionWithinSlots
<1>1. Init => SlotInv
  <2> SUFFICES ASSUME Init PROVE SlotInv
    OBVIOUS
  <2>1. \A p : DeucalionActive(p) = {}
    BY ActiveStatuses DEF Init, DeucalionActive, NoRecord
  <2>2. \A p \in Profiles : /\ IsFiniteSet(DeucalionActive(p))
                            /\ Cardinality(DeucalionActive(p)) <= SlotLimit[p]
    BY <2>1, FS_EmptySet, LimitType
  <2> QED
    BY <2>2 DEF Init, Idle, SlotInv
<1>2. TypeOK /\ FenceInv /\ SlotInv /\ [Next]_vars => SlotInv'
  BY SlotStep
<1>3. SlotInv => DeucalionWithinSlots
  BY DEF SlotInv, DeucalionWithinSlots
<1> QED
  BY <1>1, <1>2, <1>3, FenceInvariant, PTL DEF Spec
=============================================================================
