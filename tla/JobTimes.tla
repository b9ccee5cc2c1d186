------------------------------ MODULE JobTimes ------------------------------
(***************************************************************************)
(* The times the registry keeps of a job, what is made of them, and who    *)
(* changes them (app/services/job_service.py): every status write applies  *)
(* the life cycle, the details a worker sent and a repair; a requeue and   *)
(* the sweep remove the times of the attempt; a listing repairs records it *)
(* has read before; mails about status changes leave a history, from which *)
(* the start of an attempt is repaired.                                    *)
(*                                                                         *)
(* One job, whose operations hold its state lock, with a clock.  The job   *)
(* is fenced: only the attempt of the last dispatch reports (JobLifecycle  *)
(* has why).  Worker and server share the clock.                           *)
(***************************************************************************)
EXTENDS JobStatus, Integers, Sequences, FiniteSets

CONSTANTS
    AgentStatuses,    \* statuses workers report
    Notifiable,       \* JOB_EMAIL_NOTIFY_STATUSES; {} if mails are disabled
    HistoryLimit,     \* EMAIL_NOTIFICATION_HISTORY_LIMIT
    MaxTime,          \* bound: the clock
    MaxReturns        \* bound: how often the job goes back to the queue

ASSUME StatusSets == AgentStatuses \cup Notifiable \subseteq Status
ASSUME Limits == HistoryLimit \in Nat \ {0} /\ MaxTime \in Nat \ {0} /\ MaxReturns \in Nat

VARIABLES
    now,        \* time.time()
    file,       \* status.json: status and mail history
    rec,        \* the record in the registry
    listing,    \* the record a listing has read, NoRecord without a listing
    attempt,    \* the attempt that may report
    sending,    \* the mail an operation is sending, NoMail without one
    returns,    \* bounds the model: returns to the queue
    mails,      \* history: the mails, in the order they were sent
    displaced   \* history: a listing saved its record while a mail was sent

vars == <<now, file, rec, listing, attempt, sending, returns, mails, displaced>>

NoTime == 0
Times == NoTime .. MaxTime

Mail == [status : Status, at : Times]
NoMail == [status |-> Absent, at |-> NoTime]

NoRecord == [status |-> Absent, submitted |-> NoTime, queued |-> NoTime,
             dispatched |-> NoTime, started |-> NoTime, computed |-> NoTime,
             finished |-> NoTime, number |-> 0, requeues |-> 0, mails |-> <<>>]

\* What is true of the attempt, whether or not it was reported: when it was handed
\* out, began and ended to compute, and when the first running report came.
NoAttempt == [number |-> 0, dispatched |-> NoTime, began |-> NoTime, ended |-> NoTime,
              ran |-> NoTime]

NoDetails == [started |-> NoTime, computed |-> NoTime]

Least(S) == CHOOSE x \in S : \A y \in S : x <= y
Later(s, t) == IF s >= t THEN s ELSE t
Default(t, default) == IF t = NoTime THEN default ELSE t

-----------------------------------------------------------------------------
(* What a status write makes of the record. *)

StaleStart(m) == NoTime \notin {m.started, m.dispatched} /\ m.started < m.dispatched

Queued(m, prev, t) ==
    IF prev \in {Absent, LAUNCHING} THEN [m EXCEPT !.queued = Default(@, t)]
    ELSE IF prev # QUEUED THEN [m EXCEPT !.queued = t, !.requeues = @ + 1]
    ELSE m

\* Mutant: every running report is a start.
StartedAgain(m, prev, t) == t

Started(m, prev, t) ==
    IF m.started # NoTime /\ ~StaleStart(m) THEN m.started
    ELSE IF prev = RUNNING THEN NoTime ELSE t

\* _apply_lifecycle_metadata
Lifecycle(m, prev, s, t) ==
    LET q == [m EXCEPT !.status = s, !.submitted = Default(@, t)]
        w == [q EXCEPT !.queued = Default(@, t)]
    IN
    CASE s = QUEUED     -> Queued(q, prev, t)
      [] s = DISPATCHED -> [w EXCEPT !.dispatched = t,
                                     !.number = IF prev # DISPATCHED THEN @ + 1 ELSE @]
      [] s = SETUP      -> [w EXCEPT !.dispatched = Default(@, t), !.finished = NoTime]
      [] s = RUNNING    -> [w EXCEPT !.started = Started(m, prev, t), !.finished = NoTime]
      [] s = RECOVERING -> [w EXCEPT !.finished = NoTime]
      [] s \in Terminal -> [q EXCEPT !.finished = t]
      [] OTHER          -> q

\* A start before the dispatch is of another attempt.
StartOf(m, d) == IF m.dispatched # NoTime /\ d.started < m.dispatched THEN NoTime ELSE d.started

\* _apply_detail_timestamps
Detailed(m, d, t) ==
    LET s == StartOf(m, d)
        started == IF s = NoTime THEN m.started
                   ELSE IF m.started = NoTime \/ StaleStart(m) THEN s
                   ELSE Least({m.started, s})
    IN [m EXCEPT
          !.started  = IF started = NoTime /\ m.status \in Terminal THEN t ELSE started,
          !.computed = Default(d.computed, @),
          !.queued   = Default(@, m.submitted)]

\* _current_attempt_running_at: mails that said running since the dispatch.
RunningMails(m) ==
    {m.mails[i].at : i \in {k \in DOMAIN m.mails :
        m.mails[k].status = RUNNING /\ m.mails[k].at >= m.dispatched}}

RepairedStart(m) ==
    IF m.status = RUNNING /\ (m.started = NoTime \/ StaleStart(m)) THEN
        IF RunningMails(m) # {} THEN Least(RunningMails(m)) ELSE NoTime
    ELSE IF m.status \in {QUEUED, DISPATCHED, SETUP} /\ StaleStart(m) THEN NoTime
    ELSE m.started

\* _repair_active_lifecycle_metadata
Repaired(m) ==
    [m EXCEPT !.finished = IF m.status \in Terminal THEN @ ELSE NoTime,
              !.started  = RepairedStart(m)]

-----------------------------------------------------------------------------
(* Mails.  One is sent when the status changes to one that is notified of.  *)
(* When that is over, with success or not, its record goes to the end of    *)
(* the history in the registry and that history to status.json.  The        *)
(* operation holds the lock of the job all the while; the views do not ask  *)
(* for it.                                                                  *)

\* Mutant: the history grows without end.
AllOf(s) == s

LastOf(s) == SubSeq(s, Later(1, Len(s) - HistoryLimit + 1), Len(s))

Notified(prev, s) == prev # s /\ s \in Notifiable

\* Mutant: the history in status.json is not handed on.
Forgotten(m) == m

\* The history in status.json is part of what is written to the record.
HandedOn(m) == IF file.mails = <<>> THEN m ELSE [m EXCEPT !.mails = file.mails]

\* _write_status and _force_status: s is written with details d over the record m
\* and, if it changed, a mail begins to be sent.
Write(m, s, d) ==
    LET mail == [status |-> s, at |-> now]
        sent == Notified(file.status, s)
    IN
    /\ sending = NoMail
    /\ rec' = Repaired(Detailed(HandedOn(Lifecycle(m, m.status, s, now)), d, now))
    /\ file' = [file EXCEPT !.status = s]
    /\ sending' = IF sent THEN mail ELSE NoMail
    /\ mails' = IF sent THEN Append(mails, mail) ELSE mails

\* _append_email_notification_record
Remember ==
    LET log == LastOf(Append(rec.mails, sending)) IN
    /\ sending # NoMail
    /\ sending' = NoMail
    /\ rec' = [rec EXCEPT !.mails = log]
    /\ file' = [file EXCEPT !.mails = log]
    /\ UNCHANGED <<now, listing, attempt, returns, mails, displaced>>

-----------------------------------------------------------------------------
(* The operations on the job. *)

Dispatch ==
    /\ file.status \in {QUEUED, LAUNCHING}
    /\ Write(rec, DISPATCHED, NoDetails)
    /\ attempt' = [NoAttempt EXCEPT !.number = rec.number + 1, !.dispatched = now]
    /\ UNCHANGED <<now, listing, returns, displaced>>

\* A worker tells what it knows of its computation, or not.
Known(t) == {NoTime, t}

Effective(s) == IF file.status = STOP_REQUESTED /\ s \in Active THEN STOP_REQUESTED ELSE s

Report(s) ==
    LET e == Effective(s) IN
    /\ attempt # NoAttempt
    /\ rec.number = attempt.number
    /\ Writable(file.status, e)
    /\ e = QUEUED /\ file.status # QUEUED => returns < MaxReturns
    /\ \E started \in Known(attempt.began), computed \in Known(attempt.ended) :
         Write(rec, e, [started |-> started, computed |-> computed])
    /\ \/ /\ e = QUEUED
          /\ attempt' = NoAttempt
          /\ returns' = returns + 1
       \/ /\ e # QUEUED
          /\ attempt' = [attempt EXCEPT !.ran = IF e = RUNNING THEN Default(@, now) ELSE @]
          /\ UNCHANGED returns
    /\ UNCHANGED <<now, listing, displaced>>

Stop ==
    /\ \/ file.status \in {LAUNCHING, QUEUED} /\ Write(rec, CANCELED, NoDetails)
       \/ file.status \in Active \ {STOP_REQUESTED} /\ Write(rec, STOP_REQUESTED, NoDetails)
    /\ UNCHANGED <<now, listing, attempt, returns, displaced>>

\* _reset_runtime_metadata, of ATTEMPT_LIFECYCLE_RESET_FIELDS
Reset(m) == [m EXCEPT !.queued = NoTime, !.dispatched = NoTime, !.started = NoTime,
                      !.computed = NoTime, !.finished = NoTime]

\* ops_requeue_job, and the sweep for a dispatched job; with force from anywhere.
Requeue ==
    /\ returns < MaxReturns
    /\ returns' = returns + 1
    /\ Write(Reset(rec), QUEUED, NoDetails)
    /\ attempt' = NoAttempt
    /\ UNCHANGED <<now, listing, displaced>>

\* ops_fail_job, ops_cancel_job, and the sweep for a running job: the outcome is in
\* the record before it is written.
End ==
    /\ file.status \notin Terminal
    /\ \E s \in {FAILED, CANCELED} : Write([rec EXCEPT !.status = s], s, NoDetails)
    /\ UNCHANGED <<now, listing, attempt, returns, displaced>>

\* ops_recover_job: the evidence says when the computation ended, or not.
Recover ==
    /\ file.status \in {FAILED, RECOVERING}
    /\ attempt # NoAttempt
    /\ attempt.ended # NoTime
    /\ \E computed \in Known(attempt.ended) :
         Write(rec, RECOVERING, [NoDetails EXCEPT !.computed = computed])
    /\ UNCHANGED <<now, listing, attempt, returns, displaced>>

-----------------------------------------------------------------------------
(* Views that write.  A listing copies the records first and repairs each   *)
(* with the status it has when its turn comes; get_job_info and get_progress *)
(* repair the record they read.                                             *)

ListRead ==
    /\ listing = NoRecord
    /\ listing' = rec
    /\ UNCHANGED <<now, file, rec, attempt, sending, returns, mails, displaced>>

ListRepair ==
    LET m == [listing EXCEPT !.status = file.status] IN
    /\ listing # NoRecord
    /\ rec' = IF Repaired(m) # m THEN Repaired(m) ELSE rec
    /\ displaced' = (displaced \/ (Repaired(m) # m /\ sending # NoMail))
    /\ listing' = NoRecord
    /\ UNCHANGED <<now, file, attempt, sending, returns, mails>>

View ==
    /\ rec' = Repaired(rec)
    /\ UNCHANGED <<now, file, listing, attempt, sending, returns, mails, displaced>>

-----------------------------------------------------------------------------
(* What a client is shown (_compute_job_durations). *)

StartShown(m, t) ==
    IF StaleStart(m) \/ (m.started >= t /\ m.status \notin Terminal) THEN NoTime ELSE m.started

EndShown(m, t) == IF m.status \in Terminal THEN Default(m.finished, t) ELSE t

QueueWait(m, t) ==
    IF NoTime \in {m.queued, StartShown(m, t)} THEN 0 ELSE Later(0, m.started - m.queued)

\* Mutant: a run goes on after its end.
RunToNow(m, t) == IF StartShown(m, t) = NoTime THEN 0 ELSE Later(0, t - m.started)

RunDuration(m, t) ==
    IF StartShown(m, t) = NoTime THEN 0
    ELSE Later(0, Default(m.computed, EndShown(m, t)) - m.started)

TotalDuration(m, t) == Later(0, EndShown(m, t) - m.submitted)

-----------------------------------------------------------------------------
Tick ==
    /\ now < MaxTime
    /\ now' = now + 1
    /\ UNCHANGED <<file, rec, listing, attempt, sending, returns, mails, displaced>>

\* The worker begins and ends to compute.
Compute ==
    /\ attempt # NoAttempt
    /\ \/ attempt.began = NoTime /\ attempt' = [attempt EXCEPT !.began = now]
       \/ attempt.began # NoTime /\ attempt.ended = NoTime
          /\ attempt' = [attempt EXCEPT !.ended = now]
    /\ UNCHANGED <<now, file, rec, listing, sending, returns, mails, displaced>>

\* After a launch the job is queued; the launch itself sends mails like the rest.
Init ==
    /\ now = 1
    /\ file = [status |-> QUEUED, mails |-> <<>>]
    /\ rec = [NoRecord EXCEPT !.status = QUEUED, !.submitted = 1, !.queued = 1]
    /\ listing = NoRecord
    /\ attempt = NoAttempt
    /\ sending = NoMail
    /\ returns = 0
    /\ mails = <<>>
    /\ displaced = FALSE

Next ==
    \/ Dispatch \/ Stop \/ Requeue \/ End \/ Recover
    \/ \E s \in AgentStatuses : Report(s)
    \/ Remember
    \/ ListRead \/ ListRepair \/ View
    \/ Tick \/ Compute

Spec == Init /\ [][Next]_vars

-----------------------------------------------------------------------------
(* Correctness. *)

Record == [status : Status \cup {Absent}, submitted : Times, queued : Times,
           dispatched : Times, started : Times, computed : Times, finished : Times,
           number : Nat, requeues : Nat, mails : Seq(Mail)]

\* The record, status.json and a listing's copy are of the shapes described above; the
\* record has an end exactly if the job has ended, and no more mails than may be kept.
TimesTypeOK ==
    /\ now \in 1 .. MaxTime
    /\ file.status \in Status
    /\ rec \in Record
    /\ listing \in Record
    /\ sending \in Mail \cup {NoMail}
    /\ returns \in 0 .. MaxReturns
    /\ Len(rec.mails) <= HistoryLimit
    /\ rec.finished # NoTime <=> rec.status \in Terminal

\* The start shown for a running job lies between the dispatch of its attempt and the
\* first report that the attempt runs: it is no start of an attempt before, although
\* a requeue, a hand-back by the worker, mails about earlier attempts and reports
\* without a start all leave such starts behind (_apply_lifecycle_metadata,
\* _apply_detail_timestamps, _repair_active_lifecycle_metadata).
StartInAttempt ==
    (file.status = RUNNING /\ rec.number = attempt.number /\ StartShown(rec, now) # NoTime)
        => attempt.dispatched <= rec.started /\ rec.started <= attempt.ran

\* The wait in the queue and the run that a client is shown together last no longer
\* than the job has existed, in every state and whatever attempt left the times
\* (_compute_job_durations).
DurationsAddUp == QueueWait(rec, now) + RunDuration(rec, now) <= TotalDuration(rec, now)

\* Between operations status.json holds the last mails that were sent, in their
\* order, although each status write replaces the file and a listing puts records with
\* an old history in the registry (_write_status, _force_status, list_jobs).  What
\* does lose mails is such a record that comes while a mail is sent: the history is
\* read from the registry afterwards (_append_email_notification_record).  A stalled
\* _refresh_jobs that refills jobs meanwhile loses mails in the same way; only the
\* listing is modelled.
HistoryKept == sending = NoMail /\ ~displaced => file.mails = LastOf(mails)

\* What is not so (README): the record in the registry is of the attempt at work.  A
\* listing that began before the dispatch restores the record it read.
RecordOfAttempt ==
    (attempt # NoAttempt /\ file.status \in Active) => rec.number = attempt.number
=============================================================================
