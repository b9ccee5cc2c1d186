----------------------------- MODULE JobStatus -----------------------------
(***************************************************************************)
(* The status vocabulary of a job and the transition table every ordinary  *)
(* status write is checked against (app/status.py), with the status sets   *)
(* job_service.py groups them into.  Absent stands for a job that has no   *)
(* status file and no registry record; no stored status equals it.         *)
(***************************************************************************)

LAUNCHING      == "launching"
QUEUED         == "queued"
DISPATCHED     == "dispatched"
SETUP          == "setup"
RUNNING        == "running"
RECOVERING     == "recovering"
FINISHED       == "finished"
FAILED         == "failed"
STOP_REQUESTED == "stop_requested"
STOPPED        == "stopped"
NOT_FOUND      == "not_found"
UNKNOWN        == "unknown"
CANCELED       == "canceled"

Absent == "absent"

Status == {LAUNCHING, QUEUED, DISPATCHED, SETUP, RUNNING, RECOVERING, FINISHED,
           FAILED, STOP_REQUESTED, STOPPED, NOT_FOUND, UNKNOWN, CANCELED}

\* ACTIVE_JOB_STATUSES: a worker is, or should be, busy with the job.
Active == {DISPATCHED, SETUP, RUNNING, RECOVERING, STOP_REQUESTED}

\* TERMINAL_JOB_STATUSES: the outcome of the job is known.
Terminal == {FINISHED, FAILED, STOPPED, CANCELED}

\* ALLOWED_TRANSITIONS.get(current, set())
AllowedFrom(current) ==
    CASE current = LAUNCHING  -> {QUEUED, RUNNING, CANCELED}
      [] current = QUEUED     -> {DISPATCHED, CANCELED}
      [] current = DISPATCHED -> {SETUP, RUNNING, FAILED, CANCELED, STOP_REQUESTED, QUEUED}
      [] current = SETUP      -> {RUNNING, RECOVERING, FAILED, CANCELED, STOP_REQUESTED, QUEUED}
      [] current = RUNNING    -> {RECOVERING, FINISHED, FAILED, STOP_REQUESTED, STOPPED, CANCELED}
      [] current = RECOVERING -> {FINISHED, FAILED, STOP_REQUESTED, STOPPED, CANCELED}
      [] current = STOP_REQUESTED -> {STOPPED, FAILED, CANCELED, FINISHED}
      [] OTHER -> {}

\* Mutant: an outcome may follow any status.
can_transition_to_end(current, new) ==
    \/ new \in {NOT_FOUND, UNKNOWN} \cup Terminal
    \/ new \in AllowedFrom(current)

\* Mutant: a worker may hand back a job in any active status.
can_transition_back(current, new) ==
    \/ new \in {NOT_FOUND, UNKNOWN}
    \/ new \in AllowedFrom(current)
    \/ current \in Active /\ new = QUEUED

\* The two utility statuses may be entered from anywhere.
can_transition(current, new) ==
    \/ new \in {NOT_FOUND, UNKNOWN}
    \/ new \in AllowedFrom(current)

\* What _write_status accepts: a first status, a repeated one, or a step of the table.
Writable(prev, new) == prev \in {Absent, new} \/ can_transition(prev, new)

=============================================================================
